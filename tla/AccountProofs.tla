---------------------------- MODULE AccountProofs ----------------------------
(***************************************************************************)
(* Theorems of TokenSession for any tokens, sessions, goroutines and       *)
(* caches, and of Login for any limit, goroutines, challenges and lost     *)
(* UPDATEs.                                                                *)
(*                                                                         *)
(* Tokens: the cache and the session row change one after the other, so    *)
(* what is true between operations is not inductive.  What is: a token a   *)
(* client has and that is in the cache is the one in the row of its        *)
(* session, whatever refreshes and rollbacks are under way.                *)
(*                                                                         *)
(* Logins: the lock is decided by a counter that was read before the       *)
(* password was compared; those who compare with an old one are counted.   *)
(***************************************************************************)
EXTENDS TokenSession, Login, FiniteSetTheorems, TLAPS

\* The database does not fail while the cache is in memory: a rotation that it
\* refuses for an error would be rolled back over a token still in the index.
Reliable == Memory => ~MayFail

Creating(p) == job[p].pc = "create_session"
Replacing(p) == job[p].pc \in {"check", "swap", "store", "drop", "rotate"}
Dropping(p) == job[p].pc \in {"del", "del_cache"}

\* A refresh that has taken the old token off the index.
Filling(p) == job[p].pc \in {"store", "drop", "rotate"} /\ ~job[p].back

\* The token a client has and the one it is to get, refresh or rollback.
Old(p) == IF job[p].back THEN job[p].to ELSE job[p].from
New(p) == IF job[p].back THEN job[p].from ELSE job[p].to

Sig(t) == sess[owner[t]].sig

\* A token a client has is of a session with a row.
HeldInv == \A t \in held : owner[t] \in Session /\ Sig(t) # NoToken

CacheInv == \A t \in cache \cup index : owner[t] \in Session

\* A row carries a token of its session that a client has.
RowInv ==
  \A s \in Session :
    /\ sess[s].sig # NoToken => sess[s].sig \in held /\ owner[sess[s].sig] = s
    /\ sess[s].revoked => sess[s].sig # NoToken

\* A login is alone with its session until the row is there.
CreateInv ==
  \A p \in Worker : Creating(p) =>
    /\ job[p].from \in Token \ held
    /\ owner[job[p].from] \in Session /\ Sig(job[p].from) = NoToken
    /\ \A u \in Token : owner[u] = owner[job[p].from] => u = job[p].from
    /\ \A q \in Worker : Creating(q) /\ job[q].from = job[p].from => q = p

\* A refresh replaces a token of a client by one that nobody else has.
ReplaceInv ==
  \A p \in Worker : Replacing(p) =>
    /\ Old(p) \in held /\ New(p) \in Token \ held
    /\ owner[New(p)] = owner[Old(p)]
    /\ job[p].pc = "rotate" => ~job[p].back
    /\ job[p].pc \in {"swap", "store", "drop"} => Memory
    /\ \A q \in Worker : Replacing(q) /\ New(q) = New(p) => q = p

\* A deletion does not touch the token a refresh is about to give.
DropInv ==
  \A p \in Worker : Dropping(p) =>
    /\ job[p].from \in Token /\ owner[job[p].from] \in Session
    /\ \A q \in Worker : Replacing(q) => New(q) # job[p].from

StructInv ==
  TypeOK /\ HeldInv /\ CacheInv /\ RowInv /\ CreateInv /\ ReplaceInv /\ DropInv

\* A token of a client that is in the cache is the one of its row.
ActiveInv == \A t \in held \cap cache : Sig(t) = t

\* When the row is rotated its token is off the cache, or the row is revoked.
RotateInv ==
  \A p \in Worker : job[p].pc = "rotate" =>
    job[p].from \notin cache \/ sess[owner[job[p].from]].revoked

\* The memory cache: only a revocation refuses a rotation, so that what a
\* rollback brings back is revoked; the tokens of clients in the index are those
\* of their rows; and of an active session there is one token in the index or
\* on its way through a refresh.
MemoryInv ==
  /\ \A p \in Worker : Replacing(p) /\ job[p].back =>
       Sig(Old(p)) = Old(p) /\ sess[owner[Old(p)]].revoked
  /\ \A p \in Worker : Filling(p) => Sig(job[p].from) = job[p].from
  /\ \A t \in index \cap held : Sig(t) = t
  /\ \A p, q \in Worker :
       Filling(p) /\ Filling(q) /\ owner[job[p].from] = owner[job[q].from] =>
         p = q \/ sess[owner[job[p].from]].revoked
  /\ \A p \in Worker : Filling(p) =>
       \/ sess[owner[job[p].from]].revoked
       \/ \A t \in index \cap held : owner[t] # owner[job[p].from]

\* A refresh that has taken the old token out of the Redis cache, and has yet to
\* rotate the row or to bring that token back.
Owing(p) == Replacing(p) /\ (job[p].pc = "rotate" \/ job[p].back)

\* The Redis cache: of a session there is one token in the cache; a refresh that
\* is not settled is alone with its old token, which is the one of the row as
\* long as the new one is in the cache.
RedisInv ==
  /\ \A t, u \in cache : owner[t] = owner[u] => t = u
  /\ \A p \in Worker : Owing(p) =>
       Old(p) \notin cache /\ (New(p) \in cache => Sig(Old(p)) = Old(p))
  /\ \A p, q \in Worker : Owing(p) /\ Owing(q) /\ Old(p) = Old(q) => p = q

SafeInv ==
  ActiveInv /\ RotateInv /\ (Memory => MemoryInv) /\ (~Memory => RedisInv)

TokenInv == StructInv /\ (Reliable => SafeInv)

LEMMA InitToken == Init => TokenInv
<1> SUFFICES ASSUME Init PROVE TokenInv
  OBVIOUS
<1>1. IdleJob \in Job /\ IdleJob.pc = "idle"
  BY DEF IdleJob, Job, Pcs, MaybeToken
<1>2. TypeOK
  BY <1>1 DEF Init, TypeOK, MaybeToken, SessionRow
<1>3. \A p \in Worker : job[p].pc = "idle"
  BY <1>1 DEF Init
<1>4. HeldInv /\ CacheInv /\ RowInv
  BY DEF Init, HeldInv, CacheInv, RowInv
<1>5. CreateInv /\ ReplaceInv /\ DropInv
  BY <1>3 DEF CreateInv, ReplaceInv, DropInv, Creating, Replacing, Dropping
<1>6. SafeInv
  BY <1>3
     DEF Init, SafeInv, ActiveInv, RotateInv, MemoryInv, RedisInv, Replacing,
         Filling, Owing
<1>. QED BY <1>2, <1>4, <1>5, <1>6 DEF TokenInv, StructInv

----------------------------------------------------------------------------
(* Steps that give no token to a client and change no signature.           *)

\* Rows stay, and only those that are there are revoked.
RowsStay ==
  \A s \in Session :
    /\ sess'[s].sig = sess[s].sig
    /\ sess[s].revoked => sess'[s].revoked
    /\ sess'[s].revoked => sess[s].revoked \/ sess[s].sig # NoToken

\* What a goroutine may turn to: a refresh goes on with its two tokens, and a
\* token may be deleted unless a refresh is about to give it.
Continues(p) ==
  /\ Replacing(p) /\ Replacing(p)'
  /\ Old(p)' = Old(p) /\ New(p)' = New(p)
  /\ job'[p].pc = "rotate" => ~job'[p].back
  /\ job'[p].pc \in {"swap", "store", "drop"} => Memory

Deletes(p) ==
  /\ Dropping(p)'
  /\ job'[p].from \in Token /\ owner[job'[p].from] \in Session
  /\ \A q \in Worker : Replacing(q)' => New(q)' # job'[p].from

Turns ==
  \A p \in Worker : \/ job'[p] = job[p] \/ job'[p].pc \in {"idle", "del_user"}
                    \/ Continues(p) \/ Deletes(p)

LEMMA QuietStruct ==
  ASSUME StructInv, TypeOK', UNCHANGED <<backend, owner, held>>, RowsStay,
         Turns, \A t \in (cache \cup index)' : owner[t] \in Session
  PROVE  StructInv'
<1> USE DEF StructInv
<1>1. HeldInv' /\ CacheInv' /\ RowInv'
  BY DEF HeldInv, CacheInv, RowInv, RowsStay, Sig
<1>2. CreateInv'
  BY DEF CreateInv, HeldInv, Turns, Continues, Deletes, Creating, Replacing,
         Dropping, RowsStay, Sig
<1>3. \A p \in Worker : Replacing(p)' =>
        Replacing(p) /\ New(p)' = New(p) /\ Old(p)' = Old(p)
  BY DEF Turns, Continues, Deletes, Replacing, Dropping, Old, New
<1>4. ReplaceInv'
  BY <1>3 DEF ReplaceInv, Turns, Continues, Deletes, Replacing, Dropping, Memory
<1>5. DropInv'
  BY <1>3 DEF DropInv, Turns, Continues, Deletes, Replacing, Dropping
<1>. QED BY <1>1, <1>2, <1>4, <1>5

\* Taking tokens out of the cache, and revoking, keeps what is safe, as long as
\* no refresh goes further than to look at the index.
LEMMA ShrinkSafe ==
  ASSUME StructInv, SafeInv, UNCHANGED <<backend, owner, held>>, RowsStay,
         cache' \subseteq cache, index' \subseteq index,
         \A p \in Worker :
           \/ job'[p] = job[p] \/ ~Replacing(p)'
           \/ /\ Replacing(p) /\ job'[p].pc \in {"check", "swap"}
              /\ job'[p].from = job[p].from /\ job'[p].to = job[p].to
              /\ job'[p].back = job[p].back
  PROVE  SafeInv'
<1>1. \A t \in held : owner[t] \in Session
  BY DEF StructInv, HeldInv
<1>2. \A p \in Worker :
        Replacing(p) => /\ Old(p) \in held /\ owner[New(p)] = owner[Old(p)]
                        /\ job[p].pc = "rotate" => ~job[p].back
  BY DEF StructInv, ReplaceInv
<1>3. ASSUME NEW p \in Worker, Replacing(p)'
      PROVE  /\ Replacing(p) /\ Old(p)' = Old(p) /\ New(p)' = New(p)
             /\ job'[p].back = job[p].back /\ job'[p].from = job[p].from
             /\ job'[p].pc \in {"store", "drop", "rotate"} => job'[p] = job[p]
  BY <1>3 DEF Replacing, Old, New
<1>4. ActiveInv'
  BY <1>1 DEF SafeInv, ActiveInv, RowsStay, Sig
<1>5. RotateInv'
  BY <1>1, <1>2, <1>3 DEF SafeInv, RotateInv, RowsStay, Replacing, Old
<1>6. ASSUME Memory PROVE MemoryInv'
  BY <1>1, <1>2, <1>3, <1>6
     DEF SafeInv, MemoryInv, RowsStay, Sig, Filling, Replacing, Old
<1>7. ASSUME ~Memory PROVE RedisInv'
  BY <1>1, <1>2, <1>3, <1>7 DEF SafeInv, RedisInv, RowsStay, Sig, Owing
<1>. QED BY <1>4, <1>5, <1>6, <1>7 DEF SafeInv, Memory

\* A goroutine turns to something else.
LEMMA JobMoves ==
  ASSUME TypeOK, NEW p \in Worker, NEW j \in Job, job' = [job EXCEPT ![p] = j]
  PROVE  /\ job' \in [Worker -> Job] /\ job'[p] = j
         /\ \A q \in Worker : q # p => job'[q] = job[q]
BY DEF TypeOK

LEMMA IdleJobType == IdleJob \in Job /\ IdleJob.pc = "idle"
BY DEF IdleJob, Job, Pcs, MaybeToken

LEMMA RevokedRows ==
  ASSUME TypeOK, NEW S, Revoked(S)
  PROVE  sess' \in [Session -> SessionRow] /\ RowsStay
BY DEF TypeOK, Revoked, RowsStay, SessionRow, MaybeToken

\* A goroutine answers, or deletes a token that no refresh is about to give.
LEMMA LeaveToken ==
  ASSUME TokenInv, NEW p \in Worker, NEW j \in Job,
         job' = [job EXCEPT ![p] = j],
         \/ j.pc \in {"idle", "del_user"}
         \/ /\ j.pc \in {"del", "del_cache"}
            /\ j.from \in Token /\ owner[j.from] \in Session
            /\ \A q \in Worker : q # p /\ Replacing(q) => New(q) # j.from,
         cache' \subseteq cache, index' \subseteq index, known' \in BOOLEAN,
         sess' \in [Session -> SessionRow], RowsStay,
         UNCHANGED <<backend, owner, held>>
  PROVE  TokenInv'
<1>1. /\ job' \in [Worker -> Job] /\ job'[p] = j
      /\ \A q \in Worker : q # p => job'[q] = job[q]
  BY JobMoves DEF TokenInv, StructInv
<1>2. TypeOK'
  BY <1>1 DEF TokenInv, StructInv, TypeOK
<1>3. ~Replacing(p)'
  BY <1>1 DEF Replacing
<1>4. Turns
  <2>1. CASE j.pc \in {"idle", "del_user"}
    BY <1>1, <2>1 DEF Turns
  <2>2. CASE j.pc \in {"del", "del_cache"}
    <3>1. Deletes(p)
      BY <1>1, <1>3, <2>2 DEF Deletes, Dropping, Replacing, New
    <3>. QED BY <1>1, <3>1 DEF Turns
  <2>. QED BY <2>1, <2>2
<1>5. StructInv'
  BY <1>2, <1>4, QuietStruct DEF TokenInv, StructInv, CacheInv
<1>6. ASSUME Reliable' PROVE SafeInv'
  BY <1>1, <1>3, <1>6, ShrinkSafe DEF TokenInv, Reliable, Memory, MayFail
<1>. QED BY <1>5, <1>6 DEF TokenInv

LEMMA CreateFailsToken ==
  ASSUME TokenInv, NEW p \in Worker, CreateSessionFails(p)
  PROVE  TokenInv'
<1> DEFINE j == [job[p] EXCEPT !.pc = "del"]
<1> USE DEF TokenInv, StructInv
<1>1. j \in Job /\ j.pc = "del" /\ j.from = job[p].from
  BY DEF TypeOK, Job, Pcs
<1>2. job' = [job EXCEPT ![p] = j] /\ Creating(p)
  BY DEF CreateSessionFails, Goto, At, TypeOK, Creating
<1>3. /\ j.from \in Token /\ owner[j.from] \in Session
      /\ Sig(j.from) = NoToken
  BY <1>1, <1>2 DEF CreateInv
<1>4. \A q \in Worker : Replacing(q) => New(q) # j.from
  BY <1>3 DEF ReplaceInv, HeldInv, Sig
<1>. HIDE DEF j
<1>5. RowsStay /\ UNCHANGED <<backend, owner, held, cache, index, known, sess>>
  BY DEF CreateSessionFails, RowsStay
<1>. QED BY <1>1, <1>2, <1>3, <1>4, <1>5, LeaveToken DEF TypeOK

LEMMA LogoutToken ==
  ASSUME TokenInv, NEW p \in Worker, NEW t \in Token, Logout(p, t)
  PROVE  TokenInv'
<1> DEFINE j == [IdleJob EXCEPT !.pc = "del", !.from = t]
<1> USE DEF TokenInv, StructInv
<1>1. j \in Job /\ j.pc = "del" /\ j.from = t
  BY DEF IdleJob, Job, Pcs, MaybeToken
<1>2. t \in held /\ job' = [job EXCEPT ![p] = j]
  BY DEF Logout
<1>3. owner[t] \in Session /\ \A q \in Worker : Replacing(q) => New(q) # t
  BY <1>2 DEF HeldInv, ReplaceInv
<1>. HIDE DEF j
<1>4. UNCHANGED <<backend, cache, index, known, owner, held>>
  BY DEF Logout
<1>5. sess' \in [Session -> SessionRow] /\ RowsStay
  <2>1. CASE UNCHANGED sess
    BY <2>1 DEF TypeOK, RowsStay
  <2>2. CASE Revoked({s \in Session : sess[s].sig = t})
    BY <2>2, RevokedRows
  <2>. QED BY <2>1, <2>2 DEF Logout
<1>. QED BY <1>1, <1>2, <1>3, <1>4, <1>5, LeaveToken DEF TypeOK

LEMMA DelToken ==
  ASSUME TokenInv, NEW p \in Worker, Del(p)
  PROVE  TokenInv'
<1> DEFINE j == [job[p] EXCEPT !.pc = "del_cache"]
<1> USE DEF TokenInv, StructInv
<1>1. j \in Job /\ j.pc = "del_cache" /\ j.from = job[p].from
  BY DEF TypeOK, Job, Pcs
<1>2. job' = [job EXCEPT ![p] = IdleJob] \/ job' = [job EXCEPT ![p] = j]
  BY DEF Del, Goto, Return, TypeOK
<1>3. /\ j.from \in Token /\ owner[j.from] \in Session
      /\ \A q \in Worker : Replacing(q) => New(q) # j.from
  BY <1>1 DEF Del, At, DropInv, Dropping
<1>. HIDE DEF j
<1>4. /\ cache' \subseteq cache /\ index' \subseteq index /\ RowsStay
      /\ UNCHANGED <<backend, known, owner, sess, held>>
  BY DEF Del, RowsStay
<1>. QED BY <1>1, <1>2, <1>3, <1>4, IdleJobType, LeaveToken DEF TypeOK

\* The steps of deletions that need nothing but the lock.
LEMMA EvictToken ==
  ASSUME TokenInv, NEW p \in Worker,
         \/ DelCache(p) \/ DelByUserID(p) \/ DelUserReturns(p)
         \/ \E t \in Token : DelUserToken(p, t)
  PROVE  TokenInv'
<1> USE DEF TokenInv, StructInv
<1>1. PICK j \in Job :
        j.pc \in {"idle", "del_user"} /\ job' = [job EXCEPT ![p] = j]
  <2>1. CASE DelCache(p) \/ DelUserReturns(p)
    BY <2>1, IdleJobType DEF DelCache, DelUserReturns, Return
  <2>2. CASE DelByUserID(p)
    <3> DEFINE k == [IdleJob EXCEPT !.pc = "del_user",
                                    !.todo = IF Memory THEN index ELSE {}]
    <3>1. k \in Job /\ k.pc = "del_user"
      BY DEF TypeOK, IdleJob, Job, Pcs, MaybeToken
    <3>. QED BY <2>2, <3>1 DEF DelByUserID
  <2>3. ASSUME NEW t \in Token, DelUserToken(p, t)
        PROVE  \E k \in Job : k.pc = "del_user" /\ job' = [job EXCEPT ![p] = k]
    <3> DEFINE k == [job[p] EXCEPT !.todo = @ \ {t}]
    <3>1. k \in Job /\ k.pc = "del_user"
      BY <2>3 DEF TypeOK, Job, DelUserToken, At
    <3>. QED BY <2>3, <3>1 DEF DelUserToken, TypeOK
  <2>. QED BY <2>1, <2>2, <2>3
<1>2. /\ cache' \subseteq cache /\ index' \subseteq index /\ RowsStay
      /\ known' \in BOOLEAN /\ UNCHANGED <<backend, owner, sess, held>>
  BY DEF DelCache, DelByUserID, DelUserReturns, DelUserToken, Evicted, RowsStay,
         TypeOK
<1>. QED BY <1>1, <1>2, LeaveToken DEF TypeOK

\* A refresh that has failed, or its rollback.
LEMMA FailsToken ==
  ASSUME TokenInv, NEW p \in Worker, Replacing(p), ReplaceFails(p),
         UNCHANGED <<backend, known, owner, sess, held>>
  PROVE  TokenInv'
<1> DEFINE j == [job[p] EXCEPT !.pc = "del"]
<1> USE DEF TokenInv, StructInv
<1>1. j \in Job /\ j.pc = "del" /\ j.from = job[p].from
  BY DEF TypeOK, Job, Pcs
<1>2. \/ job' = [job EXCEPT ![p] = IdleJob]
      \/ job[p].back /\ job' = [job EXCEPT ![p] = j]
  BY DEF ReplaceFails, Goto, Return, TypeOK
<1>3. job[p].back =>
        /\ j.from \in Token /\ owner[j.from] \in Session
        /\ \A q \in Worker : q # p /\ Replacing(q) => New(q) # j.from
  <2> SUFFICES ASSUME job[p].back PROVE
        /\ New(p) \in Token /\ owner[New(p)] \in Session
        /\ \A q \in Worker : q # p /\ Replacing(q) => New(q) # New(p)
    BY <1>1 DEF New
  <2>. QED BY DEF ReplaceInv, HeldInv
<1>. HIDE DEF j
<1>4. UNCHANGED <<cache, index>> /\ RowsStay
  BY DEF ReplaceFails, RowsStay
<1>. QED BY <1>1, <1>2, <1>3, <1>4, IdleJobType, LeaveToken DEF TypeOK

LEMMA RevokeToken ==
  ASSUME TokenInv, NEW S, Revoke(S)
  PROVE  TokenInv'
<1> USE DEF TokenInv
<1>1. TypeOK /\ UNCHANGED <<backend, cache, index, known, owner, held, job>>
  BY DEF Revoke, StructInv
<1>2. sess' \in [Session -> SessionRow] /\ RowsStay
  BY <1>1, RevokedRows DEF Revoke
<1>3. TypeOK' /\ Turns
  BY <1>1, <1>2 DEF TypeOK, Turns
<1>4. StructInv'
  BY <1>1, <1>2, <1>3, QuietStruct DEF StructInv, CacheInv
<1>5. ASSUME Reliable' PROVE SafeInv'
  BY <1>1, <1>2, <1>5, ShrinkSafe DEF Reliable, Memory, MayFail
<1>. QED BY <1>4, <1>5

LEMMA RestartToken ==
  ASSUME TokenInv, Restart
  PROVE  TokenInv'
<1> USE DEF TokenInv
<1>1. /\ TypeOK /\ UNCHANGED <<backend, owner, sess, held>>
      /\ cache' \subseteq cache /\ index' \subseteq index /\ RowsStay
  BY DEF Restart, StructInv, RowsStay
<1>2. \A p \in Worker : job'[p].pc = "idle"
  BY IdleJobType DEF Restart
<1>3. TypeOK' /\ Turns
  BY <1>1, <1>2, IdleJobType DEF TypeOK, Turns, Restart
<1>4. StructInv'
  BY <1>1, <1>3, QuietStruct DEF StructInv, CacheInv
<1>5. ASSUME Reliable' PROVE SafeInv'
  <2>1. \A p \in Worker : ~Replacing(p)'
    BY <1>2 DEF Replacing
  <2>. QED BY <1>1, <1>5, <2>1, ShrinkSafe DEF Reliable, Memory, MayFail
<1>. QED BY <1>4, <1>5

----------------------------------------------------------------------------
(* Login and refresh: a token is issued.                                   *)

\* A token that is issued is none that a cache, a client, a row or a goroutine
\* has: what is known of the others stays.
LEMMA IssuedFacts ==
  ASSUME StructInv, NEW n \in Token, Fresh(n), NEW s \in Session,
         owner' = [owner EXCEPT ![n] = s]
  PROVE  /\ owner' \in [Token -> Session \cup {NoSession}]
         /\ owner'[n] = s /\ \A t \in Token : t # n => owner'[t] = owner[t]
         /\ n \notin held \cup cache \cup index
         /\ \A p \in Worker :
              /\ Creating(p) \/ Dropping(p) => job[p].from \in Token \ {n}
              /\ Replacing(p) =>
                   Old(p) \in Token \ {n} /\ New(p) \in Token \ {n}
         /\ \A x \in Session : sess[x].sig # n
<1> USE TokenSessionAssumption DEF StructInv, Fresh
<1>1. owner' \in [Token -> Session \cup {NoSession}]
      /\ owner'[n] = s /\ \A t \in Token : t # n => owner'[t] = owner[t]
  BY DEF TypeOK
<1>2. n \notin held \cup cache \cup index
  BY DEF HeldInv, CacheInv
<1>3. ASSUME NEW p \in Worker, Creating(p) \/ Dropping(p)
      PROVE  job[p].from \in Token \ {n}
  BY <1>3 DEF CreateInv, DropInv
<1>4. ASSUME NEW p \in Worker, Replacing(p)
      PROVE  Old(p) \in Token \ {n} /\ New(p) \in Token \ {n}
  <2>1. Old(p) \in held /\ New(p) \in Token /\ owner[New(p)] = owner[Old(p)]
    BY <1>4 DEF ReplaceInv
  <2>2. owner[Old(p)] \in Session
    BY <2>1 DEF HeldInv
  <2>. QED BY <2>1, <2>2 DEF TypeOK
<1>5. \A x \in Session : sess[x].sig # n
  BY <1>2 DEF RowInv
<1>. QED BY <1>1, <1>2, <1>3, <1>4, <1>5

LEMMA LoginToken ==
  ASSUME TokenInv, NEW p \in Worker, NEW s \in Session, NEW t \in Token,
         Login(p, s, t)
  PROVE  TokenInv'
<1> DEFINE j == [IdleJob EXCEPT !.pc = "create_session", !.from = t]
<1>1. j \in Job /\ j.pc = "create_session" /\ j.from = t
  BY DEF IdleJob, Job, Pcs, MaybeToken
<1>2. job' = [job EXCEPT ![p] = j] /\ StructInv
  BY DEF Login, TokenInv
<1>. HIDE DEF j
<1>3. /\ job' \in [Worker -> Job] /\ job'[p].pc = "create_session"
      /\ job'[p].from = t /\ \A q \in Worker : q # p => job'[q] = job[q]
  BY <1>1, <1>2, JobMoves DEF StructInv
<1>4. /\ cache' = cache \cup {t} /\ index \subseteq index'
      /\ index' \subseteq index \cup {t} /\ known' \in BOOLEAN
      /\ UNCHANGED <<backend, sess, held>>
      /\ \A x \in Token : owner[x] # s
  BY <1>2 DEF Login, StructInv, TypeOK
<1>5. /\ owner' \in [Token -> Session \cup {NoSession}]
      /\ owner'[t] = s /\ \A u \in Token : u # t => owner'[u] = owner[u]
      /\ t \notin held \cup cache \cup index
      /\ \A q \in Worker :
           /\ Creating(q) \/ Dropping(q) => job[q].from \in Token \ {t}
           /\ Replacing(q) => Old(q) \in Token \ {t} /\ New(q) \in Token \ {t}
      /\ \A x \in Session : sess[x].sig # t
  BY <1>2, IssuedFacts DEF Login
<1>6. TypeOK'
  BY <1>3, <1>4, <1>5 DEF TokenInv, StructInv, TypeOK
<1>7. StructInv'
  <2> USE DEF TokenInv, StructInv
  <2>1. HeldInv' /\ CacheInv' /\ RowInv'
    BY <1>4, <1>5 DEF HeldInv, CacheInv, RowInv, Sig, TypeOK
  <2>2. CreateInv'
    <3>1. sess[s].sig = NoToken
      BY <1>4 DEF RowInv, TypeOK
    <3>. QED BY <1>3, <1>4, <1>5, <3>1 DEF CreateInv, Creating, Sig
  <2>3. ReplaceInv'
    BY <1>3, <1>4, <1>5 DEF ReplaceInv, Replacing, Old, New, Memory
  <2>4. DropInv'
    BY <1>3, <1>4, <1>5 DEF DropInv, Dropping, Replacing, Old, New
  <2>. QED BY <1>6, <2>1, <2>2, <2>3, <2>4
<1>8. ASSUME Reliable' PROVE SafeInv'
  <2>1. SafeInv /\ Memory' = Memory
    BY <1>4, <1>8 DEF TokenInv, Reliable, Memory, MayFail
  <2>2. ActiveInv'
    BY <1>4, <1>5, <2>1 DEF SafeInv, ActiveInv, Sig, StructInv, TokenInv, TypeOK
  <2>3. \A q \in Worker : Replacing(q)' =>
          /\ q # p /\ job'[q] = job[q] /\ Replacing(q)
          /\ job[q].from \in Token \ {t} /\ job[q].to \in Token \ {t}
    BY <1>3, <1>5 DEF Replacing, Old, New
  <2>4. RotateInv'
    BY <1>4, <1>5, <2>1, <2>3 DEF SafeInv, RotateInv, Replacing
  <2>5. ASSUME Memory PROVE MemoryInv'
    BY <1>4, <1>5, <2>1, <2>3, <2>5
       DEF SafeInv, MemoryInv, Filling, Replacing, Old, Sig, TokenInv,
           StructInv, TypeOK
  <2>6. ASSUME ~Memory PROVE RedisInv'
    BY <1>4, <1>5, <2>1, <2>3, <2>6
       DEF SafeInv, RedisInv, Owing, Replacing, Old, New, Sig, TokenInv,
           StructInv, TypeOK
  <2>. QED BY <2>1, <2>2, <2>4, <2>5, <2>6 DEF SafeInv
<1>. QED BY <1>7, <1>8 DEF TokenInv

LEMMA RefreshToken ==
  ASSUME TokenInv, NEW p \in Worker, NEW t \in Token, NEW n \in Token,
         Refresh(p, t, n)
  PROVE  TokenInv'
<1> DEFINE j == [IdleJob EXCEPT !.pc = "check", !.from = t, !.to = n]
<1>1. j \in Job /\ j.pc = "check" /\ j.from = t /\ j.to = n /\ ~j.back
  BY DEF IdleJob, Job, Pcs, MaybeToken
<1>2. job' = [job EXCEPT ![p] = j] /\ StructInv
  BY DEF Refresh, TokenInv
<1>. HIDE DEF j
<1>3. /\ job' \in [Worker -> Job] /\ job'[p].pc = "check"
      /\ job'[p].from = t /\ job'[p].to = n /\ ~job'[p].back
      /\ \A q \in Worker : q # p => job'[q] = job[q]
  BY <1>1, <1>2, JobMoves DEF StructInv
<1>4. t \in held /\ UNCHANGED <<backend, cache, index, known, sess, held>>
  BY DEF Refresh
<1>5. owner[t] \in Session /\ Sig(t) # NoToken
  BY <1>2, <1>4 DEF StructInv, HeldInv
<1>6. /\ owner' \in [Token -> Session \cup {NoSession}]
      /\ owner'[n] = owner[t] /\ \A u \in Token : u # n => owner'[u] = owner[u]
      /\ n \notin held \cup cache \cup index
      /\ \A q \in Worker :
           /\ Creating(q) \/ Dropping(q) => job[q].from \in Token \ {n}
           /\ Replacing(q) => Old(q) \in Token \ {n} /\ New(q) \in Token \ {n}
      /\ \A x \in Session : sess[x].sig # n
  BY <1>2, <1>5, IssuedFacts DEF Refresh
<1>7. TypeOK'
  BY <1>3, <1>4, <1>6 DEF TokenInv, StructInv, TypeOK
<1>8. StructInv'
  <2> USE DEF TokenInv, StructInv
  <2>1. HeldInv' /\ CacheInv' /\ RowInv'
    BY <1>4, <1>6 DEF HeldInv, CacheInv, RowInv, Sig, TypeOK
  <2>2. CreateInv'
    BY <1>3, <1>4, <1>6, <1>5 DEF CreateInv, Creating, Sig
  <2>3. ReplaceInv'
    BY <1>3, <1>4, <1>6 DEF ReplaceInv, Replacing, Old, New, Memory
  <2>4. DropInv'
    BY <1>3, <1>4, <1>6 DEF DropInv, Dropping, Replacing, Old, New
  <2>. QED BY <1>7, <2>1, <2>2, <2>3, <2>4
<1>9. ASSUME Reliable' PROVE SafeInv'
  <2>1. SafeInv /\ Memory' = Memory
    BY <1>4, <1>9 DEF TokenInv, Reliable, Memory, MayFail
  <2>2. ActiveInv'
    BY <1>4, <1>6, <2>1 DEF SafeInv, ActiveInv, Sig, StructInv, TokenInv, TypeOK
  <2>3. \A q \in Worker :
          /\ Replacing(q)' /\ q # p =>
               /\ job'[q] = job[q] /\ Replacing(q)
               /\ job[q].from \in Token \ {n} /\ job[q].to \in Token \ {n}
          /\ Filling(q)' \/ Owing(q)' \/ job'[q].back => q # p \/ ~Replacing(q)'
    BY <1>3, <1>6 DEF Replacing, Filling, Owing, Old, New
  <2>4. RotateInv'
    BY <1>3, <1>4, <1>6, <2>1, <2>3 DEF SafeInv, RotateInv, Replacing
  <2>5. ASSUME Memory PROVE MemoryInv'
    BY <1>3, <1>4, <1>6, <2>1, <2>3, <2>5
       DEF SafeInv, MemoryInv, Filling, Replacing, Old, Sig, TokenInv,
           StructInv, TypeOK
  <2>6. ASSUME ~Memory PROVE RedisInv'
    BY <1>3, <1>4, <1>6, <2>1, <2>3, <2>6
       DEF SafeInv, RedisInv, Owing, Replacing, Old, New, Sig, TokenInv,
           StructInv, TypeOK
  <2>. QED BY <2>1, <2>2, <2>4, <2>5, <2>6 DEF SafeInv
<1>. QED BY <1>8, <1>9 DEF TokenInv

----------------------------------------------------------------------------
(* The steps that give a client a token.                                   *)

LEMMA CreateToken ==
  ASSUME TokenInv, NEW p \in Worker, CreateSession(p)
  PROVE  TokenInv'
<1> DEFINE t == job[p].from
<1> USE TokenSessionAssumption
<1>1. /\ TypeOK /\ Creating(p) /\ t \in Token \ held /\ owner[t] \in Session
      /\ Sig(t) = NoToken
  BY DEF CreateSession, At, Creating, TokenInv, StructInv, CreateInv
<1>2. /\ job' \in [Worker -> Job] /\ job'[p].pc = "idle"
      /\ \A q \in Worker : q # p => job'[q] = job[q]
  BY <1>1, IdleJobType, JobMoves DEF CreateSession, Return
<1>3. /\ held' = held \cup {t}
      /\ UNCHANGED <<backend, cache, index, known, owner>>
      /\ sess' \in [Session -> SessionRow]
      /\ sess'[owner[t]].sig = t /\ ~sess'[owner[t]].revoked
      /\ \A s \in Session : s # owner[t] => sess'[s] = sess[s]
  BY <1>1 DEF CreateSession, TypeOK, SessionRow, MaybeToken
<1>. HIDE DEF t
<1>4. \A q \in Worker :
        /\ Replacing(q)' => /\ q # p /\ job'[q] = job[q] /\ Replacing(q)
                            /\ Old(q) \in held /\ New(q) \in Token
                            /\ owner[New(q)] = owner[Old(q)]
                            /\ job[q].pc = "rotate" => ~job[q].back
                            /\ owner[Old(q)] \in Session
                            /\ owner[Old(q)] # owner[t]
        /\ Creating(q)' => /\ q # p /\ job'[q] = job[q] /\ Creating(q)
                           /\ job[q].from # t /\ owner[job[q].from] # owner[t]
        /\ Dropping(q)' => q # p /\ job'[q] = job[q] /\ Dropping(q)
  <2>1. \A u \in held : owner[u] \in Session /\ owner[u] # owner[t]
    BY <1>1 DEF TokenInv, StructInv, HeldInv, Sig
  <2>2. ASSUME NEW q \in Worker, Replacing(q)'
        PROVE  /\ q # p /\ job'[q] = job[q] /\ Replacing(q)
               /\ Old(q) \in held /\ New(q) \in Token
               /\ owner[New(q)] = owner[Old(q)]
               /\ job[q].pc = "rotate" => ~job[q].back
    BY <1>2, <2>2 DEF TokenInv, StructInv, ReplaceInv, Replacing
  <2>3. ASSUME NEW q \in Worker, Creating(q)'
        PROVE  /\ q # p /\ job'[q] = job[q] /\ Creating(q)
               /\ job[q].from # t /\ owner[job[q].from] # owner[t]
    BY <1>1, <1>2, <2>3 DEF TokenInv, StructInv, CreateInv, Creating, t
  <2>4. \A q \in Worker : Dropping(q)' =>
          q # p /\ job'[q] = job[q] /\ Dropping(q)
    BY <1>2 DEF Dropping
  <2>. QED BY <2>1, <2>2, <2>3, <2>4
<1>5. TypeOK'
  BY <1>1, <1>2, <1>3 DEF TypeOK
<1>6. StructInv'
  <2> USE DEF TokenInv, StructInv
  <2>1. HeldInv' /\ CacheInv' /\ RowInv'
    BY <1>1, <1>3 DEF HeldInv, CacheInv, RowInv, Sig
  <2>2. CreateInv'
    BY <1>1, <1>3, <1>4 DEF CreateInv, Creating, Sig
  <2>3. ReplaceInv'
    BY <1>1, <1>3, <1>4 DEF ReplaceInv, Replacing, Old, New, Memory
  <2>4. DropInv'
    BY <1>3, <1>4 DEF DropInv, Dropping, Replacing, Old, New
  <2>. QED BY <1>5, <2>1, <2>2, <2>3, <2>4
<1>7. ASSUME Reliable' PROVE SafeInv'
  <2>1. SafeInv /\ Memory' = Memory
    BY <1>3, <1>7 DEF TokenInv, Reliable, Memory, MayFail
  <2>2. \A u \in held : owner[u] \in Session /\ owner[u] # owner[t]
    BY <1>1 DEF TokenInv, StructInv, HeldInv, Sig
  <2>3. ActiveInv'
    BY <1>3, <2>1, <2>2 DEF SafeInv, ActiveInv, Sig
  <2>4. \A q \in Worker :
          /\ Filling(q)' => Filling(q) /\ Replacing(q)'
          /\ Owing(q)' => Owing(q) /\ Replacing(q)'
          /\ Filling(q) /\ Replacing(q)' => job[q].from = Old(q)
          /\ Replacing(q)' => Old(q)' = Old(q) /\ New(q)' = New(q)
    BY <1>4 DEF Filling, Owing, Replacing, Old, New
  <2>5. RotateInv'
    BY <1>3, <1>4, <2>1 DEF SafeInv, RotateInv, Replacing, Old
  <2>6. ASSUME Memory PROVE MemoryInv'
    BY <1>3, <1>4, <2>1, <2>2, <2>4, <2>6 DEF SafeInv, MemoryInv, Sig
  <2>7. ASSUME ~Memory PROVE RedisInv'
    BY <1>3, <1>4, <2>1, <2>4, <2>7 DEF SafeInv, RedisInv, Sig, Owing
  <2>. QED BY <2>1, <2>3, <2>5, <2>6, <2>7 DEF SafeInv
<1>. QED BY <1>6, <1>7 DEF TokenInv

LEMMA RotateToken ==
  ASSUME TokenInv, NEW p \in Worker, Rotate(p)
  PROVE  TokenInv'
<1> DEFINE t == job[p].from
           n == job[p].to
           s == owner[t]
<1> USE TokenSessionAssumption
<1>1. /\ TypeOK /\ Replacing(p) /\ Filling(p) /\ Owing(p)
      /\ job[p].pc = "rotate"
      /\ Old(p) = t /\ New(p) = n
      /\ t \in held /\ t \in Token /\ n \in Token \ held /\ owner[n] = s
      /\ s \in Session
      /\ sess[s].sig = t /\ ~sess[s].revoked
  <2>1. /\ job[p].pc = "rotate" /\ Replacing(p) /\ sess[s].sig = t
        /\ ~sess[s].revoked
    BY DEF Rotate, At, Replacing
  <2>2. ~job[p].back /\ Old(p) \in held /\ New(p) \in Token \ held
        /\ owner[New(p)] = owner[Old(p)]
    BY <2>1 DEF TokenInv, StructInv, ReplaceInv
  <2>3. Old(p) = t /\ New(p) = n
    BY <2>2 DEF Old, New
  <2>4. TypeOK /\ s \in Session
    BY <2>2, <2>3 DEF TokenInv, StructInv, HeldInv
  <2>. QED
    BY <2>1, <2>2, <2>3, <2>4 DEF Filling, Owing, TypeOK
<1>2. /\ job' \in [Worker -> Job] /\ job'[p].pc = "idle"
      /\ \A q \in Worker : q # p => job'[q] = job[q]
  BY <1>1, IdleJobType, JobMoves DEF Rotate, Return
<1>3. /\ held' = held \cup {n}
      /\ UNCHANGED <<backend, cache, index, known, owner>>
      /\ sess' \in [Session -> SessionRow]
      /\ sess'[s].sig = n /\ ~sess'[s].revoked
      /\ \A x \in Session : x # s => sess'[x] = sess[x]
  BY <1>1 DEF Rotate, TypeOK, SessionRow, MaybeToken
<1>. HIDE DEF t, n, s
<1>4. \A q \in Worker :
        /\ Replacing(q)' => /\ q # p /\ job'[q] = job[q] /\ Replacing(q)
                            /\ Old(q) \in held /\ New(q) \in Token
                            /\ owner[New(q)] = owner[Old(q)]
                            /\ job[q].pc = "rotate" => ~job[q].back
                            /\ owner[Old(q)] \in Session /\ New(q) # n
        /\ Creating(q)' => /\ q # p /\ job'[q] = job[q] /\ Creating(q)
                           /\ job[q].from # n /\ owner[job[q].from] # s
        /\ Dropping(q)' => q # p /\ job'[q] = job[q] /\ Dropping(q)
  <2>1. ASSUME NEW q \in Worker, Replacing(q)'
        PROVE  /\ q # p /\ job'[q] = job[q] /\ Replacing(q)
               /\ Old(q) \in held /\ New(q) \in Token
               /\ owner[New(q)] = owner[Old(q)]
               /\ job[q].pc = "rotate" => ~job[q].back
               /\ owner[Old(q)] \in Session /\ New(q) # n
    BY <1>1, <1>2, <2>1
       DEF TokenInv, StructInv, HeldInv, ReplaceInv, Replacing
  <2>2. ASSUME NEW q \in Worker, Creating(q)'
        PROVE  /\ q # p /\ job'[q] = job[q] /\ Creating(q)
               /\ job[q].from # n /\ owner[job[q].from] # s
    BY <1>1, <1>2, <2>2 DEF TokenInv, StructInv, CreateInv, Creating, Sig
  <2>3. \A q \in Worker : Dropping(q)' =>
          q # p /\ job'[q] = job[q] /\ Dropping(q)
    BY <1>2 DEF Dropping
  <2>. QED BY <2>1, <2>2, <2>3
<1>5. TypeOK'
  BY <1>1, <1>2, <1>3 DEF TypeOK
<1>6. StructInv'
  <2> USE DEF TokenInv, StructInv
  <2>1. HeldInv' /\ CacheInv' /\ RowInv'
    BY <1>1, <1>3 DEF HeldInv, CacheInv, RowInv, Sig
  <2>2. CreateInv'
    BY <1>1, <1>3, <1>4 DEF CreateInv, Creating, Sig
  <2>3. ReplaceInv'
    BY <1>1, <1>3, <1>4 DEF ReplaceInv, Replacing, Old, New, Memory
  <2>4. DropInv'
    BY <1>3, <1>4 DEF DropInv, Dropping, Replacing, Old, New
  <2>. QED BY <1>5, <2>1, <2>2, <2>3, <2>4
<1>7. ASSUME Reliable' PROVE SafeInv'
  <2>1. SafeInv /\ Memory' = Memory
    BY <1>3, <1>7 DEF TokenInv, Reliable, Memory, MayFail
  <2>2. t \notin cache
    BY <1>1, <2>1 DEF SafeInv, RotateInv, s, t
  <2>3. \A u \in held : owner[u] \in Session
    BY DEF TokenInv, StructInv, HeldInv
  <2>4. ActiveInv'
    BY <1>1, <1>3, <2>1, <2>2, <2>3 DEF SafeInv, ActiveInv, Sig
  <2>5. \A q \in Worker :
          /\ Filling(q)' => Filling(q) /\ Replacing(q)'
          /\ Owing(q)' => Owing(q) /\ Replacing(q)'
          /\ Filling(q) /\ Replacing(q)' => job[q].from = Old(q)
          /\ Replacing(q)' => Old(q)' = Old(q) /\ New(q)' = New(q)
    BY <1>4 DEF Filling, Owing, Replacing, Old, New
  <2>6. RotateInv'
    BY <1>1, <1>3, <1>4, <2>1 DEF SafeInv, RotateInv, Replacing, Old
  <2>7. ASSUME Memory PROVE MemoryInv'
    <3>1. \A q \in Worker : Filling(q)' => owner[job[q].from] # s
      BY <1>1, <1>4, <2>1, <2>5, <2>7 DEF SafeInv, MemoryInv, s, t
    <3>2. \A q \in Worker : Replacing(q)' /\ job'[q].back => owner[Old(q)] # s
      BY <1>1, <1>4, <2>1, <2>7 DEF SafeInv, MemoryInv
    <3>3. \A u \in index \cap held : owner[u] # s
      BY <1>1, <2>1, <2>7 DEF SafeInv, MemoryInv, s, t
    <3>. QED
      BY <1>1, <1>3, <1>4, <2>1, <2>3, <2>5, <2>7, <3>1, <3>2, <3>3
         DEF SafeInv, MemoryInv, Sig
  <2>8. ASSUME ~Memory PROVE RedisInv'
    <3>1. ASSUME NEW q \in Worker, Owing(q)', New(q) \in cache
          PROVE  owner[Old(q)] # s
      <4>1. Owing(q) /\ q # p /\ Sig(Old(q)) = Old(q)
        BY <1>4, <2>1, <2>5, <2>8, <3>1 DEF SafeInv, RedisInv
      <4>2. Old(q) # Old(p)
        BY <1>1, <2>1, <2>8, <4>1 DEF SafeInv, RedisInv
      <4>. QED BY <1>1, <4>1, <4>2 DEF Sig
    <3>. QED
      BY <1>1, <1>3, <1>4, <2>1, <2>5, <2>8, <3>1 DEF SafeInv, RedisInv, Sig
  <2>. QED BY <2>1, <2>4, <2>6, <2>7, <2>8 DEF SafeInv
<1>. QED BY <1>6, <1>7 DEF TokenInv

----------------------------------------------------------------------------
(* ReplaceToken, step by step.                                             *)

\* A refresh or a rollback has its two tokens, of one session.
LEMMA ReplaceFacts ==
  ASSUME StructInv, NEW p \in Worker, Replacing(p)
  PROVE  /\ Old(p) \in held /\ Old(p) \in Token
         /\ New(p) \in Token /\ New(p) \notin held /\ New(p) # Old(p)
         /\ owner[Old(p)] \in Session /\ owner[New(p)] = owner[Old(p)]
         /\ job[p].pc = "rotate" => ~job[p].back
         /\ job[p].pc \in {"swap", "store", "drop"} => Memory
BY DEF StructInv, TypeOK, HeldInv, ReplaceInv

LEMMA GoesOn ==
  ASSUME TypeOK, NEW p \in Worker, NEW pc \in Pcs, Goto(p, pc)
  PROVE  /\ job' \in [Worker -> Job] /\ job'[p].pc = pc
         /\ job'[p].from = job[p].from /\ job'[p].to = job[p].to
         /\ job'[p].back = job[p].back
         /\ \A q \in Worker : q # p => job'[q] = job[q]
BY DEF TypeOK, Goto, Job

\* A step of ReplaceToken leaves the structure as it is.
LEMMA ReplaceStruct ==
  ASSUME StructInv, NEW p \in Worker, Replacing(p), TypeOK',
         UNCHANGED <<backend, owner, sess, held>>,
         cache' \subseteq cache \cup {Old(p), New(p)},
         index' \subseteq index \cup {Old(p), New(p)},
         \A q \in Worker : q # p => job'[q] = job[q],
         \/ job'[p].pc = "idle"
         \/ /\ Replacing(p)' /\ Old(p)' = Old(p) /\ New(p)' = New(p)
            /\ job'[p].pc = "rotate" => ~job'[p].back
            /\ job'[p].pc \in {"swap", "store", "drop"} => Memory
  PROVE  StructInv'
<1>1. RowsStay /\ Turns
  BY DEF RowsStay, Turns, Continues
<1>2. \A t \in (cache \cup index)' : owner[t] \in Session
  BY ReplaceFacts DEF StructInv, CacheInv
<1>. QED BY <1>1, <1>2, QuietStruct

LEMMA CheckToken ==
  ASSUME TokenInv, NEW p \in Worker, Check(p)
  PROVE  TokenInv'
<1>1. Replacing(p) /\ UNCHANGED <<backend, known, owner, sess, held>>
  BY DEF Check, At, Replacing
<1>2. CASE ReplaceFails(p)
  BY <1>1, <1>2, FailsToken
<1>3. CASE Goto(p, "swap") /\ UNCHANGED <<cache, index>>
  <2>1. /\ job' \in [Worker -> Job] /\ job'[p].pc = "swap"
        /\ job'[p].from = job[p].from /\ job'[p].to = job[p].to
        /\ job'[p].back = job[p].back
        /\ \A q \in Worker : q # p => job'[q] = job[q]
    BY <1>3, GoesOn DEF TokenInv, StructInv, Pcs
  <2>2. TypeOK' /\ RowsStay
    BY <1>1, <1>3, <2>1 DEF TokenInv, StructInv, TypeOK, RowsStay
  <2>3. StructInv'
    <3>1. Replacing(p)' /\ Old(p)' = Old(p) /\ New(p)' = New(p) /\ Memory
      BY <2>1 DEF Replacing, Old, New, Check
    <3>. QED BY <1>1, <1>3, <2>1, <2>2, <3>1, ReplaceStruct DEF TokenInv
  <2>4. ASSUME Reliable' PROVE SafeInv'
    <3>1. SafeInv
      BY <1>1, <2>4 DEF TokenInv, Reliable, Memory, MayFail
    <3>2. \A q \in Worker :
            \/ job'[q] = job[q]
            \/ /\ Replacing(q) /\ job'[q].pc \in {"check", "swap"}
               /\ job'[q].from = job[q].from /\ job'[q].to = job[q].to
               /\ job'[q].back = job[q].back
      BY <1>1, <2>1
    <3>. QED BY <1>1, <1>3, <2>2, <3>1, <3>2, ShrinkSafe DEF TokenInv
  <2>. QED BY <2>3, <2>4 DEF TokenInv
<1>. QED BY <1>2, <1>3 DEF Check

LEMMA SwapToken ==
  ASSUME TokenInv, NEW p \in Worker, Swap(p)
  PROVE  TokenInv'
<1>1. /\ Replacing(p) /\ job[p].pc = "swap"
      /\ UNCHANGED <<backend, known, owner, sess, held>>
  BY DEF Swap, At, Replacing
<1>2. CASE ReplaceFails(p)
  BY <1>1, <1>2, FailsToken
<1>3. CASE /\ job[p].from \in index
           /\ index' = (index \ {job[p].from}) \cup {job[p].to}
           /\ Goto(p, "store") /\ UNCHANGED cache
  <2>1. /\ job' \in [Worker -> Job] /\ job'[p].pc = "store"
        /\ job'[p].from = job[p].from /\ job'[p].to = job[p].to
        /\ job'[p].back = job[p].back
        /\ \A q \in Worker : q # p => job'[q] = job[q]
    BY <1>3, GoesOn DEF TokenInv, StructInv, Pcs
  <2>2. /\ Old(p) \in held /\ Old(p) \in Token /\ New(p) \in Token
        /\ New(p) \notin held /\ New(p) # Old(p) /\ owner[Old(p)] \in Session
        /\ owner[New(p)] = owner[Old(p)] /\ Memory
    BY <1>1, ReplaceFacts DEF TokenInv
  <2>3. {job[p].from, job[p].to} = {Old(p), New(p)}
    BY DEF Old, New
  <2>4. TypeOK'
    BY <1>1, <1>3, <2>1, <2>2, <2>3 DEF TokenInv, StructInv, TypeOK
  <2>5. StructInv'
    <3>1. Replacing(p)' /\ Old(p)' = Old(p) /\ New(p)' = New(p)
      BY <2>1 DEF Replacing, Old, New
    <3>. QED
      BY <1>1, <1>3, <2>1, <2>2, <2>3, <2>4, <3>1, ReplaceStruct DEF TokenInv
  <2>6. ASSUME Reliable' PROVE SafeInv'
    <3>1. SafeInv /\ MemoryInv
      BY <1>1, <2>2, <2>6 DEF TokenInv, SafeInv, Reliable, Memory, MayFail
    <3>2. ActiveInv' /\ RotateInv'
      BY <1>1, <1>3, <2>1, <3>1 DEF SafeInv, ActiveInv, RotateInv, Sig
    <3>3. CASE job[p].back
      <4>1. /\ job[p].to = Old(p) /\ job[p].from = New(p)
            /\ Sig(Old(p)) = Old(p) /\ sess[owner[Old(p)]].revoked
        BY <1>1, <3>1, <3>3 DEF MemoryInv, Old, New
      <4>2. \A q \in Worker : Filling(q)' <=> Filling(q)
        BY <1>1, <2>1, <3>3 DEF Filling
      <4>3. \A q \in Worker :
              (Replacing(q)' <=> Replacing(q)) /\ Old(q)' = Old(q)
        BY <1>1, <2>1 DEF Replacing, Old
      <4>4. MemoryInv'
        BY <1>1, <1>3, <2>1, <2>2, <3>1, <4>1, <4>2, <4>3 DEF MemoryInv, Sig
      <4>. QED BY <1>1, <2>2, <3>2, <4>4 DEF SafeInv, Memory
    <3>4. CASE ~job[p].back
      <4>1. /\ job[p].from = Old(p) /\ job[p].to = New(p)
            /\ Sig(Old(p)) = Old(p)
        BY <1>3, <2>2, <3>1, <3>4 DEF MemoryInv, Old, New
      <4>2. \A q \in Worker : Filling(q)' => q = p \/ Filling(q)
        BY <2>1 DEF Filling
      <4>3. \A q \in Worker :
              (Replacing(q)' <=> Replacing(q)) /\ Old(q)' = Old(q)
        BY <1>1, <2>1 DEF Replacing, Old
      <4>4. index' \cap held = (index \cap held) \ {Old(p)}
        BY <1>3, <2>2, <4>1
      <4>5. \A q \in Worker : Filling(q) =>
              \/ owner[job[q].from] # owner[Old(p)]
              \/ sess[owner[Old(p)]].revoked
        BY <1>3, <2>2, <3>1, <4>1 DEF MemoryInv
      <4>6. \A t \in index' \cap held : owner[t] # owner[Old(p)]
        BY <3>1, <4>1, <4>4 DEF MemoryInv, Sig
      <4>7. MemoryInv'
        BY <1>1, <2>1, <2>2, <3>1, <4>1, <4>2, <4>3, <4>4, <4>5, <4>6
           DEF MemoryInv, Sig
      <4>. QED BY <1>1, <2>2, <3>2, <4>7 DEF SafeInv, Memory
    <3>. QED BY <3>3, <3>4
  <2>. QED BY <2>5, <2>6 DEF TokenInv
<1>. QED BY <1>2, <1>3 DEF Swap

LEMMA StoreToken ==
  ASSUME TokenInv, NEW p \in Worker, Store(p)
  PROVE  TokenInv'
<1>1. /\ Replacing(p) /\ job[p].pc = "store" /\ cache' = cache \cup {job[p].to}
      /\ UNCHANGED <<backend, index, known, owner, sess, held>>
  BY DEF Store, At, Replacing
<1>2. /\ job' \in [Worker -> Job] /\ job'[p].pc = "drop"
      /\ job'[p].from = job[p].from /\ job'[p].to = job[p].to
      /\ job'[p].back = job[p].back
      /\ \A q \in Worker : q # p => job'[q] = job[q]
  BY GoesOn DEF Store, TokenInv, StructInv, Pcs
<1>3. /\ Old(p) \in held /\ Old(p) \in Token /\ New(p) \in Token
      /\ New(p) \notin held /\ New(p) # Old(p) /\ owner[Old(p)] \in Session
      /\ owner[New(p)] = owner[Old(p)] /\ Memory
  BY <1>1, ReplaceFacts DEF TokenInv
<1>4. {job[p].from, job[p].to} = {Old(p), New(p)}
  BY DEF Old, New
<1>5. TypeOK'
  BY <1>1, <1>2, <1>3, <1>4 DEF TokenInv, StructInv, TypeOK
<1>6. StructInv'
  <2>1. Replacing(p)' /\ Old(p)' = Old(p) /\ New(p)' = New(p)
    BY <1>2 DEF Replacing, Old, New
  <2>. QED
    BY <1>1, <1>2, <1>3, <1>4, <1>5, <2>1, ReplaceStruct DEF TokenInv
<1>7. ASSUME Reliable' PROVE SafeInv'
  <2>1. SafeInv /\ MemoryInv
    BY <1>1, <1>3, <1>7 DEF TokenInv, SafeInv, Reliable, Memory, MayFail
  <2>2. IF job[p].back THEN /\ job[p].to = Old(p) /\ Sig(Old(p)) = Old(p)
                            /\ sess[owner[Old(p)]].revoked
                       ELSE job[p].to \notin held
    BY <1>1, <1>3, <2>1 DEF MemoryInv, Old, New
  <2>3. ActiveInv'
    BY <1>1, <2>1, <2>2 DEF SafeInv, ActiveInv, Sig
  <2>4. RotateInv'
    <3>1. ASSUME NEW q \in Worker, job'[q].pc = "rotate"
          PROVE  /\ job[q].pc = "rotate" /\ job'[q] = job[q]
                 /\ job[q].from \in held
      <4>1. q # p /\ job'[q] = job[q] /\ job[q].pc = "rotate" /\ Replacing(q)
        BY <1>2, <3>1 DEF Replacing
      <4>. QED BY <4>1, ReplaceFacts DEF Old, TokenInv
    <3>. QED BY <1>1, <2>1, <2>2, <3>1 DEF SafeInv, RotateInv
  <2>5. MemoryInv'
    <3>1. \A q \in Worker :
            /\ Filling(q)' <=> Filling(q)
            /\ Replacing(q)' <=> Replacing(q)
            /\ Old(q)' = Old(q) /\ job'[q].from = job[q].from
            /\ job'[q].back = job[q].back
      BY <1>1, <1>2 DEF Filling, Replacing, Old
    <3>. QED BY <1>1, <2>1, <3>1 DEF MemoryInv, Sig
  <2>. QED BY <1>1, <1>3, <2>3, <2>4, <2>5 DEF SafeInv, Memory
<1>. QED BY <1>6, <1>7 DEF TokenInv

LEMMA DropToken ==
  ASSUME TokenInv, NEW p \in Worker, Drop(p)
  PROVE  TokenInv'
<1>1. /\ Replacing(p) /\ job[p].pc = "drop" /\ cache' = cache \ {job[p].from}
      /\ index' \subseteq index
      /\ UNCHANGED <<backend, known, owner, sess, held>>
  BY DEF Drop, At, Replacing, Evicted
<1>2. CASE job[p].back
  <2>1. job' = [job EXCEPT ![p] = IdleJob] /\ RowsStay
    BY <1>1, <1>2 DEF Drop, Replaced, Return, RowsStay
  <2>. QED
    BY <1>1, <2>1, IdleJobType, LeaveToken DEF TokenInv, StructInv, TypeOK
<1>3. CASE ~job[p].back
  <2>1. /\ job' \in [Worker -> Job] /\ job'[p].pc = "rotate"
        /\ job'[p].from = job[p].from /\ job'[p].to = job[p].to
        /\ job'[p].back = job[p].back
        /\ \A q \in Worker : q # p => job'[q] = job[q]
    BY <1>3, GoesOn DEF Drop, Replaced, TokenInv, StructInv, Pcs
  <2>2. TypeOK'
    BY <1>1, <2>1 DEF TokenInv, StructInv, TypeOK
  <2>3. StructInv'
    <3>1. Replacing(p)' /\ Old(p)' = Old(p) /\ New(p)' = New(p)
      BY <2>1 DEF Replacing, Old, New
    <3>. QED BY <1>1, <1>3, <2>1, <2>2, <3>1, ReplaceStruct DEF TokenInv
  <2>4. ASSUME Reliable' PROVE SafeInv'
    <3>1. Memory
      BY <1>1, ReplaceFacts DEF TokenInv
    <3>2. SafeInv /\ MemoryInv
      BY <1>1, <2>4, <3>1 DEF TokenInv, SafeInv, Reliable, Memory, MayFail
    <3>3. ActiveInv' /\ RotateInv'
      BY <1>1, <2>1, <3>2 DEF SafeInv, ActiveInv, RotateInv, Sig
    <3>4. MemoryInv'
      <4>1. \A q \in Worker :
              /\ Filling(q)' <=> Filling(q)
              /\ Replacing(q)' <=> Replacing(q)
              /\ Old(q)' = Old(q) /\ job'[q].from = job[q].from
              /\ job'[q].back = job[q].back
        BY <1>1, <2>1 DEF Filling, Replacing, Old
      <4>. QED BY <1>1, <3>2, <4>1 DEF MemoryInv, Sig
    <3>. QED BY <1>1, <3>1, <3>3, <3>4 DEF SafeInv, Memory
  <2>. QED BY <2>3, <2>4 DEF TokenInv
<1>. QED BY <1>2, <1>3

LEMMA ScriptToken ==
  ASSUME TokenInv, NEW p \in Worker, ReplaceScript(p)
  PROVE  TokenInv'
<1>1. /\ Replacing(p) /\ job[p].pc = "check" /\ ~Memory
      /\ UNCHANGED <<backend, known, owner, sess, held>>
  BY DEF ReplaceScript, At, Replacing
<1>2. CASE ReplaceFails(p)
  BY <1>1, <1>2, FailsToken
<1>3. CASE /\ job[p].from \in cache
           /\ cache' = (cache \ {job[p].from}) \cup {job[p].to}
           /\ Replaced(p) /\ UNCHANGED index
  <2>1. /\ Old(p) \in held /\ Old(p) \in Token /\ New(p) \in Token
        /\ New(p) \notin held /\ New(p) # Old(p) /\ owner[Old(p)] \in Session
        /\ owner[New(p)] = owner[Old(p)]
    BY <1>1, ReplaceFacts DEF TokenInv
  <2>2. {job[p].from, job[p].to} = {Old(p), New(p)}
    BY DEF Old, New
  <2>3. /\ job' \in [Worker -> Job]
        /\ \A q \in Worker : q # p => job'[q] = job[q]
        /\ IF job[p].back THEN job'[p].pc = "idle"
           ELSE /\ job'[p].pc = "rotate" /\ ~job'[p].back
                /\ job'[p].from = job[p].from /\ job'[p].to = job[p].to
    BY <1>3, GoesOn, IdleJobType, JobMoves
       DEF Replaced, Return, TokenInv, StructInv, Pcs
  <2>4. TypeOK'
    BY <1>1, <1>3, <2>1, <2>2, <2>3 DEF TokenInv, StructInv, TypeOK
  <2>5. StructInv'
    <3>1. ~job[p].back => Replacing(p)' /\ Old(p)' = Old(p) /\ New(p)' = New(p)
      BY <2>3 DEF Replacing, Old, New
    <3>. QED
      BY <1>1, <1>3, <2>1, <2>2, <2>3, <2>4, <3>1, ReplaceStruct DEF TokenInv
  <2>6. ASSUME Reliable' PROVE SafeInv'
    <3>1. SafeInv /\ RedisInv
      BY <1>1, <2>6 DEF TokenInv, SafeInv, Reliable, Memory, MayFail
    <3>2. \A t, u \in cache' : owner[t] = owner[u] => t = u
      BY <1>3, <2>1, <2>2, <3>1 DEF RedisInv, Old, New
    <3>3. ASSUME NEW q \in Worker, q # p, Owing(q)'
          PROVE  /\ Owing(q) /\ Replacing(q) /\ job'[q] = job[q]
                 /\ Old(q)' = Old(q) /\ New(q)' = New(q)
                 /\ Old(q) \in held /\ New(q) \notin held /\ New(q) # New(p)
      <4>1. job'[q] = job[q]
        BY <2>3, <3>3
      <4>2. Owing(q) /\ Replacing(q) /\ Old(q)' = Old(q) /\ New(q)' = New(q)
        BY <3>3, <4>1 DEF Owing, Replacing, Old, New
      <4>. QED
        BY <1>1, <3>3, <4>1, <4>2, ReplaceFacts
           DEF TokenInv, StructInv, ReplaceInv
    <3>4. CASE job[p].back
      <4>1. /\ job[p].to = Old(p) /\ job[p].from = New(p) /\ Owing(p)
            /\ Sig(Old(p)) = Old(p)
        BY <1>1, <1>3, <3>1, <3>4 DEF RedisInv, Old, New, Owing
      <4>2. ActiveInv'
        BY <1>1, <1>3, <3>1, <4>1 DEF SafeInv, ActiveInv, Sig
      <4>3. \A q \in Worker : Owing(q)' => q # p
        BY <2>3, <3>4 DEF Owing, Replacing
      <4>4. ASSUME NEW q \in Worker, Owing(q)'
            PROVE  /\ Old(q) \notin cache'
                   /\ New(q) \in cache' => Sig(Old(q)) = Old(q)
        <5>1. Old(q) # Old(p) /\ New(q) # Old(p)
          BY <2>1, <3>1, <3>3, <4>1, <4>3, <4>4 DEF RedisInv
        <5>. QED BY <1>3, <3>1, <3>3, <4>1, <4>3, <4>4, <5>1 DEF RedisInv
      <4>5. RedisInv'
        BY <1>1, <3>1, <3>2, <3>3, <4>3, <4>4 DEF RedisInv, Sig
      <4>6. RotateInv'
        <5>1. \A q \in Worker : job'[q].pc = "rotate" =>
                Owing(q)' /\ job'[q].from = Old(q)'
          BY <2>5 DEF StructInv, ReplaceInv, Owing, Replacing, Old
        <5>. QED BY <4>5, <5>1 DEF RotateInv, RedisInv
      <4>. QED BY <1>1, <4>2, <4>5, <4>6 DEF SafeInv, Memory
    <3>5. CASE ~job[p].back
      <4>1. /\ job[p].from = Old(p) /\ job[p].to = New(p)
            /\ Old(p)' = Old(p) /\ New(p)' = New(p) /\ Old(p) \in cache
            /\ Sig(Old(p)) = Old(p)
        BY <1>3, <2>1, <2>3, <3>1, <3>5 DEF SafeInv, ActiveInv, Old, New
      <4>2. ActiveInv'
        BY <1>1, <1>3, <2>1, <3>1, <4>1 DEF SafeInv, ActiveInv, Sig
      <4>3. ASSUME NEW q \in Worker, q # p, Owing(q)'
            PROVE  /\ Old(q) \notin cache' /\ Old(q) # Old(p)
                   /\ New(q) \in cache' => Sig(Old(q)) = Old(q)
        BY <1>3, <2>1, <3>1, <3>3, <4>1, <4>3 DEF RedisInv
      <4>4. Old(p) \notin cache'
        BY <1>3, <2>1, <4>1
      <4>5. RedisInv'
        <5>1. ASSUME NEW q \in Worker, Owing(q)'
              PROVE  /\ Old(q)' = Old(q) /\ New(q)' = New(q)
                     /\ Old(q) \notin cache'
                     /\ New(q) \in cache' => Sig(Old(q)) = Old(q)
                     /\ Old(q) = Old(p) => q = p
          BY <3>3, <4>1, <4>3, <4>4, <5>1
        <5>2. ASSUME NEW q \in Worker, NEW r \in Worker, Owing(q)', Owing(r)',
                     Old(q)' = Old(r)'
              PROVE  q = r
          <6>1. CASE q = p \/ r = p
            BY <5>1, <5>2, <6>1
          <6>2. CASE q # p /\ r # p
            BY <3>1, <3>3, <5>1, <5>2, <6>2 DEF RedisInv
          <6>. QED BY <6>1, <6>2
        <5>. QED BY <1>1, <3>2, <5>1, <5>2 DEF RedisInv, Sig
      <4>6. RotateInv'
        <5>1. \A q \in Worker : job'[q].pc = "rotate" =>
                Owing(q)' /\ job'[q].from = Old(q)'
          BY <2>5 DEF StructInv, ReplaceInv, Owing, Replacing, Old
        <5>. QED BY <4>5, <5>1 DEF RotateInv, RedisInv
      <4>. QED BY <1>1, <4>2, <4>5, <4>6 DEF SafeInv, Memory
    <3>. QED BY <3>4, <3>5
  <2>. QED BY <2>5, <2>6 DEF TokenInv
<1>. QED BY <1>2, <1>3 DEF ReplaceScript

LEMMA RefusedToken ==
  ASSUME TokenInv, NEW p \in Worker, RotateRefused(p)
  PROVE  TokenInv'
<1> DEFINE j == [job[p] EXCEPT !.pc = "check", !.from = job[p].to,
                               !.to = job[p].from, !.back = TRUE]
<1>1. /\ Replacing(p) /\ job[p].pc = "rotate" /\ ~job[p].back
      /\ UNCHANGED <<backend, cache, index, known, owner, sess, held>>
  BY ReplaceFacts DEF RotateRefused, At, Replacing, TokenInv
<1>2. /\ j \in Job /\ j.pc = "check" /\ j.from = job[p].to
      /\ j.to = job[p].from /\ j.back
  BY DEF TokenInv, StructInv, TypeOK, Job, Pcs
<1>3. job' = [job EXCEPT ![p] = j]
  BY DEF RotateRefused
<1>. HIDE DEF j
<1>4. /\ job' \in [Worker -> Job] /\ job'[p] = j
      /\ \A q \in Worker : q # p => job'[q] = job[q]
  BY <1>2, <1>3, JobMoves DEF TokenInv, StructInv
<1>5. /\ Replacing(p)' /\ Old(p)' = Old(p) /\ New(p)' = New(p)
      /\ Old(p) = job[p].from
  BY <1>1, <1>2, <1>4 DEF Replacing, Old, New
<1>6. TypeOK'
  BY <1>1, <1>4 DEF TokenInv, StructInv, TypeOK
<1>7. StructInv'
  BY <1>1, <1>2, <1>4, <1>5, <1>6, ReplaceStruct DEF TokenInv
<1>8. ASSUME Reliable' PROVE SafeInv'
  <2>1. SafeInv /\ Memory' = Memory
    BY <1>1, <1>8 DEF TokenInv, Reliable, Memory, MayFail
  <2>2. ActiveInv' /\ RotateInv'
    BY <1>1, <1>2, <1>4, <2>1 DEF SafeInv, ActiveInv, RotateInv, Sig
  <2>3. \A q \in Worker :
          /\ Old(q)' = Old(q) /\ New(q)' = New(q)
          /\ Replacing(q)' <=> Replacing(q)
          /\ Owing(q)' <=> Owing(q)
          /\ Filling(q)' => Filling(q) /\ job'[q] = job[q]
    BY <1>1, <1>2, <1>4, <1>5 DEF Replacing, Owing, Filling, Old, New
  <2>4. ASSUME Memory PROVE MemoryInv'
    <3>1. Sig(Old(p)) = Old(p) /\ owner[Old(p)] \in Session
      BY <1>1, <1>5, <2>1, <2>4, ReplaceFacts
         DEF SafeInv, MemoryInv, Filling, TokenInv
    <3>2. sess[owner[Old(p)]] # [sig |-> Old(p), revoked |-> FALSE]
      BY <1>1, <1>5, <1>8, <2>4
         DEF RotateRefused, Reliable, Memory, MayFail
    <3>3. sess[owner[Old(p)]].revoked
      BY <3>1, <3>2 DEF Sig, TokenInv, StructInv, TypeOK, SessionRow
    <3>4. \A q \in Worker : Replacing(q)' /\ job'[q].back =>
            Sig(Old(q)) = Old(q) /\ sess[owner[Old(q)]].revoked
      BY <1>4, <2>1, <2>3, <2>4, <3>1, <3>3 DEF SafeInv, MemoryInv
    <3>. QED
      BY <1>1, <2>1, <2>3, <2>4, <3>4 DEF SafeInv, MemoryInv, Sig
  <2>5. ASSUME ~Memory PROVE RedisInv'
    BY <1>1, <2>1, <2>3, <2>5 DEF SafeInv, RedisInv, Sig
  <2>. QED BY <2>1, <2>2, <2>4, <2>5 DEF SafeInv
<1>. QED BY <1>7, <1>8 DEF TokenInv

LEMMA NextToken == TokenInv /\ [Next]_vars => TokenInv'
<1> SUFFICES ASSUME TokenInv, [Next]_vars PROVE TokenInv'
  OBVIOUS
<1>1. ASSUME NEW p \in Worker, NEW t \in Token,
             \/ \E s \in Session : Login(p, s, t)
             \/ \E n \in Token : Refresh(p, t, n)
             \/ Logout(p, t) \/ DelUserToken(p, t)
      PROVE  TokenInv'
  BY <1>1, LoginToken, RefreshToken, LogoutToken, EvictToken
<1>2. ASSUME NEW p \in Worker,
             \/ CreateSession(p) \/ CreateSessionFails(p)
             \/ Check(p) \/ Swap(p) \/ Store(p) \/ Drop(p) \/ ReplaceScript(p)
      PROVE  TokenInv'
  BY <1>2, CreateToken, CreateFailsToken, CheckToken, SwapToken, StoreToken,
     DropToken, ScriptToken
<1>3. ASSUME NEW p \in Worker,
             \/ Rotate(p) \/ RotateRefused(p)
             \/ Del(p) \/ DelCache(p) \/ DelByUserID(p) \/ DelUserReturns(p)
      PROVE  TokenInv'
  BY <1>3, RotateToken, RefusedToken, DelToken, EvictToken
<1>4. ASSUME NEW S, Revoke(S) PROVE TokenInv'
  BY <1>4, RevokeToken
<1>5. CASE Restart
  BY <1>5, RestartToken
<1>6. CASE UNCHANGED vars
  <2>1. TypeOK' /\ RowsStay /\ Turns
    BY <1>6 DEF vars, TokenInv, StructInv, TypeOK, RowsStay, Turns
  <2>2. StructInv'
    BY <1>6, <2>1, QuietStruct DEF vars, TokenInv, StructInv, CacheInv
  <2>3. ASSUME Reliable' PROVE SafeInv'
    BY <1>6, <2>1, <2>3, ShrinkSafe
       DEF vars, TokenInv, Reliable, Memory, MayFail
  <2>. QED BY <2>2, <2>3 DEF TokenInv
<1>. QED BY <1>1, <1>2, <1>3, <1>4, <1>5, <1>6 DEF Next

----------------------------------------------------------------------------
(* Theorems about tokens and sessions.                                     *)

\* The invariant the theorems below rest on.
THEOREM TokenInvariant == Spec => []TokenInv
BY InitToken, NextToken, PTL DEF Spec

\* Every variable keeps its type, the goroutines' tokens included.
THEOREM TokenTypeCorrect == Spec => []TypeOK
<1>1. TokenInv => TypeOK
  BY DEF TokenInv, StructInv
<1>. QED BY <1>1, TokenInvariant, PTL

\* user.go, RefreshToken: of one session at most one token is accepted,
\* whether or not the table of sessions can be read.
THEOREM OneTokenActive == Spec => [](Reliable => OneActiveToken)
<1>1. TokenInv => (Reliable => OneActiveToken)
  BY DEF TokenInv, SafeInv, ActiveInv, OneActiveToken, Usable, Sig
<1>. QED BY <1>1, TokenInvariant, PTL

\* session.go, Revoke: no request that can read the table of sessions is let
\* in with a token of a revoked one.
THEOREM RevokedAreShutOut == Spec => [](Reliable => RevokedShutsOut)
<1>1. TokenInv => (Reliable => RevokedShutsOut)
  <2> SUFFICES ASSUME TokenInv, Reliable, NEW t \in held, t \in cache,
                      ~IsRevoked(t, TRUE)
               PROVE  ~sess[owner[t]].revoked
    BY DEF RevokedShutsOut, Usable
  <2>1. owner[t] \in Session /\ sess[owner[t]].sig = t
    BY DEF TokenInv, StructInv, HeldInv, SafeInv, ActiveInv, Sig
  <2>. QED BY <2>1 DEF IsRevoked
<1>. QED BY <1>1, TokenInvariant, PTL

----------------------------------------------------------------------------
(* Logins.                                                                 *)

\* The goroutines that compare a password and will not lock the account if it is
\* wrong.
Low == {p \in Comparing : attempt[p].err + 1 < MaxErr}

Others == Cardinality(Proc) - 1

\* Below the limit every wrong password is in the counter, but for UPDATEs that
\* failed.
CountedInv == account.err < MaxErr => guesses <= account.err + lost

\* At the limit but not locked, those who read the row before may still fail
\* once without a lock.
NearInv ==
  account.err + 1 >= MaxErr /\ ~account.locked =>
    guesses + Cardinality(Low) <= MaxErr - 1 + lost + Others

\* Once locked, those who compare may still fail once.
LockedInv ==
  account.locked =>
    guesses + Cardinality(Comparing) <= MaxErr + lost + 2 * Others

\* A challenge was issued before it is taken, and whoever compares its code was
\* there before it was deleted.
ChallengeInv ==
  /\ \A p \in Proc : attempt[p].pc = "challenge" => attempt[p].c \in 1 .. issued
  /\ \A c \in Challenge :
       /\ c \in challenges => verified[c] = 0
       /\ verified[c] + Cardinality(Taking(c)) <= Cardinality(Proc)

LoginInv ==
  LoginTypeOK /\ CountedInv /\ NearInv /\ LockedInv /\ ChallengeInv

\* Passwords that are not compared at the same time: who compares one has read the
\* counter as it is, or is the first of the new count; the counter has all wrong
\* ones that were written, and without a lock there are fewer than the limit.
AloneInv ==
  ~overlapped =>
    /\ \A p, q \in Comparing : p = q
    /\ \A p \in Comparing : /\ ~account.locked
                            /\ attempt[p].err = account.err \/ guesses = 0
    /\ guesses <= account.err + lost
    /\ ~account.locked => guesses < MaxErr + lost

\* A challenge that is not shared: who has taken it compares its first code, and
\* has deleted it afterwards.
SingleInv ==
  \A c \in Challenge \ shared :
    /\ \A p, q \in Taking(c) : p = q
    /\ Taking(c) # {} => verified[c] = 0
    /\ verified[c] <= 1

LoginIInv == LoginInv /\ AloneInv /\ SingleInv

\* The numbers of goroutines and of attempts.
LEMMA ProcFacts ==
  /\ IsFiniteSet(Proc) /\ Cardinality(Proc) \in Nat /\ Others \in Nat
  /\ Cardinality(Proc) = Others + 1
  /\ MaxErr \in Nat \ {0} /\ MaxChallenge \in Nat /\ MaxLost \in Nat
<1>1. IsFiniteSet(Proc) /\ Proc # {}
  BY LoginAssumption
<1>2. Cardinality(Proc) \in Nat /\ Cardinality(Proc) # 0
  BY <1>1, FS_CardinalityType, FS_EmptySet
<1>. QED BY <1>1, <1>2, LoginAssumption DEF Others

\* Sets of goroutines, with and without one of them.
LEMMA Counts ==
  ASSUME NEW S \in SUBSET Proc
  PROVE  /\ Cardinality(S) \in Nat
         /\ Cardinality(S) <= Cardinality(Proc)
         /\ \A p \in S : Cardinality(S \ {p}) = Cardinality(S) - 1
         /\ \A p \in Proc : Cardinality(S \cup {p}) <= Cardinality(S) + 1
         /\ \A p \in Proc : Cardinality(S \ {p}) <= Others
         /\ \A T \in SUBSET S : Cardinality(T) <= Cardinality(S)
<1>1. IsFiniteSet(S)
  BY ProcFacts, FS_Subset
<1>2. Cardinality(S) \in Nat
  BY <1>1, FS_CardinalityType
<1>3. Cardinality(S) <= Cardinality(Proc)
  BY ProcFacts, FS_Subset
<1>4. \A p \in S : Cardinality(S \ {p}) = Cardinality(S) - 1
  BY <1>1, FS_RemoveElement
<1>5. \A p \in Proc : Cardinality(S \cup {p}) <= Cardinality(S) + 1
  BY <1>1, <1>2, FS_AddElement
<1>6. ASSUME NEW p \in Proc PROVE Cardinality(S \ {p}) <= Others
  <2>1. Cardinality(Proc \ {p}) = Cardinality(Proc) - 1
    BY ProcFacts, FS_RemoveElement
  <2>2. IsFiniteSet(Proc \ {p}) /\ S \ {p} \subseteq Proc \ {p}
    BY ProcFacts, FS_RemoveElement
  <2>3. Cardinality(S \ {p}) <= Cardinality(Proc \ {p})
    BY <2>2, FS_Subset
  <2>. QED BY <2>1, <2>3, ProcFacts
<1>7. \A T \in SUBSET S : Cardinality(T) <= Cardinality(S)
  BY <1>1, FS_Subset
<1>. QED BY <1>2, <1>3, <1>4, <1>5, <1>6, <1>7

LEMMA CountTypes ==
  /\ Cardinality(Low) \in Nat /\ Cardinality(Comparing) \in Nat
  /\ \A c \in Challenge : Cardinality(Taking(c)) \in Nat
BY Counts DEF Low, Comparing, Taking

LEMMA NoAttemptType == NoAttempt \in Attempt /\ NoAttempt.pc = "idle"
<1>1. 0 \in 0 .. MaxErr
  BY ProcFacts
<1>. QED BY <1>1 DEF NoAttempt, Attempt

\* The counter and the lock are written together.
LEMMA RowWrite ==
  ASSUME LoginTypeOK, NEW e \in 0 .. MaxErr, NEW l \in BOOLEAN,
         account' = [account EXCEPT !.err = e, !.locked = l]
  PROVE  /\ account' \in [err: 0 .. MaxErr, locked: BOOLEAN, enable: BOOLEAN]
         /\ account'.err = e /\ (account'.locked <=> l)
BY DEF LoginTypeOK

\* A success, a new password.
LEMMA RowCleared ==
  ASSUME LoginTypeOK, account' = [account EXCEPT !.err = 0, !.locked = FALSE]
  PROVE  /\ account' \in [err: 0 .. MaxErr, locked: BOOLEAN, enable: BOOLEAN]
         /\ account'.err = 0 /\ ~account'.locked
<1>1. 0 \in 0 .. MaxErr /\ FALSE \in BOOLEAN
  BY ProcFacts
<1>. QED BY <1>1, RowWrite

LEMMA InitLogin == LoginInit => LoginInv
<1> SUFFICES ASSUME LoginInit PROVE LoginInv
  OBVIOUS
<1>1. LoginTypeOK
  <2>1. account \in [err: 0 .. MaxErr, locked: BOOLEAN, enable: BOOLEAN]
    <3>1. 0 \in 0 .. MaxErr
      BY ProcFacts
    <3>2. PICK b \in BOOLEAN :
            account = [err |-> 0, locked |-> FALSE, enable |-> b]
      BY DEF LoginInit
    <3>. QED BY <3>1, <3>2
  <2>2. attempt \in [Proc -> Attempt]
    BY NoAttemptType DEF LoginInit
  <2>3. verified \in [Challenge -> Nat] /\ \A c \in Challenge : verified[c] = 0
    BY DEF LoginInit
  <2>4. 0 \in 0 .. MaxChallenge /\ 0 \in 0 .. MaxLost
    BY ProcFacts
  <2>5. ~account.locked
    BY DEF LoginInit
  <2>. QED BY <2>1, <2>2, <2>3, <2>4, <2>5 DEF LoginInit, LoginTypeOK
<1>2. Low = {} /\ \A c : Taking(c) = {}
  BY DEF LoginInit, Low, Comparing, Taking, NoAttempt
<1>3. Cardinality({}) = 0
  BY FS_EmptySet
<1>4. CountedInv /\ NearInv /\ LockedInv
  <2>1. account.err = 0 /\ ~account.locked /\ guesses = 0 /\ lost = 0
    BY DEF LoginInit
  <2>. QED
    BY <1>2, <1>3, <2>1, ProcFacts DEF CountedInv, NearInv, LockedInv
<1>5. ChallengeInv
  <2>1. \A p \in Proc : attempt[p].pc = "idle"
    BY NoAttemptType DEF LoginInit
  <2>2. challenges = {} /\ \A c \in Challenge : verified[c] = 0
    BY DEF LoginInit
  <2>. QED BY <1>2, <1>3, <2>1, <2>2, ProcFacts DEF ChallengeInv
<1>. QED BY <1>1, <1>4, <1>5 DEF LoginInv

\* A goroutine turns to something else.
LEMMA AttemptMoves ==
  ASSUME LoginTypeOK, NEW p \in Proc, NEW j \in Attempt,
         attempt' = [attempt EXCEPT ![p] = j]
  PROVE  /\ attempt' \in [Proc -> Attempt]
         /\ j.pc # "compare" => /\ Low' = Low \ {p}
                                /\ Comparing' = Comparing \ {p}
         /\ j.pc = "compare" /\ j.err + 1 >= MaxErr => Low' = Low \ {p}
         /\ \A c : Taking(c)' = IF j.pc = "challenge" /\ j.c = c
                                THEN Taking(c) \cup {p} ELSE Taking(c) \ {p}
<1>1. /\ attempt' \in [Proc -> Attempt]
      /\ attempt'[p] = j
      /\ \A q \in Proc : q # p => attempt'[q] = attempt[q]
  BY DEF LoginTypeOK
<1>2. j.pc # "compare" => Comparing' = Comparing \ {p}
  BY <1>1 DEF Comparing
<1>3. j.pc # "compare" => Low' = Low \ {p}
  BY <1>1 DEF Low, Comparing
<1>4. j.pc = "compare" /\ j.err + 1 >= MaxErr => Low' = Low \ {p}
  <2>1. j.err \in Nat /\ MaxErr \in Nat
    BY ProcFacts DEF Attempt
  <2>. QED BY <1>1, <2>1 DEF Low, Comparing
<1>5. \A c : Taking(c)' = IF j.pc = "challenge" /\ j.c = c
                         THEN Taking(c) \cup {p} ELSE Taking(c) \ {p}
  BY <1>1 DEF Taking
<1>. QED BY <1>1, <1>2, <1>3, <1>4, <1>5

\* A challenge stays in order when nobody takes one and no code is compared.
LEMMA ChallengeKept ==
  ASSUME LoginInv, LoginTypeOK', verified' = verified, issued <= issued',
         \A c \in challenges' : c \in challenges \/ c > issued,
         \A p \in Proc :
           attempt'[p].pc = "challenge" => attempt'[p] = attempt[p]
  PROVE  ChallengeInv'
<1>1. ASSUME NEW p \in Proc, attempt'[p].pc = "challenge"
      PROVE  attempt'[p].c \in 1 .. issued'
  BY <1>1 DEF LoginInv, LoginTypeOK, ChallengeInv
<1>2. ASSUME NEW c \in Challenge, c \in challenges' PROVE verified'[c] = 0
  BY <1>2 DEF LoginInv, LoginTypeOK, ChallengeInv
<1>3. ASSUME NEW c \in Challenge
      PROVE  verified'[c] + Cardinality(Taking(c)') <= Cardinality(Proc)
  <2>1. Taking(c)' \subseteq Taking(c) /\ Taking(c) \subseteq Proc
    BY DEF Taking
  <2>2. Cardinality(Taking(c)') \in Nat /\ Cardinality(Taking(c)) \in Nat
    BY <2>1, Counts
  <2>3. Cardinality(Taking(c)') <= Cardinality(Taking(c))
    BY <2>1, Counts
  <2>4. verified[c] \in Nat
    BY DEF LoginInv, LoginTypeOK
  <2>. QED BY <2>2, <2>3, <2>4, ProcFacts DEF LoginInv, ChallengeInv
<1>. QED BY <1>1, <1>2, <1>3 DEF ChallengeInv

\* The counter stays in order when the row and the counts do, and nobody but
\* those who may starts to compare.
LEMMA CountersKept ==
  ASSUME LoginInv, LoginTypeOK', guesses' = guesses, lost' = lost,
         account'.err = account.err, account'.locked = account.locked,
         account.err + 1 >= MaxErr => Low' \subseteq Low,
         account.locked => Comparing' \subseteq Comparing
  PROVE  CountedInv' /\ NearInv' /\ LockedInv'
<1>1. account.err \in Nat /\ guesses \in Nat /\ lost \in Nat
  BY DEF LoginInv, LoginTypeOK
<1>2. Low \in SUBSET Proc /\ Comparing \in SUBSET Proc
  BY DEF Low, Comparing
<1>3. Low' \in SUBSET Proc /\ Comparing' \in SUBSET Proc
  BY DEF Low, Comparing
<1>4. CountedInv'
  BY DEF LoginInv, CountedInv
<1>5. NearInv'
  <2> SUFFICES ASSUME account.err + 1 >= MaxErr, ~account.locked
               PROVE  guesses + Cardinality(Low') <= MaxErr - 1 + lost + Others
    BY DEF NearInv
  <2>1. Cardinality(Low') <= Cardinality(Low)
    BY <1>2, Counts
  <2>. QED BY <1>1, <1>2, <1>3, <2>1, Counts, ProcFacts DEF LoginInv, NearInv
<1>6. LockedInv'
  <2> SUFFICES ASSUME account.locked
               PROVE  guesses + Cardinality(Comparing') <=
                        MaxErr + lost + 2 * Others
    BY DEF LockedInv
  <2>1. Cardinality(Comparing') <= Cardinality(Comparing)
    BY <1>2, Counts
  <2>. QED BY <1>1, <1>2, <1>3, <2>1, Counts, ProcFacts DEF LoginInv, LockedInv
<1>. QED BY <1>4, <1>5, <1>6

LEMMA BeginLogin ==
  ASSUME LoginInv, NEW p \in Proc, Begin(p)
  PROVE  LoginInv'
<1>1. PICK j \in Attempt :
        /\ j.pc = "compare" /\ j.err = account.err
        /\ attempt' = [attempt EXCEPT ![p] = j]
  BY DEF Begin, Attempt, LoginInv, LoginTypeOK
<1>2. LoginTypeOK'
  BY <1>1, AttemptMoves DEF Begin, LoginInv, LoginTypeOK
<1>3. account.err + 1 >= MaxErr => Low' \subseteq Low
  BY <1>1, AttemptMoves DEF LoginInv
<1>4. CountedInv' /\ NearInv' /\ LockedInv'
  BY <1>2, <1>3, CountersKept DEF Begin
<1>5. \A q \in Proc : attempt'[q].pc = "challenge" => attempt'[q] = attempt[q]
  BY <1>1 DEF LoginInv, LoginTypeOK
<1>6. ChallengeInv'
  BY <1>2, <1>5, ChallengeKept DEF Begin, LoginInv, LoginTypeOK
<1>. QED BY <1>2, <1>4, <1>6 DEF LoginInv

\* An answer after the password, with or without a challenge.
LEMMA AnswerLogin ==
  ASSUME LoginInv, NEW p \in Proc,
         ClearFails(p) \/ IssueMFAChallenge(p) \/ Answer(p)
  PROVE  LoginInv'
<1>1. PICK j \in Attempt :
        /\ j.pc \notin {"compare", "challenge"}
        /\ attempt' = [attempt EXCEPT ![p] = j]
  <2>1. CASE ClearFails(p)
    BY <2>1 DEF ClearFails, Attempt, LoginInv, LoginTypeOK
  <2>2. CASE IssueMFAChallenge(p) \/ Answer(p)
    BY <2>2, NoAttemptType DEF IssueMFAChallenge, Answer
  <2>. QED BY <2>1, <2>2
<1>2. LoginTypeOK'
  <2>1. attempt' \in [Proc -> Attempt]
    BY <1>1, AttemptMoves DEF LoginInv
  <2>. QED
    BY <2>1, ProcFacts
       DEF ClearFails, IssueMFAChallenge, Answer, LoginInv, LoginTypeOK,
           Challenge
<1>3. Low' \subseteq Low /\ Comparing' \subseteq Comparing
  BY <1>1, AttemptMoves DEF LoginInv
<1>4. CountedInv' /\ NearInv' /\ LockedInv'
  BY <1>2, <1>3, CountersKept DEF ClearFails, IssueMFAChallenge, Answer
<1>5. \A q \in Proc : attempt'[q].pc = "challenge" => attempt'[q] = attempt[q]
  BY <1>1 DEF LoginInv, LoginTypeOK
<1>6. /\ verified' = verified /\ issued <= issued'
      /\ \A c \in challenges' : c \in challenges \/ c > issued
  BY DEF ClearFails, IssueMFAChallenge, Answer, LoginInv, LoginTypeOK
<1>7. ChallengeInv'
  BY <1>2, <1>5, <1>6, ChallengeKept
<1>. QED BY <1>2, <1>4, <1>7 DEF LoginInv

\* A wrong password: the counter and the guesses go up together, or the UPDATE
\* is lost.
LEMMA FailLogin ==
  ASSUME LoginInv, NEW p \in Proc, RecordLoginFailure(p) \/ RecordFails(p)
  PROVE  LoginInv'
<1>1. /\ Refused(p) /\ attempt[p].pc = "compare"
      /\ attempt' = [attempt EXCEPT ![p] = NoAttempt]
      /\ NoAttempt \in Attempt /\ NoAttempt.pc = "idle"
  BY NoAttemptType DEF RecordLoginFailure, RecordFails, Refused
<1>2. /\ account.err \in 0 .. MaxErr /\ account.locked \in BOOLEAN
      /\ account.locked => account.err > 0
  BY DEF LoginInv, LoginTypeOK
<1> DEFINE e == IF account.err < MaxErr THEN account.err + 1 ELSE account.err
           l == account.locked \/ attempt[p].err + 1 >= MaxErr
<1>3. e \in 0 .. MaxErr /\ e > 0 /\ l \in BOOLEAN
  BY <1>2, ProcFacts
<1>4. RecordLoginFailure(p) =>
        /\ account' \in [err: 0 .. MaxErr, locked: BOOLEAN, enable: BOOLEAN]
        /\ account'.err = e /\ (account'.locked <=> l)
  <2>1. RecordLoginFailure(p) =>
          account' = [account EXCEPT !.err = e, !.locked = l]
    BY DEF RecordLoginFailure
  <2>. QED BY <1>3, <2>1, RowWrite DEF LoginInv
<1>5. LoginTypeOK'
  <2>1. attempt' \in [Proc -> Attempt]
    BY <1>1, AttemptMoves DEF LoginInv
  <2>2. /\ account' \in [err: 0 .. MaxErr, locked: BOOLEAN, enable: BOOLEAN]
        /\ account'.locked => account'.err > 0
    BY <1>3, <1>4 DEF RecordFails, LoginInv, LoginTypeOK
  <2>3. guesses' \in Nat /\ lost' \in 0 .. MaxLost
    BY <1>1, ProcFacts
       DEF RecordLoginFailure, RecordFails, Refused, LoginInv, LoginTypeOK
  <2>. QED
    BY <1>1, <2>1, <2>2, <2>3 DEF Refused, LoginInv, LoginTypeOK
<1>6. ChallengeInv'
  <2>1. \A q \in Proc : attempt'[q].pc = "challenge" => attempt'[q] = attempt[q]
    BY <1>1 DEF LoginInv, LoginTypeOK
  <2>. QED
    BY <1>1, <1>5, <2>1, ChallengeKept DEF Refused, LoginInv, LoginTypeOK
<1>7. /\ Low' = Low \ {p} /\ Comparing' = Comparing \ {p}
      /\ Low \in SUBSET Proc /\ Comparing \in SUBSET Proc /\ p \in Comparing
  BY <1>1, AttemptMoves DEF LoginInv, Low, Comparing
<1>8. /\ Cardinality(Low') \in Nat /\ Cardinality(Comparing') \in Nat
      /\ Cardinality(Low) \in Nat /\ Cardinality(Comparing) \in Nat
      /\ Cardinality(Low') <= Others /\ Cardinality(Comparing') <= Others
      /\ Cardinality(Low') <= Cardinality(Low)
      /\ p \in Low => Cardinality(Low') = Cardinality(Low) - 1
      /\ Cardinality(Comparing') = Cardinality(Comparing) - 1
  <2>1. Low' \in SUBSET Low /\ Comparing' \in SUBSET Comparing
    BY <1>7
  <2>. QED BY <1>7, <2>1, Counts
<1>9. /\ account.err \in 0 .. MaxErr /\ account.locked \in BOOLEAN
      /\ guesses \in Nat /\ lost \in Nat /\ guesses' = guesses + 1
      /\ attempt[p].err \in 0 .. MaxErr
  BY <1>1 DEF Refused, LoginInv, LoginTypeOK, Attempt
<1>10. CASE RecordFails(p)
  <2>1. account' = account /\ lost' = lost + 1
    BY <1>10 DEF RecordFails
  <2>2. CountedInv'
    BY <1>9, <2>1, ProcFacts DEF LoginInv, CountedInv
  <2>3. NearInv'
    BY <1>8, <1>9, <2>1, ProcFacts DEF LoginInv, NearInv
  <2>4. LockedInv'
    BY <1>8, <1>9, <2>1, ProcFacts DEF LoginInv, LockedInv
  <2>. QED BY <1>5, <1>6, <2>2, <2>3, <2>4 DEF LoginInv
<1>11. CASE RecordLoginFailure(p)
  <2>1. /\ account'.err = IF account.err < MaxErr THEN account.err + 1
                                                 ELSE account.err
        /\ account'.locked <=> account.locked \/ attempt[p].err + 1 >= MaxErr
        /\ lost' = lost
    BY <1>11, <1>4 DEF RecordLoginFailure
  <2>2. p \in Low <=> attempt[p].err + 1 < MaxErr
    BY <1>7 DEF Low
  <2>3. CountedInv'
    BY <1>9, <2>1, ProcFacts DEF LoginInv, CountedInv
  <2>4. NearInv'
    <3> SUFFICES ASSUME account'.err + 1 >= MaxErr, ~account'.locked
                 PROVE  guesses' + Cardinality(Low') <=
                          MaxErr - 1 + lost + Others
      BY <2>1 DEF NearInv
    <3>1. ~account.locked /\ p \in Low
      <4>1. ~account.locked /\ ~(attempt[p].err + 1 >= MaxErr)
        BY <2>1
      <4>. QED BY <1>9, <2>2, <4>1, ProcFacts
    <3>2. CASE account.err + 1 >= MaxErr
      BY <1>8, <1>9, <3>1, <3>2, ProcFacts DEF LoginInv, NearInv
    <3>3. CASE account.err + 1 < MaxErr
      <4>1. account.err + 2 = MaxErr /\ guesses <= account.err + lost
        BY <1>9, <2>1, <3>3, ProcFacts DEF LoginInv, CountedInv
      <4>. QED BY <1>8, <1>9, <4>1, ProcFacts
    <3>. QED BY <1>9, <3>2, <3>3, ProcFacts
  <2>5. LockedInv'
    <3> SUFFICES guesses' + Cardinality(Comparing') <=
                   MaxErr + lost + 2 * Others
      BY <2>1 DEF LockedInv
    <3>1. CASE account.locked
      BY <1>8, <1>9, <3>1, ProcFacts DEF LoginInv, LockedInv
    <3>2. CASE ~account.locked /\ account.err + 1 >= MaxErr
      BY <1>8, <1>9, <3>2, ProcFacts DEF LoginInv, NearInv
    <3>3. CASE account.err + 1 < MaxErr
      BY <1>8, <1>9, <3>3, ProcFacts DEF LoginInv, CountedInv
    <3>. QED BY <1>9, <3>1, <3>2, <3>3, ProcFacts
  <2>. QED BY <1>5, <1>6, <2>3, <2>4, <2>5 DEF LoginInv
<1>. QED BY <1>10, <1>11

\* The right password, a new one, and the end of a lock: the guesses begin anew.
LEMMA FreshCount ==
  ASSUME LoginInv, LoginTypeOK', guesses' = 0, lost' = lost,
         ~account'.locked,
         account'.err = 0 \/ Low' \subseteq Low
  PROVE  CountedInv' /\ NearInv' /\ LockedInv'
<1>1. account'.err \in Nat /\ lost \in Nat
  BY DEF LoginInv, LoginTypeOK
<1>2. CountedInv' /\ LockedInv'
  BY <1>1 DEF CountedInv, LockedInv
<1>3. NearInv'
  <2>1. Low' \in SUBSET Proc
    BY DEF Low, Comparing
  <2>2. CASE MaxErr = 1
    <3>1. Low' = {}
      BY <2>2 DEF Low, LoginTypeOK, Attempt, Comparing
    <3>. QED BY <1>1, <2>2, <3>1, FS_EmptySet, ProcFacts DEF NearInv
  <2>3. CASE MaxErr > 1
    BY <1>1, <2>1, <2>3, Counts, ProcFacts DEF NearInv
  <2>. QED BY <2>2, <2>3, ProcFacts
<1>. QED BY <1>2, <1>3

LEMMA ClearLogin ==
  ASSUME LoginInv, NEW p \in Proc, ClearLoginFailure(p)
  PROVE  LoginInv'
<1>1. PICK j \in Attempt :
        j.pc = "passed" /\ attempt' = [attempt EXCEPT ![p] = j]
  BY DEF ClearLoginFailure, Attempt, LoginInv, LoginTypeOK
<1>2. /\ account' \in [err: 0 .. MaxErr, locked: BOOLEAN, enable: BOOLEAN]
      /\ account'.err = 0 /\ ~account'.locked
  BY RowCleared DEF ClearLoginFailure, LoginInv
<1>3. LoginTypeOK'
  <2>1. attempt' \in [Proc -> Attempt]
    BY <1>1, AttemptMoves DEF LoginInv
  <2>. QED BY <1>2, <2>1 DEF ClearLoginFailure, Anew, LoginInv, LoginTypeOK
<1>4. CountedInv' /\ NearInv' /\ LockedInv'
  BY <1>2, <1>3, FreshCount DEF ClearLoginFailure, Anew
<1>5. \A q \in Proc : attempt'[q].pc = "challenge" => attempt'[q] = attempt[q]
  BY <1>1 DEF LoginInv, LoginTypeOK
<1>6. ChallengeInv'
  BY <1>3, <1>5, ChallengeKept DEF ClearLoginFailure, LoginInv, LoginTypeOK
<1>. QED BY <1>3, <1>4, <1>6 DEF LoginInv

LEMMA TakeLogin ==
  ASSUME LoginInv, NEW p \in Proc, NEW c \in Challenge, TakeChallenge(p, c)
  PROVE  LoginInv'
<1>1. PICK j \in Attempt :
        /\ j.pc = "challenge" /\ j.c = c
        /\ attempt' = [attempt EXCEPT ![p] = j]
  <2> DEFINE j == [pc |-> "challenge", err |-> 0, c |-> c]
  <2>1. j \in Attempt /\ j.pc = "challenge" /\ j.c = c
    BY ProcFacts DEF Attempt
  <2>. QED BY <2>1 DEF TakeChallenge
<1>2. LoginTypeOK'
  BY <1>1, AttemptMoves DEF TakeChallenge, LoginInv, LoginTypeOK
<1>3. Low' \subseteq Low /\ Comparing' \subseteq Comparing
  BY <1>1, AttemptMoves DEF LoginInv
<1>4. CountedInv' /\ NearInv' /\ LockedInv'
  BY <1>2, <1>3, CountersKept DEF TakeChallenge
<1>5. \A q \in Proc :
        attempt'[q].pc = "challenge" => attempt'[q].c \in 1 .. issued'
  BY <1>1 DEF TakeChallenge, LoginInv, LoginTypeOK, ChallengeInv
<1>6. ASSUME NEW d \in Challenge
      PROVE  /\ d \in challenges' => verified'[d] = 0
             /\ verified'[d] + Cardinality(Taking(d)') <= Cardinality(Proc)
  <2>1. /\ verified' = verified /\ challenges' = challenges /\ c \in challenges
        /\ verified[d] \in Nat
    BY DEF TakeChallenge, LoginInv, LoginTypeOK
  <2>2. Taking(d) \in SUBSET Proc /\ Taking(d)' \in SUBSET Proc
    BY DEF Taking
  <2>3. CASE d = c
    BY <2>1, <2>2, <2>3, Counts, ProcFacts DEF LoginInv, ChallengeInv
  <2>4. CASE d # c
    <3>1. Taking(d)' = Taking(d) \ {p}
      BY <1>1, <2>4, AttemptMoves DEF LoginInv
    <3>2. Taking(d)' \in SUBSET Taking(d)
      BY <3>1
    <3>3. Cardinality(Taking(d)') <= Cardinality(Taking(d))
      BY <2>2, <3>2, Counts
    <3>. QED
      BY <2>1, <2>2, <3>3, Counts, ProcFacts DEF LoginInv, ChallengeInv
  <2>. QED BY <2>3, <2>4
<1>7. ChallengeInv'
  BY <1>5, <1>6 DEF ChallengeInv
<1>. QED BY <1>2, <1>4, <1>7 DEF LoginInv

LEMMA VerifyLogin ==
  ASSUME LoginInv, NEW p \in Proc, VerifyMFACode(p)
  PROVE  LoginInv'
<1>1. /\ attempt' = [attempt EXCEPT ![p] = NoAttempt]
      /\ NoAttempt \in Attempt /\ NoAttempt.pc = "idle"
  BY NoAttemptType DEF VerifyMFACode
<1> DEFINE c == attempt[p].c
<1>2. /\ attempt[p].pc = "challenge" /\ c \in Challenge /\ p \in Taking(c)
      /\ challenges' = challenges \ {c}
      /\ verified' = [verified EXCEPT ![c] = @ + 1]
  BY ProcFacts
     DEF VerifyMFACode, LoginInv, LoginTypeOK, ChallengeInv, Challenge, Taking
<1>3. LoginTypeOK'
  <2>1. verified' \in [Challenge -> Nat]
    BY <1>2 DEF LoginInv, LoginTypeOK
  <2>2. c <= issued /\ \A d \in Challenge : d > issued => verified'[d] = 0
    BY <1>2, ProcFacts DEF LoginInv, LoginTypeOK, ChallengeInv, Challenge
  <2>. QED
    BY <1>1, <1>2, <2>1, <2>2, AttemptMoves
       DEF VerifyMFACode, LoginInv, LoginTypeOK
<1>4. Low' \subseteq Low /\ Comparing' \subseteq Comparing
  BY <1>1, AttemptMoves DEF LoginInv
<1>5. CountedInv' /\ NearInv' /\ LockedInv'
  BY <1>3, <1>4, CountersKept DEF VerifyMFACode
<1>6. \A q \in Proc :
        attempt'[q].pc = "challenge" => attempt'[q].c \in 1 .. issued'
  BY <1>1 DEF VerifyMFACode, LoginInv, LoginTypeOK, ChallengeInv
<1>7. ASSUME NEW d \in Challenge
      PROVE  /\ d \in challenges' => verified'[d] = 0
             /\ verified'[d] + Cardinality(Taking(d)') <= Cardinality(Proc)
  <2>1. Taking(d) \in SUBSET Proc /\ Taking(d)' = Taking(d) \ {p}
    BY <1>1, AttemptMoves DEF LoginInv, Taking
  <2>2. /\ verified[d] \in Nat
        /\ verified'[d] = IF d = c THEN verified[d] + 1 ELSE verified[d]
    BY <1>2 DEF LoginInv, LoginTypeOK
  <2>3. verified[d] + Cardinality(Taking(d)) <= Cardinality(Proc)
    BY DEF LoginInv, ChallengeInv
  <2>4. CASE d = c
    BY <1>2, <2>1, <2>2, <2>3, <2>4, Counts, ProcFacts
  <2>5. CASE d # c
    <3>1. Taking(d)' \in SUBSET Taking(d)
      BY <2>1
    <3>2. Cardinality(Taking(d)') <= Cardinality(Taking(d))
      BY <2>1, <3>1, Counts
    <3>3. Cardinality(Taking(d)') \in Nat /\ Cardinality(Taking(d)) \in Nat
      BY <2>1, Counts
    <3>4. d \in challenges' => verified'[d] = 0
      BY <1>2, <2>2, <2>5 DEF LoginInv, ChallengeInv
    <3>. QED BY <2>2, <2>3, <2>5, <3>2, <3>3, <3>4, ProcFacts
  <2>. QED BY <2>4, <2>5
<1>8. ChallengeInv'
  BY <1>6, <1>7 DEF ChallengeInv
<1>. QED BY <1>3, <1>5, <1>8 DEF LoginInv

\* What changes the account, or ends a challenge, beside the logins.
LEMMA EventLogin ==
  ASSUME LoginInv,
         SetPassword \/ EnableUser \/ LockEnds
           \/ \E c \in Challenge : ChallengeExpires(c)
  PROVE  LoginInv'
<1>1. /\ UNCHANGED <<attempt, issued, verified, lost>>
      /\ challenges' \subseteq challenges
  BY DEF SetPassword, EnableUser, LockEnds, ChallengeExpires
<1>2. LoginTypeOK'
  <2>1. /\ account' \in [err: 0 .. MaxErr, locked: BOOLEAN, enable: BOOLEAN]
        /\ account'.locked => account'.err > 0
    <3>1. CASE SetPassword
      BY <3>1, RowCleared DEF SetPassword, LoginInv
    <3>2. CASE ~SetPassword
      BY <3>2 DEF EnableUser, LockEnds, ChallengeExpires, LoginInv, LoginTypeOK
    <3>. QED BY <3>1, <3>2
  <2>2. guesses' \in Nat
    <3>1. guesses' \in {0, guesses}
      BY DEF SetPassword, EnableUser, LockEnds, ChallengeExpires, Anew
    <3>. QED BY <3>1 DEF LoginInv, LoginTypeOK
  <2>3. issued' = issued
    BY <1>1
  <2>4. overlapped' \in BOOLEAN /\ shared' \subseteq Challenge
    <3>1. CASE SetPassword \/ LockEnds
      BY <3>1 DEF SetPassword, LockEnds, Anew, LoginInv, LoginTypeOK
    <3>2. CASE EnableUser \/ \E c \in Challenge : ChallengeExpires(c)
      BY <3>2 DEF EnableUser, ChallengeExpires, LoginInv, LoginTypeOK
    <3>. QED BY <3>1, <3>2
  <2>. QED BY <1>1, <2>1, <2>2, <2>3, <2>4 DEF LoginInv, LoginTypeOK
<1>3. Low' = Low /\ Comparing' = Comparing
  BY <1>1 DEF Low, Comparing
<1>4. ChallengeInv'
  BY <1>1, <1>2, ChallengeKept DEF LoginInv, LoginTypeOK
<1>5. CASE SetPassword \/ LockEnds
  <2>1. guesses' = 0 /\ ~account'.locked
    BY <1>5, RowCleared DEF SetPassword, LockEnds, Anew, LoginInv, LoginTypeOK
  <2>. QED BY <1>1, <1>2, <1>3, <1>4, <2>1, FreshCount DEF LoginInv
<1>6. CASE EnableUser \/ \E c \in Challenge : ChallengeExpires(c)
  <2>1. /\ guesses' = guesses /\ account'.err = account.err
        /\ account'.locked = account.locked
    BY <1>6 DEF EnableUser, ChallengeExpires, LoginInv, LoginTypeOK
  <2>. QED BY <1>1, <1>2, <1>3, <1>4, <2>1, CountersKept DEF LoginInv
<1>. QED BY <1>5, <1>6

LEMMA NextLogin == LoginInv /\ [LoginNext]_loginVars => LoginInv'
<1> SUFFICES ASSUME LoginInv, [LoginNext]_loginVars PROVE LoginInv'
  OBVIOUS
<1>1. CASE UNCHANGED loginVars
  BY <1>1
     DEF loginVars, LoginInv, LoginTypeOK, CountedInv, NearInv, LockedInv,
         ChallengeInv, Low, Comparing, Taking
<1>2. CASE \E p \in Proc : Begin(p)
  BY <1>2, BeginLogin
<1>3. CASE \E p \in Proc : RecordLoginFailure(p) \/ RecordFails(p)
  BY <1>3, FailLogin
<1>4. CASE \E p \in Proc : ClearLoginFailure(p)
  BY <1>4, ClearLogin
<1>5. CASE \E p \in Proc : ClearFails(p) \/ IssueMFAChallenge(p) \/ Answer(p)
  BY <1>5, AnswerLogin
<1>6. CASE \E p \in Proc, c \in Challenge : TakeChallenge(p, c)
  BY <1>6, TakeLogin
<1>7. CASE \E p \in Proc : VerifyMFACode(p)
  BY <1>7, VerifyLogin
<1>8. CASE \/ \E c \in Challenge : ChallengeExpires(c)
           \/ SetPassword \/ EnableUser \/ LockEnds
  BY <1>8, EventLogin
<1>. QED
  BY <1>1, <1>2, <1>3, <1>4, <1>5, <1>6, <1>7, <1>8 DEF LoginNext

\* A goroutine turns to something else, seen from the others.
LEMMA Turning ==
  ASSUME LoginTypeOK, NEW p \in Proc, NEW j \in Attempt,
         attempt' = [attempt EXCEPT ![p] = j]
  PROVE  /\ attempt'[p] = j /\ \A q \in Proc : q # p => attempt'[q] = attempt[q]
         /\ j.pc = "compare" => Comparing' = Comparing \cup {p}
         /\ j.pc # "compare" => Comparing' = Comparing \ {p}
         /\ j.pc # "challenge" => \A c \in Challenge : Taking(c)' = Taking(c) \ {p}
         /\ j.pc = "challenge" => \A c \in Challenge :
              Taking(c)' = IF j.c = c THEN Taking(c) \cup {p} ELSE Taking(c) \ {p}
         /\ j.pc # "compare" =>
              \A q \in Comparing' : q \in Comparing /\ attempt'[q].err = attempt[q].err
<1>1. attempt'[p] = j /\ \A q \in Proc : q # p => attempt'[q] = attempt[q]
  BY DEF LoginTypeOK
<1>2. j.pc = "compare" => Comparing' = Comparing \cup {p}
  BY <1>1 DEF Comparing
<1>3. j.pc # "compare" => Comparing' = Comparing \ {p}
  BY <1>1 DEF Comparing
<1>4. j.pc # "challenge" => \A c \in Challenge : Taking(c)' = Taking(c) \ {p}
  BY <1>1 DEF Taking
<1>5. j.pc = "challenge" => \A c \in Challenge :
        Taking(c)' = IF j.c = c THEN Taking(c) \cup {p} ELSE Taking(c) \ {p}
  BY <1>1 DEF Taking
<1>6. j.pc # "compare" =>
        \A q \in Comparing' : q \in Comparing /\ attempt'[q].err = attempt[q].err
  BY <1>1, <1>3
<1>. QED BY <1>1, <1>2, <1>3, <1>4, <1>5, <1>6

\* A new count, with the lock gone.
LEMMA AloneAnew ==
  ASSUME LoginTypeOK, LoginTypeOK', Anew, ~account'.locked, lost' = lost
  PROVE  AloneInv'
<1>1. /\ guesses' = 0 /\ lost \in Nat /\ account'.err \in Nat
      /\ overlapped' <=> \E p, q \in Comparing' : p # q
  BY DEF Anew, LoginTypeOK
<1>. QED BY <1>1, ProcFacts DEF AloneInv

\* Nobody begins to compare, nobody fails.
LEMMA AloneKept ==
  ASSUME LoginTypeOK, AloneInv, overlapped' = overlapped, guesses' = guesses, lost' = lost,
         account'.err = account.err, account'.locked = account.locked,
         \A p \in Comparing' : p \in Comparing /\ attempt'[p].err = attempt[p].err
  PROVE  AloneInv'
BY DEF AloneInv

LEMMA SingleKept ==
  ASSUME SingleInv, shared' = shared, verified' = verified,
         \A c \in Challenge : Taking(c)' \subseteq Taking(c)
  PROVE  SingleInv'
BY DEF SingleInv

LEMMA AloneFail ==
  ASSUME LoginIInv, NEW p \in Proc, RecordLoginFailure(p) \/ RecordFails(p)
  PROVE  AloneInv' /\ SingleInv'
<1>1. /\ p \in Comparing /\ Comparing' = Comparing \ {p}
      /\ \A c \in Challenge : Taking(c)' \subseteq Taking(c)
  BY NoAttemptType, Turning
     DEF RecordLoginFailure, RecordFails, Refused, Comparing, LoginIInv, LoginInv
<1>2. /\ guesses' = guesses + 1
      /\ UNCHANGED <<verified, overlapped, shared>>
  BY DEF RecordLoginFailure, RecordFails, Refused
<1>3. /\ account.err \in 0 .. MaxErr /\ account.locked \in BOOLEAN
      /\ guesses \in Nat /\ lost \in Nat /\ attempt[p].err \in 0 .. MaxErr
  BY DEF LoginIInv, LoginInv, LoginTypeOK, Attempt
<1>4. SingleInv'
  BY <1>1, <1>2, SingleKept DEF LoginIInv
<1>5. ASSUME ~overlapped PROVE /\ Comparing' = {} /\ ~account.locked
                               /\ attempt[p].err = account.err \/ guesses = 0
                               /\ guesses <= account.err + lost
                               /\ guesses < MaxErr + lost
  BY <1>1, <1>5 DEF LoginIInv, AloneInv
<1>6. CASE RecordFails(p)
  <2>1. account' = account /\ lost' = lost + 1
    BY <1>6 DEF RecordFails
  <2>. QED BY <1>2, <1>3, <1>4, <1>5, <2>1, ProcFacts DEF AloneInv
<1>7. CASE RecordLoginFailure(p)
  <2>1. /\ account'.err = IF account.err < MaxErr THEN account.err + 1 ELSE account.err
        /\ account'.locked <=> account.locked \/ attempt[p].err + 1 >= MaxErr
        /\ lost' = lost
    BY <1>7 DEF RecordLoginFailure, LoginIInv, LoginInv, LoginTypeOK
  <2>. QED BY <1>2, <1>3, <1>4, <1>5, <2>1, ProcFacts DEF AloneInv
<1>. QED BY <1>6, <1>7

LEMMA AloneBegin ==
  ASSUME LoginIInv, NEW p \in Proc, Begin(p)
  PROVE  AloneInv' /\ SingleInv'
<1>1. PICK j \in Attempt :
        /\ j.pc = "compare" /\ j.err = account.err
        /\ attempt' = [attempt EXCEPT ![p] = j]
  BY DEF Begin, Attempt, LoginIInv, LoginInv, LoginTypeOK
<1>2. /\ attempt'[p].err = account.err /\ Comparing' = Comparing \cup {p}
      /\ \A c \in Challenge : Taking(c)' \subseteq Taking(c)
  <2>1. LoginTypeOK
    BY DEF LoginIInv, LoginInv
  <2>2. \A c \in Challenge : Taking(c)' = Taking(c) \ {p}
    BY <1>1, <2>1, Turning
  <2>3. attempt'[p].err = account.err /\ Comparing' = Comparing \cup {p}
    BY <1>1, <2>1, Turning
  <2>. QED BY <2>2, <2>3
<1>3. /\ ~account.locked /\ overlapped' = (overlapped \/ Comparing # {})
      /\ UNCHANGED <<account, guesses, verified, lost, shared>>
  BY DEF Begin
<1>4. SingleInv'
  BY <1>2, <1>3, SingleKept DEF LoginIInv
<1>. QED BY <1>2, <1>3, <1>4 DEF LoginIInv, AloneInv

LEMMA AloneStep ==
  ASSUME LoginIInv, LoginTypeOK', [LoginNext]_loginVars
  PROVE  AloneInv' /\ SingleInv'
<1>0. LoginTypeOK /\ AloneInv /\ SingleInv
  BY DEF LoginIInv, LoginInv
<1>1. CASE UNCHANGED loginVars
  BY <1>0, <1>1 DEF loginVars, AloneInv, SingleInv, Comparing, Taking
<1>2. ASSUME NEW p \in Proc, Begin(p) PROVE AloneInv' /\ SingleInv'
  BY <1>2, AloneBegin
<1>3. ASSUME NEW p \in Proc, RecordLoginFailure(p) \/ RecordFails(p)
      PROVE  AloneInv' /\ SingleInv'
  BY <1>3, AloneFail
<1>4. ASSUME NEW p \in Proc, ClearLoginFailure(p) PROVE AloneInv' /\ SingleInv'
  <2>1. PICK j \in Attempt : j.pc = "passed" /\ attempt' = [attempt EXCEPT ![p] = j]
    BY <1>0, <1>4 DEF ClearLoginFailure, Attempt, LoginTypeOK
  <2>2. \A c \in Challenge : Taking(c)' \subseteq Taking(c)
    <3>1. \A c \in Challenge : Taking(c)' = Taking(c) \ {p}
      BY <1>0, <2>1, Turning
    <3>. QED BY <3>1
  <2>3. ~account'.locked
    BY <1>0, <1>4, RowCleared DEF ClearLoginFailure
  <2>. QED
    BY <1>0, <1>4, <2>2, <2>3, AloneAnew, SingleKept DEF ClearLoginFailure
<1>5. ASSUME NEW p \in Proc, ClearFails(p) \/ IssueMFAChallenge(p) \/ Answer(p)
      PROVE  AloneInv' /\ SingleInv'
  <2>1. PICK j \in Attempt : /\ j.pc \notin {"compare", "challenge"}
                             /\ attempt' = [attempt EXCEPT ![p] = j]
    <3>1. CASE ClearFails(p)
      BY <1>0, <3>1 DEF ClearFails, Attempt, LoginTypeOK
    <3>. QED BY <1>5, <3>1, NoAttemptType DEF IssueMFAChallenge, Answer
  <2>2. /\ \A c \in Challenge : Taking(c)' \subseteq Taking(c)
        /\ \A q \in Comparing' : q \in Comparing /\ attempt'[q].err = attempt[q].err
    <3>1. \A c \in Challenge : Taking(c)' = Taking(c) \ {p}
      BY <1>0, <2>1, Turning
    <3>2. \A q \in Comparing' : q \in Comparing /\ attempt'[q].err = attempt[q].err
      BY <1>0, <2>1, Turning
    <3>. QED BY <3>1, <3>2
  <2>3. UNCHANGED <<account, guesses, verified, lost, overlapped, shared>>
    BY <1>5 DEF ClearFails, IssueMFAChallenge, Answer
  <2>. QED BY <1>0, <2>2, <2>3, AloneKept, SingleKept
<1>6. ASSUME NEW p \in Proc, NEW c \in Challenge, TakeChallenge(p, c)
      PROVE  AloneInv' /\ SingleInv'
  <2>1. PICK j \in Attempt : /\ j.pc = "challenge" /\ j.c = c
                             /\ attempt' = [attempt EXCEPT ![p] = j]
    <3> DEFINE j == [pc |-> "challenge", err |-> 0, c |-> c]
    <3>1. j \in Attempt /\ j.pc = "challenge" /\ j.c = c
      BY ProcFacts DEF Attempt
    <3>. QED BY <1>6, <3>1 DEF TakeChallenge
  <2>2. \A d \in Challenge :
          Taking(d)' = IF d = c THEN Taking(d) \cup {p} ELSE Taking(d) \ {p}
    <3>1. \A d \in Challenge :
            Taking(d)' = IF j.c = d THEN Taking(d) \cup {p} ELSE Taking(d) \ {p}
      BY <1>0, <2>1, Turning
    <3>. QED BY <2>1, <3>1
  <2>6. \A q \in Comparing' : q \in Comparing /\ attempt'[q].err = attempt[q].err
    BY <1>0, <2>1, Turning
  <2>3. /\ UNCHANGED <<account, guesses, verified, lost, overlapped>>
        /\ c \in challenges
        /\ shared' = IF Taking(c) # {} THEN shared \cup {c} ELSE shared
    BY <1>6 DEF TakeChallenge
  <2>4. verified[c] = 0
    BY <2>3 DEF LoginIInv, LoginInv, ChallengeInv
  <2>5. SingleInv'
    BY <1>0, <2>2, <2>3, <2>4 DEF SingleInv
  <2>. QED BY <1>0, <2>3, <2>5, <2>6, AloneKept
<1>7. ASSUME NEW p \in Proc, VerifyMFACode(p) PROVE AloneInv' /\ SingleInv'
  <2> DEFINE c == attempt[p].c
  <2>1. /\ \A d \in Challenge : Taking(d)' = Taking(d) \ {p}
        /\ \A q \in Comparing' : q \in Comparing /\ attempt'[q].err = attempt[q].err
    <3>1. attempt' = [attempt EXCEPT ![p] = NoAttempt]
      BY <1>7 DEF VerifyMFACode
    <3>2. \A d \in Challenge : Taking(d)' = Taking(d) \ {p}
      BY <1>0, <3>1, NoAttemptType, Turning
    <3>3. \A q \in Comparing' : q \in Comparing /\ attempt'[q].err = attempt[q].err
      BY <1>0, <3>1, NoAttemptType, Turning
    <3>. QED BY <3>2, <3>3
  <2>2. /\ UNCHANGED <<account, guesses, lost, overlapped, shared>>
        /\ p \in Taking(c) /\ verified' = [verified EXCEPT ![c] = @ + 1]
    BY <1>7 DEF VerifyMFACode, Taking
  <2>3. \A d \in Challenge : verified'[d] = IF d = c THEN verified[d] + 1 ELSE verified[d]
    BY <1>0, <2>2 DEF LoginTypeOK
  <2>4. SingleInv'
    BY <1>0, <2>1, <2>2, <2>3 DEF SingleInv
  <2>. QED BY <1>0, <2>1, <2>2, <2>4, AloneKept
<1>8. CASE SetPassword \/ LockEnds
  <2>1. UNCHANGED <<attempt, verified, lost, shared>> /\ Anew
    BY <1>8 DEF SetPassword, LockEnds
  <2>2. \A c \in Challenge : Taking(c)' = Taking(c)
    BY <2>1 DEF Taking
  <2>3. ~account'.locked
    BY <1>0, <1>8, RowCleared DEF SetPassword, LockEnds, LoginTypeOK
  <2>. QED BY <1>0, <2>1, <2>2, <2>3, AloneAnew, SingleKept
<1>9. CASE EnableUser \/ \E c \in Challenge : ChallengeExpires(c)
  <2>1. /\ UNCHANGED <<attempt, guesses, verified, lost, overlapped, shared>>
        /\ account'.err = account.err /\ account'.locked = account.locked
    BY <1>0, <1>9 DEF EnableUser, ChallengeExpires, LoginTypeOK
  <2>2. Comparing' = Comparing /\ \A c \in Challenge : Taking(c)' = Taking(c)
    BY <2>1 DEF Comparing, Taking
  <2>. QED BY <1>0, <2>1, <2>2, AloneKept, SingleKept
<1>. QED
  BY <1>1, <1>2, <1>3, <1>4, <1>5, <1>6, <1>7, <1>8, <1>9 DEF LoginNext

----------------------------------------------------------------------------
(* Theorems about logins.                                                  *)

\* The strengthening holds in every reachable state.
THEOREM LoginInvariant == LoginSpec => []LoginIInv
<1>1. LoginInit => LoginIInv
  <2> SUFFICES ASSUME LoginInit PROVE LoginIInv
    OBVIOUS
  <2>1. Comparing = {} /\ \A c : Taking(c) = {}
    BY DEF LoginInit, Comparing, Taking, NoAttempt
  <2>2. /\ guesses = 0 /\ lost = 0 /\ account.err = 0
        /\ \A c \in Challenge : verified[c] = 0
    BY DEF LoginInit
  <2>. QED
    BY <2>1, <2>2, InitLogin, ProcFacts DEF LoginIInv, AloneInv, SingleInv
<1>2. LoginIInv /\ [LoginNext]_loginVars => LoginIInv'
  <2> SUFFICES ASSUME LoginIInv, [LoginNext]_loginVars PROVE LoginIInv'
    OBVIOUS
  <2>1. LoginInv'
    BY NextLogin DEF LoginIInv
  <2>. QED BY <2>1, AloneStep DEF LoginIInv, LoginInv
<1>. QED BY <1>1, <1>2, PTL DEF LoginSpec

\* Every variable keeps its type, and only issued challenges have codes.
THEOREM LoginTypeCorrect == LoginSpec => []LoginTypeOK
<1>1. LoginIInv => LoginTypeOK
  BY DEF LoginIInv, LoginInv
<1>. QED BY <1>1, LoginInvariant, PTL

\* recordLoginFailure and ConsumeMFAChallenge: for any number of goroutines,
\* limit, lost UPDATEs and challenges, the documented limits hold for requests
\* that do not overlap, and the larger ones for those that do.
THEOREM LoginGuessesBounded == LoginSpec => []GuessesAreBounded
<1>1. LoginIInv => GuessesAreBounded
  <2> SUFFICES ASSUME LoginIInv PROVE GuessesAreBounded
    OBVIOUS
  <2>1. /\ guesses \in Nat /\ lost \in Nat /\ account.err \in 0 .. MaxErr
    BY DEF LoginIInv, LoginInv, LoginTypeOK
  <2>2. guesses <= MaxErr + 2 * Others + lost
    <3>1. CASE account.locked
      BY <2>1, <3>1, CountTypes, ProcFacts DEF LoginIInv, LoginInv, LockedInv
    <3>2. CASE ~account.locked /\ account.err + 1 >= MaxErr
      BY <2>1, <3>2, CountTypes, ProcFacts DEF LoginIInv, LoginInv, NearInv
    <3>3. CASE account.err + 1 < MaxErr
      BY <2>1, <3>3, ProcFacts DEF LoginIInv, LoginInv, CountedInv
    <3>. QED BY <2>1, <3>1, <3>2, <3>3, ProcFacts
  <2>3. guesses <= MaxGuesses
    <3>1. CASE overlapped
      BY <2>1, <2>2, <3>1, ProcFacts DEF MaxGuesses, Others
    <3>2. CASE ~overlapped
      BY <2>1, <3>2, ProcFacts DEF LoginIInv, AloneInv, MaxGuesses
    <3>. QED BY <3>1, <3>2
  <2>4. \A c \in Challenge : verified[c] <= MaxCodes(c)
    <3>1. \A c \in Challenge : verified[c] <= Cardinality(Proc)
      BY CountTypes, ProcFacts DEF LoginIInv, LoginInv, LoginTypeOK, ChallengeInv
    <3>. QED BY <3>1 DEF LoginIInv, SingleInv, MaxCodes
  <2>. QED BY <2>3, <2>4 DEF GuessesAreBounded
<1>. QED BY <1>1, LoginInvariant, PTL
=============================================================================
