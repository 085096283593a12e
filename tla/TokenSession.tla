---------------------------- MODULE TokenSession ----------------------------
(***************************************************************************)
(* Access tokens of one user: the token cache of internal/auth/token, the  *)
(* session rows of internal/session, and the handlers of internal/user     *)
(* that change both (login, refresh, logout, revocation, and DelByUserID,  *)
(* which password and role changes call).  A token is accepted when it is  *)
(* in the cache and no revoked row is found to carry its signature.        *)
(*                                                                         *)
(* The memory cache keeps tokenCache and, under a lock of its own, an      *)
(* index of the tokens of each user; Redis runs each operation in one      *)
(* command or script.  Each locked section, cache call and database        *)
(* statement is one step; the eviction callback belongs to its Delete.     *)
(*                                                                         *)
(* Abstracted: claims but the session id, expiry, the key material of a    *)
(* session, and agent and service tokens, which have no row.  A database   *)
(* statement that fails has had no effect.  CleanExpiredSessions, with     *)
(* which an administrator deletes rows that were idle too long, revoked    *)
(* ones too, is left out.                                                  *)
(***************************************************************************)
CONSTANTS
  Token,      \* tokens, named by their signature
  NoToken,    \* "no token"
  Session,    \* device sessions of the user
  NoSession,  \* the session of a token that was not issued yet
  Worker,     \* goroutines serving requests
  Backends,   \* the caches an instance considers: "memory", "redis"
  Faulty      \* the caches an instance combines with a failing database

ASSUME TokenSessionAssumption ==
  /\ NoToken \notin Token
  /\ NoSession \notin Session
  /\ Backends \subseteq {"memory", "redis"}
  /\ Faulty \subseteq Backends

VARIABLES
  backend,  \* the cache InitTokenCache has chosen
  cache,    \* tokens in the cache
  index,    \* tokens in userCache[userID]
  known,    \* userCache has an entry for the user
  owner,    \* owner[t]: the session id in the claims of t
  sess,     \* sess[s]: the user_session row of s
  held,     \* tokens a client has received
  job       \* job[p]: what goroutine p is doing

vars == <<backend, cache, index, known, owner, sess, held, job>>

Pcs == {"idle", "create_session", "check", "swap", "store", "drop",
        "rotate", "del", "del_cache", "del_user"}

MaybeToken == Token \cup {NoToken}

\* from and to: the tokens being replaced, back: it is the rollback; todo:
\* what DelByUserID has yet to delete.
Job == [pc: Pcs, from: MaybeToken, to: MaybeToken, back: BOOLEAN,
        todo: SUBSET Token]

\* sig = NoToken: there is no such row.
SessionRow == [sig: MaybeToken, revoked: BOOLEAN]

TypeOK ==
  /\ backend \in Backends
  /\ cache \subseteq Token
  /\ index \subseteq Token
  /\ known \in BOOLEAN
  /\ owner \in [Token -> Session \cup {NoSession}]
  /\ sess \in [Session -> SessionRow]
  /\ held \subseteq Token
  /\ job \in [Worker -> Job]

IdleJob == [pc |-> "idle", from |-> NoToken, to |-> NoToken, back |-> FALSE,
            todo |-> {}]

Init ==
  /\ backend \in Backends
  /\ cache = {}
  /\ index = {}
  /\ known = FALSE
  /\ owner = [t \in Token |-> NoSession]
  /\ sess = [s \in Session |-> [sig |-> NoToken, revoked |-> FALSE]]
  /\ held = {}
  /\ job = [p \in Worker |-> IdleJob]

Memory == backend = "memory"

MayFail == backend \in Faulty

At(p, pc) == job[p].pc = pc

Goto(p, pc) == job' = [job EXCEPT ![p].pc = pc]

Return(p) == job' = [job EXCEPT ![p] = IdleJob]

Fresh(t) == owner[t] = NoSession

\* The error of the Count is dropped: a table that could not be read for this
\* request has no revoked rows.
IsRevoked(t, readable) ==
  readable /\ \E s \in Session : sess[s].sig = t /\ sess[s].revoked

\* authenticatePrincipal lets a request with t in.
Usable(t, readable) == t \in cache /\ ~IsRevoked(t, readable)

----------------------------------------------------------------------------
(* Login: EncodeToken stores the token, persistLoginSession the row.       *)

Login(p, s, t) ==
  /\ At(p, "idle")
  /\ Fresh(t)
  /\ \A x \in Token : owner[x] # s
  /\ owner' = [owner EXCEPT ![t] = s]
  /\ cache' = cache \cup {t}
  /\ IF Memory THEN index' = index \cup {t} /\ known' = TRUE
               ELSE UNCHANGED <<index, known>>
  /\ job' = [job EXCEPT ![p] = [IdleJob EXCEPT !.pc = "create_session",
                                               !.from = t]]
  /\ UNCHANGED <<backend, sess, held>>

\* Mutant: the row gets the session id where the signature belongs.
CreateSessionByID(p) ==
  LET t == job[p].from IN
  /\ At(p, "create_session")
  /\ sess' = [sess EXCEPT ![owner[t]] = [sig |-> owner[t], revoked |-> FALSE]]
  /\ held' = held \cup {t}
  /\ Return(p)
  /\ UNCHANGED <<backend, cache, index, known, owner>>

CreateSession(p) ==
  LET t == job[p].from IN
  /\ At(p, "create_session")
  /\ sess' = [sess EXCEPT ![owner[t]] = [sig |-> t, revoked |-> FALSE]]
  /\ held' = held \cup {t}
  /\ Return(p)
  /\ UNCHANGED <<backend, cache, index, known, owner>>

CreateSessionFails(p) ==
  /\ At(p, "create_session")
  /\ MayFail
  /\ Goto(p, "del")
  /\ UNCHANGED <<backend, cache, index, known, owner, sess, held>>

----------------------------------------------------------------------------
(* ReplaceToken, for the refresh of a token and for its rollback.          *)

\* RefreshToken finds the token active and signs the next one.
Refresh(p, t, n) ==
  /\ At(p, "idle")
  /\ t \in held
  /\ t \in cache
  /\ Fresh(n)
  /\ owner' = [owner EXCEPT ![n] = owner[t]]
  /\ job' = [job EXCEPT ![p] = [IdleJob EXCEPT !.pc = "check", !.from = t,
                                               !.to = n]]
  /\ UNCHANGED <<backend, cache, index, known, sess, held>>

\* A failed refresh returns the error, a failed rollback deletes the token it
\* could not take back.
ReplaceFails(p) ==
  /\ IF job[p].back THEN Goto(p, "del") ELSE Return(p)
  /\ UNCHANGED <<cache, index>>

Replaced(p) == IF job[p].back THEN Return(p) ELSE Goto(p, "rotate")

\* The first look at tokenCache takes no lock.
Check(p) ==
  /\ At(p, "check")
  /\ Memory
  /\ IF job[p].from \in cache THEN Goto(p, "swap") /\ UNCHANGED <<cache, index>>
                              ELSE ReplaceFails(p)
  /\ UNCHANGED <<backend, known, owner, sess, held>>

\* The locked section: the old token leaves the index, the new one enters it.
Swap(p) ==
  /\ At(p, "swap")
  /\ IF known /\ job[p].from \in index
     THEN /\ index' = (index \ {job[p].from}) \cup {job[p].to}
          /\ Goto(p, "store")
          /\ UNCHANGED cache
     ELSE ReplaceFails(p)
  /\ UNCHANGED <<backend, known, owner, sess, held>>

Store(p) ==
  /\ At(p, "store")
  /\ cache' = cache \cup {job[p].to}
  /\ Goto(p, "drop")
  /\ UNCHANGED <<backend, index, known, owner, sess, held>>

\* Deleting a cached token runs OnEvicted, which takes it off the index.
Evicted(t) ==
  /\ cache' = cache \ {t}
  /\ index' = IF t \in cache THEN index \ {t} ELSE index

Drop(p) ==
  /\ At(p, "drop")
  /\ Evicted(job[p].from)
  /\ Replaced(p)
  /\ UNCHANGED <<backend, known, owner, sess, held>>

\* Mutant: the script does not ask whether the old token exists.
ReplaceScriptUnchecked(p) ==
  /\ At(p, "check")
  /\ ~Memory
  /\ cache' = (cache \ {job[p].from}) \cup {job[p].to}
  /\ Replaced(p)
  /\ UNCHANGED <<backend, index, known, owner, sess, held>>

\* The script of the Redis cache.
ReplaceScript(p) ==
  /\ At(p, "check")
  /\ ~Memory
  /\ IF job[p].from \in cache
     THEN /\ cache' = (cache \ {job[p].from}) \cup {job[p].to}
          /\ Replaced(p)
          /\ UNCHANGED index
     ELSE ReplaceFails(p)
  /\ UNCHANGED <<backend, known, owner, sess, held>>

----------------------------------------------------------------------------
(* RefreshToken: RotateTokenSignature, and the rollback when it refuses.   *)

\* Mutant: the number of rows the UPDATE changed is not looked at.
RotateUnchecked(p) ==
  LET t == job[p].from s == owner[t] IN
  /\ At(p, "rotate")
  /\ sess' = IF sess[s] = [sig |-> t, revoked |-> FALSE]
             THEN [sess EXCEPT ![s].sig = job[p].to] ELSE sess
  /\ held' = held \cup {job[p].to}
  /\ Return(p)
  /\ UNCHANGED <<backend, cache, index, known, owner>>

Rotate(p) ==
  LET t == job[p].from s == owner[t] IN
  /\ At(p, "rotate")
  /\ sess[s] = [sig |-> t, revoked |-> FALSE]
  /\ sess' = [sess EXCEPT ![s].sig = job[p].to]
  /\ held' = held \cup {job[p].to}
  /\ Return(p)
  /\ UNCHANGED <<backend, cache, index, known, owner>>

RotateRefused(p) ==
  LET t == job[p].from IN
  /\ At(p, "rotate")
  /\ MayFail \/ sess[owner[t]] # [sig |-> t, revoked |-> FALSE]
  /\ job' = [job EXCEPT ![p] = [job[p] EXCEPT !.pc = "check", !.from = job[p].to,
                                             !.to = t, !.back = TRUE]]
  /\ UNCHANGED <<backend, cache, index, known, owner, sess, held>>

----------------------------------------------------------------------------
(* Logout, Del and revocation.                                             *)

Revoked(S) ==
  sess' = [s \in Session |-> IF s \in S /\ sess[s].sig # NoToken
                             THEN [sess[s] EXCEPT !.revoked = TRUE]
                             ELSE sess[s]]

\* A failing RevokeByTokenSig is only logged.
Logout(p, t) ==
  /\ At(p, "idle")
  /\ t \in held
  /\ Revoked({s \in Session : sess[s].sig = t}) \/ (MayFail /\ UNCHANGED sess)
  /\ job' = [job EXCEPT ![p] = [IdleJob EXCEPT !.pc = "del", !.from = t]]
  /\ UNCHANGED <<backend, cache, index, known, owner, held>>

\* The memory cache does nothing for a user its index does not know.
Del(p) ==
  LET t == job[p].from IN
  /\ At(p, "del")
  /\ IF Memory
     THEN /\ IF known THEN Goto(p, "del_cache") ELSE Return(p)
          /\ index' = index \ {t}
          /\ UNCHANGED cache
     ELSE /\ Return(p)
          /\ cache' = cache \ {t}
          /\ UNCHANGED index
  /\ UNCHANGED <<backend, known, owner, sess, held>>

DelCache(p) ==
  /\ At(p, "del_cache")
  /\ Evicted(job[p].from)
  /\ Return(p)
  /\ UNCHANGED <<backend, known, owner, sess, held>>

\* RevokeSession, RevokeSessionForPrincipal and RevokeAllByPrincipal.
Revoke(S) ==
  /\ \E s \in S : sess[s].sig # NoToken /\ ~sess[s].revoked
  /\ Revoked(S)
  /\ UNCHANGED <<backend, cache, index, known, owner, held, job>>

----------------------------------------------------------------------------
(* DelByUserID.                                                            *)

\* The memory cache takes the user off the index, then deletes the tokens it
\* found there.  Redis is asked to DEL the key "token:<user>:*", which names
\* no token.
DelByUserID(p) ==
  /\ At(p, "idle")
  /\ cache # {}
  /\ job' = [job EXCEPT ![p] = [IdleJob EXCEPT
                !.pc = "del_user",
                !.todo = IF Memory THEN index ELSE {}]]
  /\ index' = {}
  /\ known' = FALSE
  /\ UNCHANGED <<backend, cache, owner, sess, held>>

DelUserToken(p, t) ==
  /\ At(p, "del_user")
  /\ t \in job[p].todo
  /\ Evicted(t)
  /\ job' = [job EXCEPT ![p].todo = @ \ {t}]
  /\ UNCHANGED <<backend, known, owner, sess, held>>

DelUserReturns(p) ==
  /\ At(p, "del_user")
  /\ job[p].todo = {}
  /\ Return(p)
  /\ UNCHANGED <<backend, cache, index, known, owner, sess, held>>

----------------------------------------------------------------------------

\* The process restarts: its goroutines are gone, and with them a cache in
\* memory.
Restart ==
  /\ job' = [p \in Worker |-> IdleJob]
  /\ cache' = IF Memory THEN {} ELSE cache
  /\ index' = {}
  /\ known' = FALSE
  /\ UNCHANGED <<backend, owner, sess, held>>

Next ==
  \/ \E p \in Worker, t \in Token :
       \/ \E s \in Session : Login(p, s, t)
       \/ \E n \in Token : Refresh(p, t, n)
       \/ Logout(p, t) \/ DelUserToken(p, t)
  \/ \E p \in Worker :
       \/ CreateSession(p) \/ CreateSessionFails(p)
       \/ Check(p) \/ Swap(p) \/ Store(p) \/ Drop(p) \/ ReplaceScript(p)
       \/ Rotate(p) \/ RotateRefused(p)
       \/ Del(p) \/ DelCache(p) \/ DelByUserID(p) \/ DelUserReturns(p)
  \/ \E S \in {{s} : s \in Session} \cup {Session} : Revoke(S)
  \/ Restart

Spec == Init /\ [][Next]_vars

----------------------------------------------------------------------------
(* Properties.                                                             *)

\* user.go, RefreshToken: a refresh never leaves two active access tokens.
\* The cache alone sees to it: it does not matter which of the requests found
\* the table of sessions readable.
OneActiveToken ==
  \A t, u \in held : \A a, b \in BOOLEAN :
    Usable(t, a) /\ Usable(u, b) /\ owner[t] = owner[u] => t = u

\* Revoking a session shuts out every token a client holds of it, those of
\* refreshes under way included, from every request whose check can read the
\* table: no refresh or rollback leaves a token that the row does not name.
\* This is all the code gives.  A request whose check fails to read is let in
\* with any token in the cache (session.go:127), and a revocation, or the
\* rollback of a refresh that a logout overtakes, leaves such tokens there.
RevokedShutsOut ==
  \A t \in held : Usable(t, TRUE) => ~sess[owner[t]].revoked
=============================================================================
