--------------------------------- MODULE Auth ---------------------------------
(***************************************************************************)
(* agent/src/auth.rs: the login attempts counted per client, the lockout,  *)
(* and the sessions.  A login runs on a worker thread of the server in     *)
(* several critical sections, with the slow hash between them.  Lockouts   *)
(* are kept on the wall clock, which the network may set, and sessions on  *)
(* the monotonic clock.  Credentials are right or wrong; a session is the  *)
(* number of the login that opened it, so that older ones have smaller     *)
(* numbers and the vector of sessions is a set.                            *)
(***************************************************************************)
EXTENDS Agent, Integers, FiniteSets, Sequences

CONSTANTS
  Clients,      \* client addresses
  Workers,      \* server threads
  MaxAttempts,  \* MAX_LOGIN_ATTEMPTS
  LockoutSecs,  \* LOGIN_LOCKOUT_SECS
  AttemptTtl,   \* LOGIN_ATTEMPT_TTL_SECS
  TokenTtl,     \* TOKEN_TTL
  MaxTokens,    \* MAX_TOKENS
  AuthBounds    \* bounds, one of which a behaviour has: the monotonic clock, sessions opened,
                \* wrong credentials sent, and how far the wall clock may be set, once

LoginAttempts == [count : Nat \ {0}, lockedUntil : Nat, last : Nat]

ASSUME AuthConstants ==
  /\ IsFiniteSet(Workers) /\ Workers # {} /\ Clients # {}
  /\ {MaxAttempts, LockoutSecs, AttemptTtl, TokenTtl, MaxTokens} \subseteq Nat \ {0}
  /\ \A b \in AuthBounds : {b.time, b.logins, b.tries} \subseteq Nat /\ b.jumps \subseteq Int
  /\ None \notin LoginAttempts

VARIABLES
  mono, wall,  \* the two clocks
  attempts,    \* failed_logins: per client a LoginAttempt, or None
  tokens,      \* tokens: the sessions and when they expire
  worker,      \* per server thread the login it serves
  ghost,       \* checked: wrong credentials compared since a client's count began;
               \* sessions: every session's last use, and whether newer ones
               \* have taken its place
  authBudget, authBounds

authVars == <<mono, wall, attempts, tokens, worker, ghost, authBudget, authBounds>>

Idle == [at |-> "idle"]
Sessions == 1..authBounds.logins

\* The values the variables range over; issuing never keeps more than MAX_TOKENS sessions.
AuthTypeOK ==
  /\ mono \in 0..authBounds.time /\ wall \in Nat /\ authBounds \in AuthBounds
  /\ attempts \in [Clients -> LoginAttempts \cup {None}]
  /\ tokens \subseteq [value : Sessions, expires : Nat]
  /\ IsFiniteSet(tokens) /\ Cardinality(tokens) <= MaxTokens
  /\ worker \in [Workers -> {Idle} \cup [at : {"hash", "fail", "issue"}, client : Clients, right : BOOLEAN, now : Nat]]
  /\ ghost \in [checked : [Clients -> Nat], sessions : Seq([used : Nat, pushed : BOOLEAN])]
  /\ Len(ghost.sessions) <= authBounds.logins

AuthInit ==
  /\ mono = 0 /\ wall = AttemptTtl
  /\ attempts = [c \in Clients |-> None] /\ tokens = {}
  /\ worker = [w \in Workers |-> Idle]
  /\ ghost = [checked |-> [c \in Clients |-> 0], sessions |-> <<>>]
  /\ authBudget = [tries |-> 0, jumped |-> FALSE] /\ authBounds \in AuthBounds

(***************************************************************************)
(* The clocks.                                                             *)
(***************************************************************************)
Second ==
  /\ mono < authBounds.time /\ mono' = mono + 1 /\ wall' = wall + 1
  /\ UNCHANGED <<attempts, tokens, worker, ghost, authBudget>>

\* The network sets the time.
ClockIsSet ==
  /\ ~authBudget.jumped /\ authBudget' = [authBudget EXCEPT !.jumped = TRUE]
  /\ \E by \in authBounds.jumps : wall + by >= 0 /\ wall' = wall + by
  /\ UNCHANGED <<mono, attempts, tokens, worker, ghost>>

(***************************************************************************)
(* login_against() and record_failed_login().                              *)
(***************************************************************************)
Locked(c) == attempts[c] # None /\ attempts[c].count >= MaxAttempts /\ wall < attempts[c].lockedUntil

Expired_Always(c) == attempts[c] # None

\* A lockout that is over: the count begins again.
Expired(c) == attempts[c] # None /\ attempts[c].count >= MaxAttempts /\ wall >= attempts[c].lockedUntil

\* Ghost: the client was locked out and has waited.
Waited(c) == attempts[c] # None /\ 0 < attempts[c].lockedUntil /\ attempts[c].lockedUntil <= wall

Forget(c) == attempts' = [attempts EXCEPT ![c] = None]

\* The lock is looked at before the hash; a locked client gets its answer and no more.
LoginBegins(w, c, right) ==
  /\ worker[w] = Idle /\ ~Locked(c)
  /\ right => Len(ghost.sessions) < authBounds.logins
  /\ ~right => authBudget.tries < authBounds.tries
  /\ authBudget' = [authBudget EXCEPT !.tries = @ + IF right THEN 0 ELSE 1]
  /\ worker' = [worker EXCEPT ![w] = [at |-> "hash", client |-> c, right |-> right, now |-> wall]]
  /\ IF Expired(c) THEN Forget(c) ELSE UNCHANGED attempts
  /\ ghost' = [ghost EXCEPT !.checked[c] = IF Waited(c) THEN 0 ELSE @]
  /\ UNCHANGED <<mono, wall, tokens>>

\* The hash is compared; a right one clears the count.
LoginVerifies(w) ==
  /\ worker[w].at = "hash"
  /\ LET c == worker[w].client
     IN IF worker[w].right
        THEN /\ worker' = [worker EXCEPT ![w].at = "issue"]
             /\ Forget(c) /\ ghost' = [ghost EXCEPT !.checked[c] = 0]
        ELSE /\ worker' = [worker EXCEPT ![w].at = "fail"]
             /\ ghost' = [ghost EXCEPT !.checked[c] = @ + 1] /\ UNCHANGED attempts
  /\ UNCHANGED <<mono, wall, tokens, authBudget>>

Sub(a, b) == IF a >= b THEN a - b ELSE 0

Recent(a, now) == a # None /\ (now < a.lockedUntil \/ Sub(now, a.last) < AttemptTtl)

\* One more failure at `now'; the threshold arms the lockout.
Counted(a, now) ==
  LET n == IF Recent(a, now) THEN a.count + 1 ELSE 1
  IN [count |-> n, last |-> now,
      lockedUntil |-> IF n >= MaxAttempts THEN now + LockoutSecs
                      ELSE IF Recent(a, now) THEN a.lockedUntil ELSE 0]

\* Old entries are dropped on the way.
RecordFailed(c, now) ==
  /\ attempts' = [d \in Clients |-> IF d = c THEN Counted(attempts[c], now)
                                    ELSE IF Recent(attempts[d], now) THEN attempts[d] ELSE None]
  /\ ghost' = [ghost EXCEPT !.checked = [d \in Clients |-> IF attempts[d] # None /\ ~Recent(attempts[d], now) THEN 0 ELSE @[d]]]

LoginFails(w) ==
  /\ worker[w].at = "fail"
  /\ RecordFailed(worker[w].client, worker[w].now)
  /\ worker' = [worker EXCEPT ![w] = Idle]
  /\ UNCHANGED <<mono, wall, tokens, authBudget>>

\* A PIN that is not six digits counts as a failure, locked or not.
MalformedPin(c) ==
  /\ authBudget.tries < authBounds.tries /\ authBudget' = [authBudget EXCEPT !.tries = @ + 1]
  /\ RecordFailed(c, wall)
  /\ UNCHANGED <<mono, wall, tokens, worker>>

(***************************************************************************)
(* Sessions.                                                               *)
(***************************************************************************)
Live == {t \in tokens : t.expires > mono}

Evict_OneLate(ts) == IF Cardinality(ts) > MaxTokens THEN {t \in ts : \E u \in ts : u.value < t.value} ELSE ts

\* A full table loses its oldest session.
Evict(ts) == IF Cardinality(ts) >= MaxTokens THEN {t \in ts : \E u \in ts : u.value < t.value} ELSE ts

Push(s) == Evict(Live) \cup {[value |-> s, expires |-> mono + TokenTtl]}

\* Ghost: the sessions newer than s that were used in time.  A login makes one more, and a
\* session with MAX_TOKENS such newer ones is pushed out.
InTime(session) == mono < session.used + TokenTtl
Newer(s) == {u \in DOMAIN ghost.sessions : s < u /\ InTime(ghost.sessions[u])}
Older == [s \in DOMAIN ghost.sessions |->
            [ghost.sessions[s] EXCEPT !.pushed = @ \/ Cardinality(Newer(s)) + 1 >= MaxTokens]]

LoginIssues(w) ==
  /\ worker[w].at = "issue" /\ Len(ghost.sessions) < authBounds.logins
  /\ LET s == Len(ghost.sessions) + 1
     IN /\ tokens' = Push(s)
        /\ ghost' = [ghost EXCEPT !.sessions = Append(Older, [used |-> mono, pushed |-> FALSE])]
  /\ worker' = [worker EXCEPT ![w] = Idle]
  /\ UNCHANGED <<mono, wall, attempts, authBudget>>

Accepts(s) == \E t \in Live : t.value = s

\* validate(): every accepted request slides its session's expiry.
Validate(s) ==
  /\ tokens' = {IF t.value = s THEN [t EXCEPT !.expires = mono + TokenTtl] ELSE t : t \in Live}
  /\ ghost' = IF Accepts(s) THEN [ghost EXCEPT !.sessions[s].used = mono] ELSE ghost
  /\ UNCHANGED <<mono, wall, attempts, worker, authBudget>>

AuthNext ==
  /\ \/ Second \/ ClockIsSet
     \/ \E w \in Workers : \/ \E c \in Clients, right \in BOOLEAN : LoginBegins(w, c, right)
                           \/ LoginVerifies(w) \/ LoginFails(w) \/ LoginIssues(w)
     \/ \E c \in Clients : MalformedPin(c)
     \/ \E s \in DOMAIN ghost.sessions : Validate(s)
  /\ UNCHANGED authBounds

AuthSpec == AuthInit /\ [][AuthNext]_authVars

(***************************************************************************)
(* Properties                                                              *)
(***************************************************************************)

\* auth.rs:15, ARCHITECTURE.md: the lockout bounds the wrong credentials that are compared
\* before a wait, also when all worker threads passed the lock together.  The wall clock
\* tells when the wait is over.
GuessesAreBounded ==
  \A c \in Clients : ghost.checked[c] <= MaxAttempts + Cardinality(Workers) - 1

\* auth.rs:28-30, 161-165, 198-202: exactly the sessions used in time are accepted that no
\* login pushed out, whatever the wall clock does.  A login pushes a session out when it makes
\* MAX_TOKENS newer ones that are still in time; one that outlived newer ones is kept.
SessionsAreExact ==
  \A s \in DOMAIN ghost.sessions :
    Accepts(s) <=> ~ghost.sessions[s].pushed /\ InTime(ghost.sessions[s])
===============================================================================
