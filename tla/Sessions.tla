------------------------------ MODULE Sessions ------------------------------
(***************************************************************************)
(* Device sessions of a user and the tokens of the app                     *)
(* (go_backend_rmt/internal/services/auth_service.go,                      *)
(* device_session_service.go, middleware/auth.go;                          *)
(* flutter_app/lib/core/api_client.dart, auth_repository.dart).            *)
(*                                                                         *)
(* A login counts the user's active sessions, revokes those seen least     *)
(* recently and inserts its own, in three statements.  The app stores an   *)
(* access and a refresh token; a call that is answered 401 waits for a     *)
(* refresh, which all calls share, and is sent again through the same      *)
(* interceptor.  The refresh looks at the account, never at the session.   *)
(*                                                                         *)
(* Simplifications:                                                        *)
(*   - a session is named by the login that made it, a token by its        *)
(*     session; a refresh token outlives the behaviour;                    *)
(*   - the three writes of a login to the secure storage are one step;     *)
(*   - idle_timeout is a choice: a session may be found idle when it is    *)
(*     used, whichever it is; that last_seen is throttled is another.      *)
(*                                                                         *)
(* Operators named Fault_... are used by no action: each is a wrong form   *)
(* of the definition after it, and some property must refute it.           *)
(***************************************************************************)
EXTENDS Naturals, Sequences, FiniteSets, SequencesExt

CONSTANTS
  Logins,       \* logins of the user, from any device
  Mine,         \* those of the app
  Calls,        \* calls of the app under way at a time
  MaxSessions,  \* max_sessions of the company, 0: no limit
  MaxExpiries,  \* bound: times an access token expires
  MaxCalls,     \* bound: calls that are begun
  NoLogin

ASSUME SessionConstants ==
  /\ Mine \subseteq Logins
  /\ {MaxSessions, MaxExpiries, MaxCalls} \subseteq Nat
  /\ NoLogin \notin Logins

VARIABLES
  account,   \* "active", or "locked"
  session,   \* session[l]: "none", "active" or "revoked"
  seen,      \* the sessions in the order of last_seen
  login,     \* login[l]: where the request is, the sessions it will revoke
  access,    \* the session of the access token in the secure storage
  expired,   \* whether it has expired
  refresh,   \* the session of the refresh token
  refreshing, \* the session a refresh in flight asks for, or NoLogin
  call,      \* call[c]: where the call is
  spent,     \* bound: expiries, calls begun
  crowded    \* history: two logins overlapped

server == <<account, session, seen>>
tokens == <<access, expired, refresh>>
sessionVars   == <<server, login, tokens, refreshing, call, spent, crowded>>

Active == {l \in Logins : session[l] = "active"}
Resting == [step |-> "idle"]

SessionsInit ==
  /\ account = "active"
  /\ session = [l \in Logins |-> "none"]
  /\ seen = <<>>
  /\ login = [l \in Logins |-> [step |-> "new"]]
  /\ access = NoLogin
  /\ expired = FALSE
  /\ refresh = NoLogin
  /\ refreshing = NoLogin
  /\ call = [c \in Calls |-> Resting]
  /\ spent = [expiries |-> 0, calls |-> 0]
  /\ crowded = FALSE

----------------------------------------------------------------------------
(* Login and logout                                                        *)

\* A login between its count and its insert.
Entering(k) == login[k].step \in {"revoke", "insert"}

\* Fault: room is not made for the new one.
Fault_Excess(n) == IF n > MaxSessions THEN n - MaxSessions ELSE 0

\* How many must go, of n active sessions.
Excess(n) == IF n >= MaxSessions THEN n - MaxSessions + 1 ELSE 0

SeenBefore(k, j) == \E m, n \in 1..Len(seen) : seen[m] = k /\ seen[n] = j /\ m < n

\* The sessions to revoke: as many as must go, those seen least recently.
LoginLook(l) ==
  /\ login[l].step = "new"
  /\ l \in Mine => access = NoLogin /\ refresh = NoLogin
  /\ account = "active"
  /\ \E gone \in SUBSET Active :
       /\ Cardinality(gone) = IF MaxSessions > 0 THEN Excess(Cardinality(Active)) ELSE 0
       /\ \A k \in gone, j \in Active \ gone : SeenBefore(k, j)
       /\ login' = [login EXCEPT ![l] =
            IF gone # {} THEN [step |-> "revoke", these |-> gone] ELSE [step |-> "insert"]]
  /\ crowded' = (crowded \/ \E k \in Logins : Entering(k))
  /\ UNCHANGED <<server, tokens, refreshing, call, spent>>

LoginRevoke(l) ==
  /\ login[l].step = "revoke"
  /\ session' = [k \in Logins |-> IF k \in login[l].these THEN "revoked" ELSE session[k]]
  /\ login' = [login EXCEPT ![l] = [step |-> "insert"]]
  /\ UNCHANGED <<account, seen, tokens, refreshing, call, spent, crowded>>

LoginInsert(l) ==
  /\ login[l].step = "insert"
  /\ session' = [session EXCEPT ![l] = "active"]
  /\ seen' = Append(seen, l)
  /\ login' = [login EXCEPT ![l] = [step |-> IF l \in Mine THEN "answer" ELSE "done"]]
  /\ UNCHANGED <<account, tokens, refreshing, call, spent, crowded>>

\* The request fails, or its answer is lost.
LoginFails(l) ==
  /\ login[l].step \in {"revoke", "insert", "answer"}
  /\ login' = [login EXCEPT ![l] = [step |-> "done"]]
  /\ UNCHANGED <<server, tokens, refreshing, call, spent, crowded>>

\* AuthRepository.login stores what it is given.
StoreTokens(l) ==
  /\ login[l].step = "answer"
  /\ access' = l /\ refresh' = l /\ expired' = FALSE
  /\ login' = [login EXCEPT ![l] = [step |-> "done"]]
  /\ UNCHANGED <<server, refreshing, call, spent, crowded>>

Purged == access' = NoLogin /\ refresh' = NoLogin /\ expired' = FALSE

\* AuthRepository.logout: the tokens go whether the server heard of it or not.
Logout(heard) ==
  /\ refresh # NoLogin
  /\ heard => access # NoLogin /\ ~expired /\ session[access] = "active"
  /\ session' = IF heard THEN [session EXCEPT ![access] = "revoked"] ELSE session
  /\ Purged
  /\ UNCHANGED <<account, seen, login, refreshing, call, spent, crowded>>

\* RevokeSession, from the page of device sessions.
RevokeSession(l) ==
  /\ session[l] = "active"
  /\ session' = [session EXCEPT ![l] = "revoked"]
  /\ UNCHANGED <<account, seen, login, tokens, refreshing, call, spent, crowded>>

LockAccount ==
  /\ account = "active"
  /\ account' = "locked"
  /\ UNCHANGED <<session, seen, login, tokens, refreshing, call, spent, crowded>>

----------------------------------------------------------------------------
(* Calls                                                                   *)

\* The interceptor's onRequest reads the access token and sends the call.
Send(c, again) ==
  call' = [call EXCEPT ![c] = [step |-> "sent", token |-> access, stale |-> expired,
                               wrong |-> again]]

\* wrong: VerifyCredentials with credentials that are not a manager's, which the
\* server answers 401 like a token it does not accept.
BeginCall(c, wrong) ==
  /\ call[c] = Resting
  /\ access # NoLogin
  /\ spent.calls < MaxCalls
  /\ spent' = [spent EXCEPT !.calls = @ + 1]
  /\ Send(c, wrong)
  /\ UNCHANGED <<server, login, tokens, refreshing, crowded>>

\* RequireAuth lets a call pass.
Passes(c) ==
  /\ call[c].token # NoLogin /\ ~call[c].stale
  /\ account = "active"
  /\ session[call[c].token] = "active"

Ends(c) == call' = [call EXCEPT ![c] = Resting]

\* The answer, the goroutine that updates last_seen, unless it is throttled, and
\* the idle session that is found to be one.
Served(c, touch) ==
  /\ call[c].step = "sent"
  /\ Passes(c) /\ ~call[c].wrong
  /\ seen' = IF touch THEN Append(SelectSeq(seen, LAMBDA k : k # call[c].token), call[c].token)
             ELSE seen
  /\ Ends(c)
  /\ UNCHANGED <<account, session, login, tokens, refreshing, spent, crowded>>

\* 401: the call joins the refresh in flight or starts one; without a refresh
\* token what is stored is purged.
Waits(c) == call' = [call EXCEPT ![c] = [step |-> "waiting", wrong |-> call[c].wrong]]

Unauthorized(c) ==
  IF refreshing # NoLogin THEN Waits(c) /\ UNCHANGED <<tokens, refreshing>>
  ELSE IF refresh # NoLogin THEN Waits(c) /\ refreshing' = refresh /\ UNCHANGED tokens
  ELSE Ends(c) /\ Purged /\ UNCHANGED refreshing

Rejected(c) ==
  /\ call[c].step = "sent"
  /\ ~Passes(c) \/ call[c].wrong
  /\ Unauthorized(c)
  /\ UNCHANGED <<server, login, spent, crowded>>

FoundIdle(c) ==
  /\ call[c].step = "sent"
  /\ Passes(c)
  /\ session' = [session EXCEPT ![call[c].token] = "revoked"]
  /\ Unauthorized(c)
  /\ UNCHANGED <<account, seen, login, spent, crowded>>

\* The network, or the rate limiter's 429.
CallFails(c) ==
  /\ call[c].step = "sent"
  /\ Ends(c)
  /\ UNCHANGED <<server, login, tokens, refreshing, spent, crowded>>

Waiting == {c \in Calls : call[c].step = "waiting"}

\* A refresh succeeds as long as the account is active, and each call that waits
\* is sent again;
Refreshed ==
  /\ refreshing # NoLogin
  /\ account = "active"
  /\ access' = refreshing /\ expired' = FALSE
  /\ refreshing' = NoLogin
  /\ call' = [c \in Calls |-> IF c \in Waiting
                THEN [step |-> "sent", token |-> refreshing, stale |-> FALSE,
                      wrong |-> call[c].wrong]
                ELSE call[c]]
  /\ UNCHANGED <<server, login, refresh, spent, crowded>>

\* Fault: the completer of the refresh is never completed.
Fault_GiveUp == UNCHANGED call

GiveUp == call' = [c \in Calls |-> IF c \in Waiting THEN Resting ELSE call[c]]

\* is refused, which signs the app out;
RefreshRefused ==
  /\ refreshing # NoLogin
  /\ account = "locked"
  /\ Purged
  /\ refreshing' = NoLogin
  /\ GiveUp
  /\ UNCHANGED <<server, login, spent, crowded>>

\* or does not get through, which leaves the tokens.
RefreshFails ==
  /\ refreshing # NoLogin
  /\ refreshing' = NoLogin
  /\ GiveUp
  /\ UNCHANGED <<server, login, tokens, spent, crowded>>

Expire ==
  /\ access # NoLogin /\ ~expired
  /\ spent.expiries < MaxExpiries
  /\ expired' = TRUE
  /\ spent' = [spent EXCEPT !.expiries = @ + 1]
  /\ UNCHANGED <<server, login, access, refresh, refreshing, call, crowded>>

----------------------------------------------------------------------------

SessionsNext ==
  \/ \E l \in Logins : \/ LoginLook(l) \/ LoginRevoke(l) \/ LoginInsert(l)
                       \/ LoginFails(l) \/ StoreTokens(l) \/ RevokeSession(l)
  \/ \E heard \in BOOLEAN : Logout(heard)
  \/ LockAccount \/ Expire
  \/ \E c \in Calls :
       \/ \E wrong \in BOOLEAN : BeginCall(c, wrong)
       \/ \E touch \in BOOLEAN : Served(c, touch)
       \/ Rejected(c) \/ FoundIdle(c) \/ CallFails(c)
  \/ Refreshed \/ RefreshRefused \/ RefreshFails

\* The server answers what reaches it, or the request fails.
Fairness ==
  /\ \A c \in Calls : WF_sessionVars((\E touch \in BOOLEAN : Served(c, touch)) \/ Rejected(c))
  /\ WF_sessionVars(Refreshed \/ RefreshRefused)

SessionsSpec == SessionsInit /\ [][SessionsNext]_sessionVars /\ Fairness

----------------------------------------------------------------------------
(* Properties                                                              *)

\* The user has no more sessions than the company allows, unless two of his logins
\* overlapped (GetMaxSessions in Login).
SessionLimit ==
  MaxSessions > 0 /\ ~crowded => Cardinality(Active) <= MaxSessions

\* What no refresh can help: a session that is not active, of an account that is,
\* and credentials that are wrong.
Doomed(c) ==
  \/ call[c].step # "idle" /\ call[c].wrong
  \/ account = "active" /\ refresh # NoLogin /\ session[refresh] # "active"
  \/ account = "active" /\ refreshing # NoLogin /\ session[refreshing] # "active"

\* A call of the app is answered, or fails, in the end, if it is not one that is
\* refreshed and sent again for ever (api_client.dart, onError).
CallsEnd ==
  \A c \in Calls : (call[c] # Resting) ~> (call[c] = Resting \/ Doomed(c))
=============================================================================
