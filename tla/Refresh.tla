------------------------------ MODULE Refresh -------------------------------
(***************************************************************************)
(* Sessions and refresh: LoginHandler, LogoutHandler and RefreshHandler    *)
(* with what a refresh goes through, the IdempotencyCoordinator, the hot   *)
(* store in Valkey behind its circuit breaker, DurableExecutionService     *)
(* with its fence on the idempotency key, and the AuthSession aggregate.   *)
(*                                                                         *)
(* A database transaction and a Valkey script are one step each.  Leases,  *)
(* result TTLs, retention and session lifetimes are modelled without a     *)
(* clock: what may expire may do so at any time.  A request's owner token  *)
(* is modelled by its handler.  All sessions belong to one account, as no  *)
(* step relates two accounts.                                              *)
(***************************************************************************)
EXTENDS Naturals, FiniteSets

CONSTANTS
    Key,        \* idempotency keys
    Token,      \* bound: the refresh tokens that can be issued; the first one
                \* of a session also names the session.  A login or rotation
                \* that finds none left cannot be completed.
    Handler,    \* concurrent refresh requests
    HotKey,     \* bound: the keys whose requests may reach a hot store; with {} the
                \* coordinator has none
    None,
    Rejected    \* the result REJECTED_RESULT

ASSUME RefreshAssumption ==
    /\ None \notin Key \cup Token \cup Handler \cup {Rejected}
    /\ Rejected \notin Token
    /\ HotKey \subseteq Key

VARIABLES
    sessions,   \* table auth_sessions
    tokens,     \* table refresh_tokens
    records,    \* table idempotency_records
    hot,        \* the Valkey hashes
    handler,    \* the refresh requests and their last answers
    enabled,    \* whether the account can authenticate
    login       \* a login that has verified the password

vars == <<sessions, tokens, records, hot, handler, enabled, login>>

database == <<sessions, tokens, records, enabled>>

SessionState == {"absent", "active", "idle", "revoked"}

\* from is history: the key and the token whose rotation issued this token.
RefreshToken ==
    [session : Token \cup {None}, used : BOOLEAN,
     from : [key : Key \cup {None}, token : Token \cup {None}]]

Result == Token \cup {Rejected}

NoRecord == [state |-> "absent", token |-> None, result |-> None]

Record ==
    {NoRecord} \cup
    [state : {"live", "expired"}, token : Token, result : Result]

NoEntry == [state |-> "absent", token |-> None, owner |-> None, result |-> None]

\* The shapes _BEGIN_SCRIPT accepts; any other is reported as corrupted.
HotEntry ==
    {NoEntry} \cup
    [state : {"processing"}, token : Token \cup {None}, owner : Handler, result : {None}]
        \cup
    [state : {"completed"}, token : Token, owner : {None}, result : Result]

\* "error" is any exception the client can expect: a conflict, invalid credentials,
\* a request in progress, a dependency that is unavailable.  "broken" is the
\* RuntimeError of execute_once.
Outcome == {"none", "done", "race", "error", "broken"}

HandlerState ==
    [pc : {"idle", "begin", "peek", "lookup", "execute", "relookup", "settle", "check"},
     key : Key \cup {None}, token : Token \cup {None},
     lease : {"none", "held"},
     outcome : Outcome,     \* what is to be answered or raised
     result : Result \cup {None},
     answer : {"none", "ok", "broken"}]     \* kept of the last request, if it was
                                            \* given a pair or met the RuntimeError

NoOrigin == [key |-> None, token |-> None]

NoToken == [session |-> None, used |-> FALSE, from |-> NoOrigin]

NoRequest == [pc |-> "idle", key |-> None, token |-> None, lease |-> "none",
              outcome |-> "none", result |-> None, answer |-> "none"]

TypeOK ==
    /\ sessions \in [Token -> SessionState]
    /\ tokens \in [Token -> RefreshToken]
    /\ records \in [Key -> Record]
    /\ hot \in [Key -> HotEntry]
    /\ handler \in [Handler -> HandlerState]
    /\ enabled \in BOOLEAN
    /\ login \in BOOLEAN

Init ==
    /\ sessions = [t \in Token |-> "absent"]
    /\ tokens = [t \in Token |-> NoToken]
    /\ records = [k \in Key |-> NoRecord]
    /\ hot = [k \in Key |-> NoEntry]
    /\ handler = [h \in Handler |-> NoRequest]
    /\ enabled = TRUE
    /\ login = FALSE

-----------------------------------------------------------------------------
(* AuthSession and its repository                                          *)

Issued == {t \in Token : tokens[t].session # None}

Fresh == Token \ Issued

\* Faulty variant: revocation is not looked at.
IsActiveUnlessIdle(s) == sessions[s] \in {"active", "revoked"}

\* is_active
IsActive(s) == sessions[s] = "active"

\* start, create
Start(t) ==
    /\ sessions' = [sessions EXCEPT ![t] = "active"]
    /\ tokens' = [tokens EXCEPT ![t] = [NoToken EXCEPT !.session = t]]

\* Faulty variant: the presented token is not consumed.
RotateUnconsumed(k, u, t) ==
    /\ tokens' = [tokens EXCEPT ![t] = [session |-> tokens[u].session, used |-> FALSE,
                                        from |-> [key |-> k, token |-> u]]]
    /\ UNCHANGED sessions

\* rotate, save: u is consumed and t takes its place
Rotate(k, u, t) ==
    /\ tokens' = [tokens EXCEPT ![u].used = TRUE,
                                ![t] = [session |-> tokens[u].session, used |-> FALSE,
                                        from |-> [key |-> k, token |-> u]]]
    /\ UNCHANGED sessions

\* Faulty variant: the refusal is not saved.
RevokeUnsaved(s) == UNCHANGED <<sessions, tokens>>

\* revoke, save
Revoke(s) ==
    /\ sessions' = [sessions EXCEPT ![s] = "revoked"]
    /\ UNCHANGED tokens

-----------------------------------------------------------------------------
(* LoginHandler, LogoutHandler, the account                                *)

\* The first transaction of a login and the verification of the password.
LoginVerify ==
    /\ ~login
    /\ enabled
    /\ Fresh # {}
    /\ login' = TRUE
    /\ UNCHANGED <<database, hot, handler>>

\* Faulty variant: what the first transaction read is trusted.
LoginCommitTrusting ==
    /\ login
    /\ login' = FALSE
    /\ \E t \in Fresh : Start(t)
    /\ UNCHANGED <<records, enabled, hot, handler>>

\* The second transaction, with the account read again under its lock.
LoginCommit ==
    /\ login
    /\ login' = FALSE
    /\ \/ enabled /\ \E t \in Fresh : Start(t)
       \/ ~enabled /\ UNCHANGED <<sessions, tokens>>
    /\ UNCHANGED <<records, enabled, hot, handler>>

Logout(t) ==
    /\ t \in Issued
    /\ Revoke(tokens[t].session)
    /\ UNCHANGED <<records, enabled, hot, handler, login>>

\* User.disable
Disable ==
    /\ enabled
    /\ enabled' = FALSE
    /\ UNCHANGED <<sessions, tokens, records, hot, handler, login>>

-----------------------------------------------------------------------------
(* RefreshHandler: the request and its answers                             *)

\* The request has failed.
Answered(outcome) ==
    [NoRequest EXCEPT !.answer = IF outcome = "broken" THEN "broken" ELSE "none"]

\* The coordinator has returned or raised.
Conclude(state) ==
    IF state.outcome = "done" THEN [state EXCEPT !.pc = "check", !.lease = "none"]
    ELSE Answered(state.outcome)

\* execute_once has returned or raised: with a lease, the hot entry comes first.
AfterDurable(state) ==
    IF state.lease = "none" THEN Conclude(state) ELSE [state EXCEPT !.pc = "settle"]

Done(state, result) == [state EXCEPT !.outcome = "done", !.result = result]

\* Faulty variant: the request hash is not compared.
ClassifyByKey(state) == Done(state, records[state.key].result)

\* _classify: another token under the key is a conflict
Classify(state) ==
    IF records[state.key].token = state.token
    THEN Done(state, records[state.key].result)
    ELSE [state EXCEPT !.outcome = "error"]

\* get_completed: an expired row is not returned.
Found(k) == records[k].state = "live"

\* A client sends a command, with a token it was given or one that never was.
Send(h, k, u) ==
    /\ handler[h].pc = "idle"
    /\ u \in Issued \cup {None}
    /\ handler' = [handler EXCEPT ![h] =
                    [NoRequest EXCEPT !.pc = "begin", !.key = k, !.token = u]]
    /\ UNCHANGED <<database, hot, login>>

-----------------------------------------------------------------------------
(* IdempotencyCoordinator.execute and the hot store                        *)

Processing(h, u) ==
    [state |-> "processing", token |-> u, owner |-> h, result |-> None]

\* _BEGIN_SCRIPT and what the coordinator makes of its reply
Begin(h) ==
    LET k == handler[h].key
        u == handler[h].token
        entry == hot[k]
    IN
    /\ handler[h].pc = "begin"
    /\ k \in HotKey
    /\ hot' = IF entry.state = "absent" THEN [hot EXCEPT ![k] = Processing(h, u)] ELSE hot
    /\ handler' = [handler EXCEPT ![h] =
        CASE entry.state = "absent" -> [@ EXCEPT !.pc = "lookup", !.lease = "held"]
          [] entry.state # "absent" /\ entry.token # u -> Answered("error")
          [] entry.state = "completed" /\ entry.token = u -> Conclude(Done(@, entry.result))
          [] entry.state = "processing" /\ entry.token = u -> [@ EXCEPT !.pc = "peek"]]
    /\ UNCHANGED <<database, login>>

\* No hot store, or IdempotencyStorageUnavailableError from Valkey or from the
\* open breaker: the durable path alone.  The script may have run all the same.
BeginUnavailable(h) ==
    LET k == handler[h].key IN
    /\ handler[h].pc = "begin"
    /\ handler' = [handler EXCEPT ![h].pc = "lookup"]
    /\ \/ UNCHANGED hot
       \/ /\ k \in HotKey /\ hot[k].state = "absent"
          /\ hot' = [hot EXCEPT ![k] = Processing(h, handler[h].token)]
    /\ UNCHANGED <<database, login>>

\* IN_PROGRESS: the owner may have committed without telling the hot store.
Peek(h) ==
    /\ handler[h].pc = "peek"
    /\ handler' = [handler EXCEPT ![h] =
                    IF Found(@.key) THEN Conclude(Classify(@))
                    ELSE Answered("error")]
    /\ UNCHANGED <<database, hot, login>>

\* _heartbeat: a renewal found another owner, or failed.  Without its lease
\* the request leaves the hot store alone from now on.
LoseLease(h) ==
    /\ handler[h].pc \in {"lookup", "execute", "relookup"}
    /\ handler[h].lease = "held"
    /\ handler' = [handler EXCEPT ![h].lease = "none"]
    /\ UNCHANGED <<database, hot, login>>

\* the condition of _COMPLETE_SCRIPT and of _ABANDON_SCRIPT
OwnsEntry(h) ==
    LET entry == hot[handler[h].key] IN
    entry.state = "processing" /\ entry.owner = h

\* Faulty variant: the owner token is left in the completed hash.
CompletedEntryOwned(h) ==
    LET entry == hot[handler[h].key] IN
    IF OwnsEntry(h) /\ entry.token = handler[h].token
    THEN [entry EXCEPT !.state = "completed", !.result = handler[h].result]
    ELSE entry

\* Faulty variant: an expired owner overwrites the entry of the next request.
CompletedEntryUnfenced(h) ==
    LET entry == hot[handler[h].key] IN
    IF entry.state = "processing"
    THEN [entry EXCEPT !.state = "completed", !.owner = None, !.result = handler[h].result]
    ELSE entry

\* _COMPLETE_SCRIPT
CompletedEntry(h) ==
    LET entry == hot[handler[h].key] IN
    IF OwnsEntry(h) /\ entry.token = handler[h].token
    THEN [entry EXCEPT !.state = "completed", !.owner = None, !.result = handler[h].result]
    ELSE entry

\* _ABANDON_SCRIPT
AbandonedEntry(h) == IF OwnsEntry(h) THEN NoEntry ELSE hot[handler[h].key]

Settle(h) ==
    /\ handler[h].pc = "settle"
    /\ hot' = [hot EXCEPT ![handler[h].key] =
                IF handler[h].outcome = "done" THEN CompletedEntry(h) ELSE AbandonedEntry(h)]
    /\ handler' = [handler EXCEPT ![h] = Conclude(@)]
    /\ UNCHANGED <<database, login>>

SettleUnavailable(h) ==
    /\ handler[h].pc = "settle"
    /\ handler' = [handler EXCEPT ![h] = Conclude(@)]
    /\ UNCHANGED <<database, hot, login>>

-----------------------------------------------------------------------------
(* DurableExecutionService.execute_once with TransactionalRefreshOperation *)

Lookup(h) ==
    /\ handler[h].pc = "lookup"
    /\ handler' = [handler EXCEPT ![h] =
                    IF Found(@.key) THEN AfterDurable(Classify(@))
                    ELSE [@ EXCEPT !.pc = "execute"]]
    /\ UNCHANGED <<database, hot, login>>

\* No such token, or an unused one of a session that is over.
Raises(u) == u \in Issued => ~tokens[u].used /\ ~IsActive(tokens[u].session)

\* accepts_refresh returns FALSE: reuse, or an account that is disabled.
Refuses(u) == tokens[u].used \/ ~enabled

\* What the operation stages, with the result it returns.
Effect(k, u, result) ==
    /\ ~Raises(u)
    /\ \/ Refuses(u) /\ result = Rejected /\ Revoke(tokens[u].session)
       \/ ~Refuses(u) /\ result \in Fresh /\ Rotate(k, u, result)

\* try_add_completed finds no row under the key, and the transaction commits.
Commit(k, u, result) ==
    /\ records[k].state = "absent"
    /\ Effect(k, u, result)
    /\ records' = [records EXCEPT ![k] = [state |-> "live", token |-> u,
                                          result |-> result]]

\* Faulty variant: the staged writes are committed although the fence is lost.
LoseFenceCommitting(k, u) ==
    /\ records[k].state # "absent"
    /\ \E result \in Token \cup {Rejected} : Effect(k, u, result)
    /\ UNCHANGED records

\* _ConcurrentWinnerCommitted rolls back what was staged.
LoseFence(k, u) ==
    /\ records[k].state # "absent"
    /\ ~Raises(u)
    /\ UNCHANGED <<sessions, tokens, records>>

Rechecking(state, outcome) == [state EXCEPT !.pc = "relookup", !.outcome = outcome]

Execute(h) ==
    LET k == handler[h].key
        u == handler[h].token
    IN
    /\ handler[h].pc = "execute"
    /\ \/ /\ Raises(u)
          /\ handler' = [handler EXCEPT ![h] = Rechecking(@, "error")]
          /\ UNCHANGED <<sessions, tokens, records>>
       \/ /\ LoseFence(k, u)
          /\ handler' = [handler EXCEPT ![h] = Rechecking(@, "race")]
       \/ \E result \in Token \cup {Rejected} :
            /\ Commit(k, u, result)
            /\ handler' = [handler EXCEPT ![h] = AfterDurable(Done(@, result))]
    /\ UNCHANGED <<enabled, hot, login>>

\* The transaction failed, or committed and the answer was lost.
ExecuteUncertain(h) ==
    /\ handler[h].pc = "execute"
    /\ \/ UNCHANGED <<sessions, tokens, records>>
       \/ \E result \in Token \cup {Rejected} :
            Commit(handler[h].key, handler[h].token, result)
    /\ handler' = [handler EXCEPT ![h] = Rechecking(@, "error")]
    /\ UNCHANGED <<enabled, hot, login>>

\* Without a winner the error stands, and a lost race becomes "idempotency
\* unique conflict without a committed winner".
WithoutWinner(state) == [state EXCEPT !.outcome = IF @ = "race" THEN "broken" ELSE @]

Relookup(h) ==
    /\ handler[h].pc = "relookup"
    /\ handler' = [handler EXCEPT ![h] =
                    AfterDurable(IF Found(@.key) THEN Classify(@) ELSE WithoutWinner(@))]
    /\ UNCHANGED <<database, hot, login>>

Unread(state) == [state EXCEPT !.outcome = IF @ \in {"none", "race"} THEN "error" ELSE @]

\* One of the short read transactions raised.
ReadFails(h) ==
    /\ handler[h].pc \in {"peek", "lookup", "relookup", "check"}
    /\ handler' = [handler EXCEPT ![h] =
                    IF @.pc \in {"peek", "check"} THEN Answered("error")
                    ELSE AfterDurable(Unread(@))]
    /\ UNCHANGED <<database, hot, login>>

-----------------------------------------------------------------------------
(* RefreshHandler: the answer                                              *)

\* can_replay
CanReplay(t) == ~tokens[t].used /\ IsActive(tokens[t].session)

Usable(h) == handler[h].result # Rejected /\ CanReplay(handler[h].result)

Check(h) ==
    /\ handler[h].pc = "check"
    /\ handler' = [handler EXCEPT ![h] =
                    IF Usable(h) THEN [@ EXCEPT !.pc = "idle", !.outcome = "none",
                                                !.answer = "ok"]
                    ELSE Answered("error")]
    /\ UNCHANGED <<database, hot, login>>

\* The envelope cannot be opened any more.
ReplayUnavailable(h) ==
    /\ handler[h].pc = "check"
    /\ Usable(h)
    /\ handler' = [handler EXCEPT ![h] = Answered("error")]
    /\ UNCHANGED <<database, hot, login>>

\* The process dies, and the hot entry stays behind.
Crash(h) ==
    /\ handler[h].pc # "idle"
    /\ handler' = [handler EXCEPT ![h] = Answered("error")]
    /\ UNCHANGED <<database, hot, login>>

\* The request is cancelled inside execute_once: BaseException abandons.
CancelRequest(h) ==
    /\ handler[h].pc \in {"lookup", "execute", "relookup"}
    /\ handler[h].lease = "held"
    /\ hot' = [hot EXCEPT ![handler[h].key] = AbandonedEntry(h)]
    /\ handler' = [handler EXCEPT ![h] = Answered("error")]
    /\ UNCHANGED <<database, login>>

-----------------------------------------------------------------------------
(* Time                                                                    *)

HotExpires(k) ==
    /\ hot[k].state # "absent"
    /\ hot' = [hot EXCEPT ![k] = NoEntry]
    /\ UNCHANGED <<database, handler, login>>

\* now >= idle_expires_at
SessionIdles(s) ==
    /\ sessions[s] = "active"
    /\ sessions' = [sessions EXCEPT ![s] = "idle"]
    /\ UNCHANGED <<tokens, records, enabled, hot, handler, login>>

\* now >= expires_at
RecordExpires(k) ==
    /\ records[k].state = "live"
    /\ records' = [records EXCEPT ![k].state = "expired"]
    /\ UNCHANGED <<sessions, tokens, enabled, hot, handler, login>>

\* delete_expired
DeleteExpired(k) ==
    /\ records[k].state = "expired"
    /\ records' = [records EXCEPT ![k] = NoRecord]
    /\ UNCHANGED <<sessions, tokens, enabled, hot, handler, login>>

Accounts == LoginVerify \/ LoginCommit \/ Disable \/ \E t \in Token : Logout(t)

Step(h) ==
    \/ Begin(h) \/ Peek(h) \/ Lookup(h) \/ Execute(h) \/ Relookup(h)
    \/ Settle(h) \/ Check(h)

Trouble(h) ==
    \/ BeginUnavailable(h) \/ LoseLease(h) \/ SettleUnavailable(h)
    \/ ExecuteUncertain(h) \/ ReadFails(h) \/ ReplayUnavailable(h)
    \/ Crash(h) \/ CancelRequest(h)

Expiry ==
    \/ \E k \in Key : HotExpires(k) \/ RecordExpires(k) \/ DeleteExpired(k)
    \/ \E s \in Token : SessionIdles(s)

Next ==
    \/ Accounts
    \/ \E h \in Handler, k \in Key, u \in Token \cup {None} : Send(h, k, u)
    \/ \E h \in Handler : Step(h) \/ Trouble(h)
    \/ Expiry

Spec == Init /\ [][Next]_vars
-----------------------------------------------------------------------------
(* Properties                                                              *)

Family(s) == {t \in Token : tokens[t].session = s}

\* Rotation replaces: whatever requests race, a session always has exactly one
\* token that has not been used.
OneLiveToken ==
    \A s \in Token : sessions[s] # "absent" =>
        Cardinality({t \in Family(s) : ~tokens[t].used}) = 1

\* A token pair is only handed to a request that presented the very token and
\* key whose rotation issued it: fresh, replayed from the database or replayed
\* from Valkey, under retries, lost leases and reused keys.
PairBelongsToRequest ==
    \A h \in Handler : handler[h].answer = "ok" =>
        tokens[handler[h].result].from = [key |-> handler[h].key, token |-> handler[h].token]

\* A completed hot entry holds the committed result of its own key and token.
HotResultIsCommitted ==
    \A k \in Key : hot[k].state = "completed" /\ hot[k].result # Rejected =>
        tokens[hot[k].result].from = [key |-> k, token |-> hot[k].token]

\* A refusal is a committed result, not an exception that rolls back: once it
\* is recorded, the family of the presented token is revoked.
RefusalRevokesFamily ==
    \A k \in Key : records[k].state # "absent" /\ records[k].result = Rejected =>
        sessions[tokens[records[k].token].session] = "revoked"

\* Retrying is safe: while the rotation of a token is on record under a key, a
\* request with that key and token never revokes the session, although it may
\* find the token used because the winner committed first.
RetryNeverRevokes ==
    [][\A h \in Handler, k \in Key :
          /\ handler'[h] # handler[h] /\ handler[h].key = k
          /\ records[k].token = handler[h].token /\ records[k].result \in Token
          => sessions' = sessions]_vars

\* Revocation is final: no session comes back and none of its tokens changes.
RevocationIsFinal ==
    [][\A s \in Token : sessions[s] = "revoked" =>
          sessions'[s] = "revoked" /\ \A t \in Token :
              tokens[t].session = s \/ tokens'[t].session = s => tokens'[t] = tokens[t]]_vars

\* LoginHandler reads the account again under its lock: a session never starts
\* for an account that was disabled while the password was being verified.
NoSessionForDisabled ==
    [][\A s \in Token : sessions[s] = "absent" /\ sessions'[s] # "absent" => enabled]_vars

\* DurableExecutionService takes it for granted that a conflict on the unique
\* key has a committed winner that can be read.
FenceHasWinner == \A h \in Handler : handler[h].answer # "broken"
=============================================================================
