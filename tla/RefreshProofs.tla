---------------------------- MODULE RefreshProofs ---------------------------
(***************************************************************************)
(* Rotation, reuse detection and replay are correct for every number of    *)
(* keys, tokens, concurrent requests and hot keys.                         *)
(***************************************************************************)
EXTENDS Refresh, FiniteSetTheorems, TLAPS

\* What tables auth_sessions and refresh_tokens promise: a token is blank until
\* it is issued, belongs to a session that exists, and is the only unused one of
\* it or has been used.
SessionInv ==
    /\ sessions \in [Token -> SessionState]
    /\ tokens \in [Token -> RefreshToken]
    /\ \A t \in Token : tokens[t].session = None => tokens[t] = NoToken /\ sessions[t] = "absent"
    /\ \A t \in Token : tokens[t].session # None => sessions[tokens[t].session] # "absent"
    /\ \A s \in Token : sessions[s] # "absent" =>
         \E l \in Token : \A t \in Token :
             tokens[t].session = s /\ ~tokens[t].used <=> t = l

Origin(k, u) == [key |-> k, token |-> u]

\* What a row of idempotency_records promises of the tables it was committed
\* with.
RecordInv(k) ==
    /\ records[k] \in Record
    /\ records[k].state # "absent" =>
         /\ records[k].token \in Issued
         /\ records[k].result = Rejected =>
              sessions[tokens[records[k].token].session] = "revoked"
         /\ records[k].result # Rejected =>
              tokens[records[k].result].from = Origin(k, records[k].token)

\* What no step does to the tables, whoever takes it.
Grows ==
    /\ \A t \in Issued : tokens'[t].session = tokens[t].session /\ tokens'[t].from = tokens[t].from
    /\ \A s \in Token : sessions[s] = "revoked" =>
         sessions'[s] = "revoked" /\ \A t \in Token :
             tokens[t].session = s \/ tokens'[t].session = s => tokens'[t] = tokens[t]

-----------------------------------------------------------------------------
(* Steps on the tables                                                     *)

\* AuthSession.start.
LEMMA StartStep ==
    ASSUME SessionInv, NEW t \in Fresh, Start(t)
    PROVE  SessionInv' /\ Grows
<1> USE RefreshAssumption
<1> DEFINE new == [NoToken EXCEPT !.session = t]
<1>1. /\ t \in Token /\ tokens[t].session = None /\ sessions[t] = "absent"
  BY DEF Fresh, Issued, SessionInv
<1>2. /\ new \in RefreshToken /\ new.session = t /\ new.used = FALSE
  BY <1>1, Zenon DEF NoToken, NoOrigin, RefreshToken
<1>3. /\ sessions' = [sessions EXCEPT ![t] = "active"]
      /\ tokens' = [tokens EXCEPT ![t] = new]
  BY DEF Start
<1> HIDE DEF new
<1>4. /\ sessions' \in [Token -> SessionState] /\ tokens' \in [Token -> RefreshToken]
      /\ sessions'[t] = "active" /\ tokens'[t] = new
      /\ \A s \in Token \ {t} : sessions'[s] = sessions[s] /\ tokens'[s] = tokens[s]
  BY <1>1, <1>2, <1>3 DEF SessionInv, SessionState
<1>5. \A s \in Token : tokens[s].session # t
  BY <1>1 DEF SessionInv
<1>6. ASSUME NEW s \in Token, sessions'[s] # "absent"
      PROVE  \E l \in Token : \A x \in Token : tokens'[x].session = s /\ ~tokens'[x].used <=> x = l
  <2>1. CASE s = t
    <3>1. \A x \in Token : tokens'[x].session = s /\ ~tokens'[x].used <=> x = t
      BY <1>1, <1>2, <1>4, <1>5, <2>1
    <3> QED
      BY <1>1, <3>1
  <2>2. CASE s # t
    <3>1. PICK l \in Token : \A x \in Token : tokens[x].session = s /\ ~tokens[x].used <=> x = l
      BY <1>4, <1>6, <2>2 DEF SessionInv
    <3>2. \A x \in Token : tokens'[x].session = s /\ ~tokens'[x].used <=> x = l
      BY <1>1, <1>2, <1>4, <2>2, <3>1
    <3> QED
      BY <3>2
  <2> QED
    BY <2>1, <2>2
<1>7. \A x \in Token : tokens'[x].session = None => tokens'[x] = NoToken /\ sessions'[x] = "absent"
  BY <1>1, <1>2, <1>4 DEF SessionInv
<1>8. \A x \in Token : tokens'[x].session # None => sessions'[tokens'[x].session] # "absent"
  <2> SUFFICES ASSUME NEW x \in Token, tokens'[x].session # None
               PROVE  sessions'[tokens'[x].session] # "absent"
    OBVIOUS
  <2>1. CASE x = t
    BY <1>2, <1>4, <2>1
  <2>2. CASE x # t
    <3>1. tokens'[x] = tokens[x] /\ tokens[x].session \in Token /\ tokens[x].session # t
      BY <1>4, <1>5, <2>2 DEF SessionInv, RefreshToken
    <3> QED
      BY <1>4, <3>1 DEF SessionInv
  <2> QED
    BY <2>1, <2>2
<1>9. SessionInv'
  BY <1>4, <1>6, <1>7, <1>8 DEF SessionInv
<1>10. Grows
  BY <1>1, <1>2, <1>4, <1>5 DEF Grows, Issued
<1> QED
  BY <1>9, <1>10

\* AuthSession.revoke, and the passing of the idle timeout.
LEMMA SessionEndsStep ==
    ASSUME SessionInv, NEW s \in Token, sessions[s] # "absent", NEW state \in SessionState,
           state # "absent", sessions[s] = "revoked" => state = "revoked",
           sessions' = [sessions EXCEPT ![s] = state], tokens' = tokens
    PROVE  SessionInv' /\ Grows
<1>1. /\ sessions' \in [Token -> SessionState]
      /\ \A x \in Token : sessions'[x] = "absent" <=> sessions[x] = "absent"
      /\ \A x \in Token : sessions[x] = "revoked" => sessions'[x] = "revoked"
  BY DEF SessionInv
<1>2. \A x \in Token : tokens[x].session # None => tokens[x].session \in Token
  BY DEF SessionInv, RefreshToken
<1>3. SessionInv'
  BY <1>1, <1>2 DEF SessionInv
<1>4. Grows
  BY <1>1 DEF Grows, Issued
<1> QED
  BY <1>3, <1>4

\* AuthSession.rotate, of an unused token of an active session.
LEMMA RotateStep ==
    ASSUME SessionInv, NEW k \in Key, NEW u \in Issued, NEW t \in Fresh,
           ~tokens[u].used, IsActive(tokens[u].session), Rotate(k, u, t)
    PROVE  SessionInv' /\ Grows /\ tokens'[t].from = Origin(k, u) /\ t \in Issued'
<1> USE RefreshAssumption
<1> DEFINE s == tokens[u].session
           new == [session |-> s, used |-> FALSE, from |-> [key |-> k, token |-> u]]
           old == [tokens[u] EXCEPT !.used = TRUE]
<1>1. /\ t \in Token /\ u \in Token /\ u # t /\ s \in Token /\ sessions[s] = "active"
      /\ tokens[t].session = None /\ sessions[t] = "absent" /\ tokens[u] \in RefreshToken
  BY DEF Fresh, Issued, SessionInv, RefreshToken, IsActive
<1>2. /\ new \in RefreshToken /\ new.session = s /\ new.used = FALSE
      /\ new.from = Origin(k, u)
  BY <1>1, Zenon DEF RefreshToken, Origin
<1>3. /\ old \in RefreshToken /\ old.session = s /\ old.used = TRUE /\ old.from = tokens[u].from
  BY <1>1, Zenon DEF RefreshToken
<1>4. tokens' = [[tokens EXCEPT ![u] = old] EXCEPT ![t] = new] /\ sessions' = sessions
  BY DEF Rotate
<1> HIDE DEF new, old, s
<1>5. /\ tokens' \in [Token -> RefreshToken]
      /\ tokens'[t] = new /\ tokens'[u] = old
      /\ \A x \in Token \ {t, u} : tokens'[x] = tokens[x]
  BY <1>1, <1>2, <1>3, <1>4 DEF SessionInv
<1>s. tokens[u].session = s
  BY DEF s
<1>6. ASSUME NEW x \in Token, sessions[x] # "absent"
      PROVE  \E l \in Token : \A y \in Token : tokens'[y].session = x /\ ~tokens'[y].used <=> y = l
  <2>1. PICK l \in Token : \A y \in Token : tokens[y].session = x /\ ~tokens[y].used <=> y = l
    BY <1>6 DEF SessionInv
  <2>2. CASE x = s
    <3>1. l = u
      BY <1>1, <1>s, <2>1, <2>2
    <3>2. \A y \in Token : tokens'[y].session = x /\ ~tokens'[y].used <=> y = t
      BY <1>1, <1>2, <1>3, <1>5, <2>1, <2>2, <3>1
    <3> QED
      BY <1>1, <3>2
  <2>3. CASE x # s
    <3>1. \A y \in Token : tokens'[y].session = x /\ ~tokens'[y].used <=> y = l
      BY <1>1, <1>2, <1>3, <1>5, <1>s, <2>1, <2>3
    <3> QED
      BY <3>1
  <2> QED
    BY <2>2, <2>3
<1>7. SessionInv'
  BY <1>1, <1>2, <1>3, <1>4, <1>5, <1>6, <1>s DEF SessionInv
<1>8. Grows
  BY <1>1, <1>2, <1>3, <1>4, <1>5, <1>s DEF Grows, Issued
<1> QED
  BY <1>1, <1>2, <1>5, <1>7, <1>8 DEF Issued

-----------------------------------------------------------------------------
(* Steps on the records                                                    *)

DatabaseInv ==
    /\ SessionInv
    /\ records \in [Key -> Record]
    /\ \A k \in Key : RecordInv(k)

\* A token whose origin is known has been issued, and keeps it.
LEMMA OriginKept ==
    ASSUME SessionInv, Grows, NEW t \in Token, NEW k \in Key, NEW u,
           tokens[t].from = Origin(k, u)
    PROVE  tokens'[t].from = Origin(k, u)
<1>1. NoToken.from.key = None /\ Origin(k, u).key = k
  BY DEF NoToken, NoOrigin, Origin
<1>2. t \in Issued
  BY <1>1, RefreshAssumption DEF SessionInv, Issued
<1> QED
  BY <1>2 DEF Grows

\* A row that keeps its token and its result keeps its promise.
LEMMA RecordKept ==
    ASSUME SessionInv, SessionInv', Grows, NEW k \in Key, RecordInv(k), records'[k] \in Record,
           records'[k].state # "absent" =>
               /\ records[k].state # "absent"
               /\ records'[k].token = records[k].token
               /\ records'[k].result = records[k].result
    PROVE  RecordInv(k)'
<1> SUFFICES ASSUME records'[k].state # "absent"
             PROVE  /\ records'[k].token \in Issued'
                    /\ records'[k].result = Rejected =>
                         sessions'[tokens'[records'[k].token].session] = "revoked"
                    /\ records'[k].result # Rejected =>
                         tokens'[records'[k].result].from = Origin(k, records'[k].token)
  BY DEF RecordInv
<1>1. /\ records[k].state # "absent" /\ records[k].token \in Issued
      /\ records'[k].token = records[k].token /\ records'[k].result = records[k].result
  BY DEF RecordInv
<1>2. /\ records[k].token \in Token
      /\ tokens[records[k].token].session # None
      /\ tokens'[records[k].token].session = tokens[records[k].token].session
  BY <1>1 DEF Issued, Grows
<1>3. tokens[records[k].token].session \in Token
  BY <1>2 DEF SessionInv, RefreshToken
<1>4. CASE records[k].result = Rejected
  BY <1>1, <1>2, <1>3, <1>4 DEF RecordInv, Grows, Issued
<1>5. CASE records[k].result # Rejected
  <2>1. records[k].result \in Token
    BY <1>1, <1>5 DEF RecordInv, Record, NoRecord, Result
  <2>2. tokens'[records[k].result].from = Origin(k, records[k].token)
    BY <1>1, <1>5, <2>1, OriginKept DEF RecordInv
  <2> QED
    BY <1>1, <1>2, <1>5, <2>2 DEF Issued
<1> QED
  BY <1>4, <1>5

\* The committed transaction of a refresh: a refusal revokes, an acceptance
\* rotates, and the record says which.
LEMMA CommitStep ==
    ASSUME DatabaseInv, NEW k \in Key, NEW u \in Token \cup {None}, NEW result \in Result,
           Commit(k, u, result)
    PROVE  /\ DatabaseInv' /\ Grows
           /\ u \in Token
           /\ result # Rejected => tokens'[result].from = Origin(k, u)
<1> USE RefreshAssumption
<1>0. SessionInv /\ ~Raises(u) /\ Effect(k, u, result)
  BY DEF DatabaseInv, Commit, Effect
<1>1. /\ u \in Issued /\ u \in Token /\ tokens[u].session \in Token
      /\ tokens[u].used \/ IsActive(tokens[u].session)
      /\ sessions[tokens[u].session] # "absent"
  BY <1>0 DEF Raises, Issued, SessionInv, RefreshToken
<1>2. PICK s \in Token : s = tokens[u].session
  BY <1>1
<1>4. /\ SessionInv' /\ Grows /\ u \in Issued'
      /\ result = Rejected => sessions'[tokens'[u].session] = "revoked"
      /\ result # Rejected => tokens'[result].from = Origin(k, u)
  <2>1. CASE result = Rejected /\ Revoke(tokens[u].session)
    <3>1. /\ sessions' = [sessions EXCEPT ![s] = "revoked"] /\ tokens' = tokens
          /\ sessions'[s] = "revoked"
      BY <1>0, <1>2, <2>1 DEF Revoke, SessionInv
    <3>2. SessionInv' /\ Grows
      <4>1. sessions[s] # "absent" /\ "revoked" \in SessionState /\ "revoked" # "absent"
        BY <1>1, <1>2 DEF SessionState
      <4> QED
        BY <1>0, <3>1, <4>1, SessionEndsStep
    <3> QED
      BY <1>1, <1>2, <2>1, <3>1, <3>2 DEF Issued
  <2>2. CASE ~Refuses(u) /\ result \in Fresh /\ Rotate(k, u, result)
    <3>1. ~tokens[u].used /\ result \in Token
      BY <2>2 DEF Refuses, Fresh
    <3>2. /\ SessionInv' /\ Grows /\ tokens'[result].from = Origin(k, u)
      BY <1>0, <1>1, <2>2, <3>1, RotateStep
    <3>3. u \in Issued' /\ result # Rejected
      BY <1>1, <3>1, <3>2 DEF Grows, Issued
    <3> QED
      BY <3>2, <3>3
  <2> QED
    BY <1>0, <2>1, <2>2 DEF Effect
<1> DEFINE row == [state |-> "live", token |-> u, result |-> result]
<1>5. /\ row \in Record /\ row.token = u /\ row.result = result
  BY <1>1, Zenon DEF Record
<1>6. records' = [records EXCEPT ![k] = row]
  BY DEF Commit
<1> HIDE DEF row
<1>7. records' \in [Key -> Record] /\ records'[k] = row /\ \A l \in Key \ {k} : records'[l] = records[l]
  BY <1>5, <1>6 DEF DatabaseInv
<1>8. ASSUME NEW l \in Key PROVE RecordInv(l)'
  <2>1. CASE l = k
    BY <1>4, <1>5, <1>7, <2>1 DEF RecordInv
  <2>2. CASE l # k
    BY <1>0, <1>4, <1>7, <2>2, RecordKept DEF DatabaseInv
  <2> QED
    BY <2>1, <2>2
<1> QED
  BY <1>1, <1>4, <1>7, <1>8 DEF DatabaseInv

-----------------------------------------------------------------------------
(* Requests and hot entries, against a table T of tokens                   *)

\* The result in hand is that of the rotation of the request's own token.
Pair(T, state) ==
    /\ state.token \in Token
    /\ state.result \in Result
    /\ state.result # Rejected => T[state.result].from = Origin(state.key, state.token)

\* A request between its sending and its answer.
Running(T, state) ==
    /\ state \in HandlerState
    /\ state.key \in Key
    /\ state.answer # "ok"
    /\ state.outcome = "done" => Pair(T, state)

Sound(T, state) ==
    /\ state \in HandlerState
    /\ state.pc # "idle" => Running(T, state)
    /\ state.pc = "check" => state.outcome = "done"
    /\ state.answer = "ok" => /\ state.pc = "idle" /\ state.key \in Key
                              /\ Pair(T, state) /\ state.result # Rejected

LEMMA AnsweredSound ==
    ASSUME NEW T, NEW outcome
    PROVE  Sound(T, Answered(outcome))
<1>1. /\ Answered(outcome) \in HandlerState
      /\ Answered(outcome).pc = "idle" /\ Answered(outcome).answer # "ok"
  BY Zenon DEF Answered, NoRequest, HandlerState, Outcome
<1> QED
  BY <1>1 DEF Sound

LEMMA MovedSound ==
    ASSUME NEW T, NEW state, Running(T, state),
           NEW pc \in {"begin", "peek", "lookup", "execute", "relookup", "settle"},
           NEW lease \in {"none", "held"}
    PROVE  /\ Sound(T, [state EXCEPT !.pc = pc])
           /\ Sound(T, [state EXCEPT !.lease = lease]) \/ state.pc \in {"idle", "check"}
           /\ Sound(T, [state EXCEPT !.pc = pc, !.lease = lease])
<1> DEFINE moved == [state EXCEPT !.pc = pc]
           leased == [state EXCEPT !.lease = lease]
           both == [state EXCEPT !.pc = pc, !.lease = lease]
<1>0. state \in HandlerState
  BY DEF Running
<1>1. /\ moved \in HandlerState /\ moved.pc = pc /\ moved.key = state.key
      /\ moved.token = state.token /\ moved.outcome = state.outcome
      /\ moved.result = state.result /\ moved.answer = state.answer
  BY <1>0, Zenon DEF HandlerState
<1>2. /\ leased \in HandlerState /\ leased.pc = state.pc /\ leased.key = state.key
      /\ leased.token = state.token /\ leased.outcome = state.outcome
      /\ leased.result = state.result /\ leased.answer = state.answer
  BY <1>0, Zenon DEF HandlerState
<1>3. /\ both \in HandlerState /\ both.pc = pc /\ both.key = state.key
      /\ both.token = state.token /\ both.outcome = state.outcome
      /\ both.result = state.result /\ both.answer = state.answer
  BY <1>0, Zenon DEF HandlerState
<1> HIDE DEF moved, leased, both
<1>4. Sound(T, moved)
  BY <1>1 DEF Sound, Running, Pair
<1>5. Sound(T, leased) \/ state.pc \in {"idle", "check"}
  BY <1>2 DEF Sound, Running, Pair
<1>6. Sound(T, both)
  BY <1>3 DEF Sound, Running, Pair
<1> QED
  BY <1>4, <1>5, <1>6 DEF moved, leased, both

LEMMA ConcludeSound ==
    ASSUME NEW T, NEW state, Running(T, state)
    PROVE  Sound(T, Conclude(state))
<1> DEFINE x == [state EXCEPT !.pc = "check", !.lease = "none"]
<1>0. state \in HandlerState
  BY DEF Running
<1>1. /\ x \in HandlerState /\ x.pc = "check" /\ x.key = state.key
      /\ x.token = state.token /\ x.outcome = state.outcome
      /\ x.result = state.result /\ x.answer = state.answer
  BY <1>0, Zenon DEF HandlerState
<1> HIDE DEF x
<1>2. CASE state.outcome = "done"
  <2>1. Sound(T, x)
    BY <1>1, <1>2 DEF Sound, Running, Pair
  <2> QED
    BY <1>2, <2>1 DEF Conclude, x
<1>3. CASE state.outcome # "done"
  BY <1>3, AnsweredSound, SMTT(60) DEF Conclude
<1> QED
  BY <1>2, <1>3

LEMMA AfterDurableSound ==
    ASSUME NEW T, NEW state, Running(T, state)
    PROVE  Sound(T, AfterDurable(state))
  BY ConcludeSound, MovedSound DEF AfterDurable

LEMMA OutcomeRunning ==
    ASSUME NEW T, NEW state, Running(T, state), NEW outcome \in Outcome \ {"done"}
    PROVE  Running(T, [state EXCEPT !.outcome = outcome])
<1> DEFINE x == [state EXCEPT !.outcome = outcome]
<1>0. state \in HandlerState
  BY DEF Running
<1>1. /\ x \in HandlerState /\ x.key = state.key /\ x.outcome = outcome /\ x.answer = state.answer
  BY <1>0, Zenon DEF HandlerState
<1> HIDE DEF x
<1>2. Running(T, x)
  BY <1>1 DEF Running
<1> QED
  BY <1>2 DEF x

LEMMA FailureRunning ==
    ASSUME NEW T, NEW state, Running(T, state)
    PROVE  Running(T, WithoutWinner(state)) /\ Running(T, Unread(state))
<1> DEFINE o(S, failure) == IF state.outcome \in S THEN failure ELSE state.outcome
<1>0. state \in HandlerState
  BY DEF Running
<1>1. ASSUME NEW S, NEW failure \in Outcome \ {"done"}
      PROVE  Running(T, [state EXCEPT !.outcome = o(S, failure)])
  <2>1. CASE o(S, failure) = "done"
    <3>1. state.outcome = "done"
      BY <2>1
    <3>2. [state EXCEPT !.outcome = "done"] = state
      BY <1>0, <3>1, Zenon DEF HandlerState
    <3> QED
      BY <2>1, <3>2
  <2>2. CASE o(S, failure) # "done"
    <3>1. o(S, failure) \in Outcome \ {"done"}
      BY <1>0, <2>2 DEF HandlerState
    <3> HIDE DEF o
    <3> QED
      BY <3>1, OutcomeRunning
  <2> QED
    BY <2>1, <2>2
<1>2. "broken" \in Outcome \ {"done"} /\ "error" \in Outcome \ {"done"}
  BY DEF Outcome
<1>3. WithoutWinner(state) = [state EXCEPT !.outcome = o({"race"}, "broken")]
  BY DEF WithoutWinner
<1>4. Unread(state) = [state EXCEPT !.outcome = o({"none", "race"}, "error")]
  BY DEF Unread
<1> HIDE DEF o
<1> QED
  BY <1>1, <1>2, <1>3, <1>4

LEMMA DoneRunning ==
    ASSUME NEW T, NEW state, state \in HandlerState, state.key \in Key, state.answer # "ok",
           state.token \in Token, NEW result \in Result,
           result # Rejected => T[result].from = Origin(state.key, state.token)
    PROVE  Running(T, Done(state, result))
<1>1. /\ Done(state, result) \in HandlerState
      /\ Done(state, result).key = state.key /\ Done(state, result).token = state.token
      /\ Done(state, result).answer = state.answer /\ Done(state, result).result = result
  BY Zenon DEF HandlerState, Done, Outcome
<1> QED
  BY <1>1 DEF Running, Pair

\* _classify replays the record of the key to the token it was made for only.
LEMMA ClassifyRunning ==
    ASSUME NEW state, Running(tokens, state), RecordInv(state.key), Found(state.key)
    PROVE  Running(tokens, Classify(state))
<1> DEFINE row == records[state.key]
<1>1. /\ row.state # "absent" /\ row.token \in Token /\ row.result \in Result
      /\ row.result # Rejected => tokens[row.result].from = Origin(state.key, row.token)
  BY DEF RecordInv, Found, Record, NoRecord, Issued
<1>2. CASE row.token = state.token
  <2>1. Running(tokens, Done(state, row.result))
    BY <1>1, <1>2, DoneRunning DEF Running
  <2> QED
    BY <1>2, <2>1 DEF Classify
<1>3. CASE row.token # state.token
  <2>1. Running(tokens, [state EXCEPT !.outcome = "error"])
    BY OutcomeRunning DEF Outcome
  <2> QED
    BY <1>3, <2>1 DEF Classify
<1> QED
  BY <1>2, <1>3

\* What no step takes from a request it does not move.
LEMMA SoundKept ==
    ASSUME SessionInv, Grows, NEW state, Sound(tokens, state)
    PROVE  Sound(tokens', state)
<1>1. ASSUME state.key \in Key, Pair(tokens, state) PROVE Pair(tokens', state)
  <2>1. CASE state.result = Rejected
    BY <1>1, <2>1 DEF Pair
  <2>2. CASE state.result # Rejected
    <3>1. state.result \in Token /\ tokens[state.result].from = Origin(state.key, state.token)
      BY <1>1, <2>2 DEF Pair, Result
    <3> QED
      BY <1>1, <3>1, OriginKept DEF Pair
  <2> QED
    BY <2>1, <2>2
<1> QED
  BY <1>1 DEF Sound, Running

Entry(T, k, e) ==
    /\ e \in HotEntry
    /\ e.state = "completed" /\ e.result # Rejected => T[e.result].from = Origin(k, e.token)

HotInv ==
    /\ hot \in [Key -> HotEntry]
    /\ \A k \in Key : Entry(tokens, k, hot[k])

HandlerInv ==
    /\ handler \in [Handler -> HandlerState]
    /\ \A h \in Handler : Sound(tokens, handler[h])

RefreshInv == DatabaseInv /\ HotInv /\ HandlerInv

LEMMA EntryKept ==
    ASSUME SessionInv, Grows, NEW k \in Key, NEW e, Entry(tokens, k, e)
    PROVE  Entry(tokens', k, e)
<1>1. CASE e.state = "completed" /\ e.result # Rejected
  <2>1. e.result \in Token
    BY <1>1 DEF Entry, HotEntry, NoEntry, Result
  <2> QED
    BY <1>1, <2>1, OriginKept DEF Entry
<1> QED
  BY <1>1 DEF Entry

\* One hot entry is written, or none.
LEMMA HotStep ==
    ASSUME SessionInv, Grows, HotInv,
           \/ hot' = hot
           \/ \E k \in Key, e \in HotEntry : Entry(tokens', k, e) /\ hot' = [hot EXCEPT ![k] = e]
    PROVE  HotInv'
<1>1. \A l \in Key : Entry(tokens', l, hot[l])
  BY EntryKept DEF HotInv
<1>2. CASE hot' = hot
  BY <1>1, <1>2 DEF HotInv
<1>3. ASSUME NEW k \in Key, NEW e \in HotEntry, Entry(tokens', k, e), hot' = [hot EXCEPT ![k] = e]
      PROVE  HotInv'
  <2>1. hot' \in [Key -> HotEntry] /\ hot'[k] = e /\ \A l \in Key \ {k} : hot'[l] = hot[l]
    BY <1>3 DEF HotInv
  <2>2. \A l \in Key : Entry(tokens', l, hot'[l])
    BY <1>1, <1>3, <2>1
  <2> QED
    BY <2>1, <2>2 DEF HotInv
<1> QED
  BY <1>2, <1>3

\* One request moves, or none.
LEMMA HandlerStep ==
    ASSUME SessionInv, Grows, HandlerInv,
           \/ handler' = handler
           \/ \E h \in Handler, x \in HandlerState :
                Sound(tokens', x) /\ handler' = [handler EXCEPT ![h] = x]
    PROVE  HandlerInv'
<1>1. \A g \in Handler : Sound(tokens', handler[g])
  BY SoundKept DEF HandlerInv
<1>2. CASE handler' = handler
  BY <1>1, <1>2 DEF HandlerInv
<1>3. ASSUME NEW h \in Handler, NEW x \in HandlerState, Sound(tokens', x),
             handler' = [handler EXCEPT ![h] = x]
      PROVE  HandlerInv'
  <2>1. /\ handler' \in [Handler -> HandlerState]
        /\ handler'[h] = x /\ \A g \in Handler \ {h} : handler'[g] = handler[g]
    BY <1>3 DEF HandlerInv
  <2>2. \A g \in Handler : Sound(tokens', handler'[g])
    BY <1>1, <1>3, <2>1
  <2> QED
    BY <2>1, <2>2 DEF HandlerInv
<1> QED
  BY <1>2, <1>3

LEMMA QuietStep ==
    ASSUME DatabaseInv, sessions' = sessions, tokens' = tokens, records' = records
    PROVE  DatabaseInv' /\ Grows
<1>1. SessionInv'
  BY DEF DatabaseInv, SessionInv
<1>2. \A k \in Key : RecordInv(k)'
  BY DEF DatabaseInv, RecordInv, Issued
<1>3. Grows
  BY DEF Grows
<1> QED
  BY <1>1, <1>2, <1>3 DEF DatabaseInv

\* A request moves and the tables stay as they are.
LEMMA RequestStep ==
    ASSUME RefreshInv, NEW h \in Handler, NEW x, Sound(tokens, x),
           handler' = [handler EXCEPT ![h] = x],
           sessions' = sessions, tokens' = tokens, records' = records,
           \/ hot' = hot
           \/ \E k \in Key, e \in HotEntry : Entry(tokens, k, e) /\ hot' = [hot EXCEPT ![k] = e]
    PROVE  RefreshInv' /\ Grows
<1>1. DatabaseInv' /\ Grows /\ SessionInv /\ HotInv /\ HandlerInv
  BY QuietStep DEF RefreshInv, DatabaseInv
<1>2. HotInv'
  BY <1>1, HotStep
<1>3. x \in HandlerState
  BY DEF Sound
<1>4. HandlerInv'
  BY <1>1, <1>3, HandlerStep
<1> QED
  BY <1>1, <1>2, <1>4 DEF RefreshInv

-----------------------------------------------------------------------------
(* The steps                                                               *)

LEMMA AccountsStep == ASSUME RefreshInv, Accounts PROVE RefreshInv' /\ Grows
<1>0. DatabaseInv /\ SessionInv /\ HotInv /\ HandlerInv
  BY DEF RefreshInv, DatabaseInv
<1>1. records' = records /\ hot' = hot /\ handler' = handler
  BY DEF Accounts, LoginVerify, LoginCommit, Disable, Logout, database
<1>2. SessionInv' /\ Grows
  <2>1. CASE sessions' = sessions /\ tokens' = tokens
    BY <1>0, <1>1, <2>1, QuietStep DEF DatabaseInv
  <2>2. ASSUME NEW t \in Fresh, Start(t) PROVE SessionInv' /\ Grows
    BY <1>0, <2>2, StartStep
  <2>3. ASSUME NEW t \in Token, Logout(t) PROVE SessionInv' /\ Grows
    <3>1. PICK s \in Token : s = tokens[t].session /\ sessions[s] # "absent"
      BY <1>0, <2>3 DEF Logout, Issued, SessionInv, RefreshToken
    <3>2. sessions' = [sessions EXCEPT ![s] = "revoked"] /\ tokens' = tokens
      BY <2>3, <3>1 DEF Logout, Revoke
    <3>3. "revoked" \in SessionState /\ "revoked" # "absent"
      BY DEF SessionState
    <3> QED
      BY <1>0, <3>1, <3>2, <3>3, SessionEndsStep
  <2> QED
    BY <2>1, <2>2, <2>3 DEF Accounts, LoginVerify, LoginCommit, Disable, database
<1>3. \A k \in Key : RecordInv(k)'
  BY <1>0, <1>1, <1>2, RecordKept DEF DatabaseInv
<1>4. DatabaseInv'
  BY <1>0, <1>1, <1>2, <1>3 DEF DatabaseInv
<1>5. HotInv' /\ HandlerInv'
  BY <1>0, <1>1, <1>2, HotStep, HandlerStep
<1> QED
  BY <1>2, <1>4, <1>5 DEF RefreshInv

LEMMA ExpiryStep == ASSUME RefreshInv, Expiry PROVE RefreshInv' /\ Grows
<1>0. DatabaseInv /\ SessionInv /\ HotInv /\ HandlerInv
  BY DEF RefreshInv, DatabaseInv
<1>1. ASSUME NEW k \in Key, HotExpires(k) PROVE RefreshInv' /\ Grows
  <2>1. DatabaseInv' /\ Grows /\ handler' = handler
    BY <1>0, <1>1, QuietStep DEF HotExpires, database
  <2>2. NoEntry \in HotEntry /\ Entry(tokens', k, NoEntry)
    BY DEF Entry, HotEntry, NoEntry
  <2>3. hot' = [hot EXCEPT ![k] = NoEntry]
    BY <1>1 DEF HotExpires
  <2> QED
    BY <1>0, <2>1, <2>2, <2>3, HotStep, HandlerStep DEF RefreshInv
<1>2. ASSUME NEW s \in Token, SessionIdles(s) PROVE RefreshInv' /\ Grows
  <2>1. /\ sessions[s] = "active" /\ "active" # "absent" /\ "idle" # "absent"
        /\ "active" # "revoked" /\ "idle" \in SessionState
        /\ sessions' = [sessions EXCEPT ![s] = "idle"] /\ tokens' = tokens
        /\ records' = records /\ hot' = hot /\ handler' = handler
    BY <1>2 DEF SessionIdles, SessionState
  <2>2. SessionInv' /\ Grows
    BY <1>0, <2>1, SessionEndsStep
  <2>3. \A k \in Key : RecordInv(k)'
    BY <1>0, <2>1, <2>2, RecordKept DEF DatabaseInv
  <2> QED
    BY <1>0, <2>1, <2>2, <2>3, HotStep, HandlerStep DEF RefreshInv, DatabaseInv
<1>3. ASSUME NEW k \in Key, RecordExpires(k) \/ DeleteExpired(k) PROVE RefreshInv' /\ Grows
  <2>1. sessions' = sessions /\ tokens' = tokens /\ hot' = hot /\ handler' = handler
    BY <1>3 DEF RecordExpires, DeleteExpired
  <2>2. SessionInv' /\ Grows
    BY <1>0, <2>1 DEF SessionInv, Grows
  <2>3. records[k] \in Record /\ records[k].state # "absent"
    BY <1>0, <1>3 DEF DatabaseInv, RecordExpires, DeleteExpired
  <2> DEFINE old == [records[k] EXCEPT !.state = "expired"]
  <2>4. /\ old \in Record /\ old.token = records[k].token /\ old.result = records[k].result
    <3>1. records[k] \in [state : {"live", "expired"}, token : Token, result : Result]
      BY <2>3 DEF Record, NoRecord
    <3> QED
      BY <3>1, Zenon DEF Record
  <2>5. NoRecord \in Record /\ NoRecord.state = "absent"
    BY DEF Record, NoRecord
  <2>6. PICK row \in {old, NoRecord} : records' = [records EXCEPT ![k] = row]
    BY <1>3 DEF RecordExpires, DeleteExpired
  <2>7. /\ row \in Record
        /\ row.state # "absent" => row.token = records[k].token /\ row.result = records[k].result
    BY <2>4, <2>5, <2>6
  <2>8. /\ records' \in [Key -> Record] /\ records'[k] = row
        /\ \A l \in Key \ {k} : records'[l] = records[l]
    BY <1>0, <2>6, <2>7 DEF DatabaseInv
  <2>9. ASSUME NEW l \in Key PROVE RecordInv(l)'
    <3>1. CASE l = k
      BY <1>0, <2>2, <2>3, <2>7, <2>8, <3>1, RecordKept DEF DatabaseInv
    <3>2. CASE l # k
      BY <1>0, <2>2, <2>8, <3>2, RecordKept DEF DatabaseInv
    <3> QED
      BY <3>1, <3>2
  <2> QED
    BY <1>0, <2>1, <2>2, <2>8, <2>9, HotStep, HandlerStep DEF RefreshInv, DatabaseInv
<1> QED
  BY <1>1, <1>2, <1>3 DEF Expiry

\* The steps of a request that write neither the tables nor the hot store.
LEMMA ReadingStep ==
    ASSUME RefreshInv, NEW h \in Handler,
           \/ Peek(h) \/ Lookup(h) \/ Relookup(h) \/ Check(h) \/ LoseLease(h)
           \/ SettleUnavailable(h) \/ ReadFails(h) \/ ReplayUnavailable(h) \/ Crash(h)
    PROVE  RefreshInv' /\ Grows
<1>0. /\ Sound(tokens, handler[h]) /\ handler[h] \in HandlerState
      /\ \A k \in Key : RecordInv(k)
  BY DEF RefreshInv, HandlerInv, DatabaseInv
<1>1. handler[h].pc # "idle"
  BY DEF Peek, Lookup, Relookup, Check, LoseLease, SettleUnavailable, ReadFails,
         ReplayUnavailable, Crash
<1>2. Running(tokens, handler[h]) /\ handler[h].key \in Key
  BY <1>0, <1>1 DEF Sound, Running
<1>3. sessions' = sessions /\ tokens' = tokens /\ records' = records /\ hot' = hot
  BY DEF Peek, Lookup, Relookup, Check, LoseLease, SettleUnavailable, ReadFails,
         ReplayUnavailable, Crash, database
<1>4. ASSUME NEW x, Sound(tokens, x), handler' = [handler EXCEPT ![h] = x]
      PROVE  RefreshInv' /\ Grows
  BY <1>3, <1>4, RequestStep
<1>5. Found(handler[h].key) => Running(tokens, Classify(handler[h]))
  BY <1>0, <1>2, ClassifyRunning
<1>6. CASE Peek(h)
  <2>1. Found(handler[h].key) => Sound(tokens, Conclude(Classify(handler[h])))
    BY <1>5, ConcludeSound
  <2> QED
    BY <1>4, <1>6, <2>1, AnsweredSound DEF Peek
<1>7. CASE Lookup(h)
  <2>1. Found(handler[h].key) => Sound(tokens, AfterDurable(Classify(handler[h])))
    BY <1>5, AfterDurableSound
  <2>2. Sound(tokens, [handler[h] EXCEPT !.pc = "execute"])
    BY <1>2, MovedSound
  <2> QED
    BY <1>4, <1>7, <2>1, <2>2 DEF Lookup
<1>8. CASE Relookup(h)
  <2>1. Running(tokens, WithoutWinner(handler[h]))
    BY <1>2, FailureRunning
  <2>2. Sound(tokens, AfterDurable(IF Found(handler[h].key) THEN Classify(handler[h])
                                   ELSE WithoutWinner(handler[h])))
    BY <1>5, <2>1, AfterDurableSound
  <2> QED
    BY <1>4, <1>8, <2>2 DEF Relookup
<1>9. CASE Check(h)
  <2> DEFINE x == [handler[h] EXCEPT !.pc = "idle", !.outcome = "none", !.answer = "ok"]
  <2>1. /\ x \in HandlerState /\ x.pc = "idle" /\ x.outcome = "none"
        /\ x.key = handler[h].key /\ x.token = handler[h].token /\ x.result = handler[h].result
    BY <1>0, Zenon DEF HandlerState, Outcome
  <2>2. Pair(tokens, handler[h])
    BY <1>0, <1>2, <1>9 DEF Check, Sound, Running
  <2>3. handler' = [handler EXCEPT ![h] = IF Usable(h) THEN x ELSE Answered("error")]
    BY <1>9 DEF Check
  <2> HIDE DEF x
  <2>4. Usable(h) => Sound(tokens, x)
    BY <1>2, <2>1, <2>2 DEF Usable, Sound, Pair
  <2> QED
    BY <1>4, <2>3, <2>4, AnsweredSound
<1>10. CASE LoseLease(h)
  <2>1. Sound(tokens, [handler[h] EXCEPT !.lease = "none"])
    BY <1>2, <1>10, MovedSound DEF LoseLease
  <2> QED
    BY <1>4, <1>10, <2>1 DEF LoseLease
<1>11. CASE SettleUnavailable(h)
  BY <1>2, <1>4, <1>11, ConcludeSound DEF SettleUnavailable
<1>12. CASE ReadFails(h)
  <2>1. Sound(tokens, AfterDurable(Unread(handler[h])))
    BY <1>2, FailureRunning, AfterDurableSound
  <2> QED
    BY <1>4, <1>12, <2>1, AnsweredSound DEF ReadFails
<1>13. CASE ReplayUnavailable(h)
  BY <1>4, <1>13, AnsweredSound DEF ReplayUnavailable
<1>14. CASE Crash(h)
  BY <1>4, <1>14, AnsweredSound DEF Crash
<1> QED
  BY <1>6, <1>7, <1>8, <1>9, <1>10, <1>11, <1>12, <1>13, <1>14

LEMMA SendStep ==
    ASSUME RefreshInv, NEW h \in Handler, NEW k \in Key, NEW u \in Token \cup {None}, Send(h, k, u)
    PROVE  RefreshInv' /\ Grows
<1> DEFINE x == [NoRequest EXCEPT !.pc = "begin", !.key = k, !.token = u]
<1>1. /\ x \in HandlerState /\ x.pc = "begin" /\ x.key = k
      /\ x.outcome = "none" /\ x.answer = "none"
  BY Zenon DEF NoRequest, HandlerState, Outcome
<1>2. /\ handler' = [handler EXCEPT ![h] = x]
      /\ sessions' = sessions /\ tokens' = tokens /\ records' = records /\ hot' = hot
  BY DEF Send, database
<1> HIDE DEF x
<1>3. Sound(tokens, x)
  BY <1>1 DEF Sound, Running
<1> QED
  BY <1>2, <1>3, RequestStep

LEMMA EntryShapes ==
    ASSUME NEW h \in Handler, NEW u \in Token \cup {None}, NEW T, NEW k
    PROVE  /\ Processing(h, u) \in HotEntry /\ Entry(T, k, Processing(h, u))
           /\ NoEntry \in HotEntry /\ Entry(T, k, NoEntry)
<1>1. Processing(h, u) \in HotEntry /\ Processing(h, u).state = "processing"
  BY Zenon DEF HotEntry, Processing
<1>2. NoEntry \in HotEntry /\ NoEntry.state = "absent"
  BY DEF HotEntry, NoEntry
<1> QED
  BY <1>1, <1>2 DEF Entry

\* The steps of a request that write the hot store.
LEMMA HotWritingStep ==
    ASSUME RefreshInv, NEW h \in Handler,
           Begin(h) \/ BeginUnavailable(h) \/ Settle(h) \/ CancelRequest(h)
    PROVE  RefreshInv' /\ Grows
<1>0. /\ Sound(tokens, handler[h]) /\ handler[h] \in HandlerState
      /\ \A k \in Key : Entry(tokens, k, hot[k]) /\ hot[k] \in HotEntry
  BY SMTT(60) DEF RefreshInv, HandlerInv, HotInv, Entry
<1>1. handler[h].pc # "idle"
  BY DEF Begin, BeginUnavailable, Settle, CancelRequest
<1>2. Running(tokens, handler[h])
  BY <1>0, <1>1 DEF Sound
<1>3. PICK k \in Key, u \in Token \cup {None} : k = handler[h].key /\ u = handler[h].token
  BY <1>2, SMTT(60) DEF Running, HandlerState
<1>4. sessions' = sessions /\ tokens' = tokens /\ records' = records
  BY DEF Begin, BeginUnavailable, Settle, CancelRequest, database
<1>5. ASSUME NEW x, Sound(tokens, x), handler' = [handler EXCEPT ![h] = x],
             \/ hot' = hot
             \/ \E e \in HotEntry : Entry(tokens, k, e) /\ hot' = [hot EXCEPT ![k] = e]
      PROVE  RefreshInv' /\ Grows
  BY <1>4, <1>5, RequestStep
<1>6. /\ Processing(h, u) \in HotEntry /\ Entry(tokens, k, Processing(h, u))
      /\ NoEntry \in HotEntry /\ Entry(tokens, k, NoEntry)
  BY EntryShapes
<1>7. CASE Begin(h)
  <2>1. \/ hot' = hot
        \/ hot' = [hot EXCEPT ![k] = Processing(h, u)]
    BY <1>3, <1>7 DEF Begin
  <2>2. PICK x : Sound(tokens, x) /\ handler' = [handler EXCEPT ![h] = x]
    <3>1. CASE hot[k].state = "absent"
      <4>1. handler' = [handler EXCEPT ![h] = [handler[h] EXCEPT !.pc = "lookup", !.lease = "held"]]
        BY <1>3, <1>7, <3>1 DEF Begin
      <4>2. Sound(tokens, [handler[h] EXCEPT !.pc = "lookup", !.lease = "held"])
        BY <1>2, MovedSound
      <4> QED
        BY <4>1, <4>2
    <3>2. CASE hot[k].state # "absent" /\ hot[k].token # u
      <4>1. handler' = [handler EXCEPT ![h] = Answered("error")]
        BY <1>3, <1>7, <3>2 DEF Begin
      <4> QED
        BY <4>1, AnsweredSound
    <3>3. CASE hot[k].state = "completed" /\ hot[k].token = u
      <4>1. handler' = [handler EXCEPT ![h] = Conclude(Done(handler[h], hot[k].result))]
        BY <1>3, <1>7, <3>3 DEF Begin
      <4>2. hot[k].token \in Token /\ hot[k].result \in Result
        BY <1>0, <3>3 DEF HotEntry, NoEntry
      <4>3. hot[k].result # Rejected => tokens[hot[k].result].from = Origin(k, u)
        BY <1>0, <3>3 DEF Entry
      <4>4. Running(tokens, Done(handler[h], hot[k].result))
        BY <1>2, <1>3, <3>3, <4>2, <4>3, DoneRunning DEF Running
      <4> QED
        BY <4>1, <4>4, ConcludeSound, ZenonT(60)
    <3>4. CASE hot[k].state = "processing" /\ hot[k].token = u
      <4>1. handler' = [handler EXCEPT ![h] = [handler[h] EXCEPT !.pc = "peek"]]
        BY <1>3, <1>7, <3>4 DEF Begin
      <4>2. Sound(tokens, [handler[h] EXCEPT !.pc = "peek"])
        BY <1>2, MovedSound
      <4> QED
        BY <4>1, <4>2, ZenonT(60)
    <3>5. hot[k].state \in {"absent", "processing", "completed"}
      BY <1>0 DEF HotEntry, NoEntry
    <3> QED
      BY <3>1, <3>2, <3>3, <3>4, <3>5
  <2> QED
    BY <1>5, <1>6, <2>1, <2>2, ZenonT(60)
<1>8. CASE BeginUnavailable(h)
  <2>1. Sound(tokens, [handler[h] EXCEPT !.pc = "lookup"])
    BY <1>2, MovedSound
  <2>2. /\ handler' = [handler EXCEPT ![h] = [handler[h] EXCEPT !.pc = "lookup"]]
        /\ hot' = hot \/ hot' = [hot EXCEPT ![k] = Processing(h, u)]
    BY <1>3, <1>8 DEF BeginUnavailable
  <2> QED
    BY <1>5, <1>6, <2>1, <2>2
<1>9. CASE CancelRequest(h)
  <2>1. hot' = hot \/ hot' = [hot EXCEPT ![k] = NoEntry]
    BY <1>3, <1>9 DEF CancelRequest, AbandonedEntry, RefreshInv, HotInv
  <2>2. handler' = [handler EXCEPT ![h] = Answered("error")]
    BY <1>9 DEF CancelRequest
  <2> QED
    BY <1>5, <1>6, <2>1, <2>2, AnsweredSound
<1>10. CASE Settle(h)
  <2>1. Sound(tokens, Conclude(handler[h])) /\ handler' = [handler EXCEPT ![h] = Conclude(handler[h])]
    BY <1>2, <1>10, ConcludeSound DEF Settle
  <2>2. CASE handler[h].outcome # "done"
    <3>1. hot' = hot \/ hot' = [hot EXCEPT ![k] = NoEntry]
      BY <1>3, <1>10, <2>2 DEF Settle, AbandonedEntry, RefreshInv, HotInv
    <3> QED
      BY <1>5, <1>6, <2>1, <3>1
  <2>3. CASE handler[h].outcome = "done"
    <3>1. hot' = [hot EXCEPT ![k] = CompletedEntry(h)]
      BY <1>3, <1>10, <2>3 DEF Settle
    <3>2. Pair(tokens, handler[h])
      BY <1>2, <2>3 DEF Running
    <3>3. CASE OwnsEntry(h) /\ hot[k].token = u
      <4> DEFINE e == [hot[k] EXCEPT !.state = "completed", !.owner = None,
                                     !.result = handler[h].result]
      <4>1. CompletedEntry(h) = e
        BY <1>3, <3>3 DEF CompletedEntry
      <4>2. hot[k] \in [state : {"processing"}, token : Token \cup {None}, owner : Handler,
                        result : {None}]
        BY <1>0, <1>3, <3>3 DEF OwnsEntry, HotEntry, NoEntry
      <4>3. u \in Token /\ handler[h].result \in Result
        BY <1>3, <3>2 DEF Pair
      <4>4. e \in HotEntry /\ e.token = u /\ e.result = handler[h].result
        BY <3>3, <4>2, <4>3, Zenon DEF HotEntry
      <4> HIDE DEF e
      <4>5. Entry(tokens, k, e)
        BY <1>3, <3>2, <4>4 DEF Entry, Pair
      <4> QED
        BY <1>5, <2>1, <3>1, <4>1, <4>4, <4>5, ZenonT(60)
    <3>4. CASE ~(OwnsEntry(h) /\ hot[k].token = u)
      <4>1. CompletedEntry(h) = hot[k]
        BY <1>3, <3>4 DEF CompletedEntry
      <4> QED
        BY <1>0, <1>5, <2>1, <3>1, <4>1
    <3> QED
      BY <3>3, <3>4
  <2> QED
    BY <2>2, <2>3
<1> QED
  BY <1>7, <1>8, <1>9, <1>10

LEMMA RecheckingSound ==
    ASSUME NEW T, NEW state, Running(T, state), NEW outcome \in Outcome \ {"done"}
    PROVE  Sound(T, Rechecking(state, outcome))
<1>0. state \in HandlerState
  BY DEF Running
<1>1. /\ Rechecking(state, outcome) \in HandlerState
      /\ Rechecking(state, outcome).pc = "relookup"
      /\ Rechecking(state, outcome).key = state.key
      /\ Rechecking(state, outcome).outcome = outcome
      /\ Rechecking(state, outcome).answer = state.answer
  BY <1>0, Zenon DEF HandlerState, Rechecking
<1> QED
  BY <1>1 DEF Sound, Running

\* The transaction of a refresh, whether it is known to have committed or not.
LEMMA ExecutingStep ==
    ASSUME RefreshInv, NEW h \in Handler, Execute(h) \/ ExecuteUncertain(h)
    PROVE  RefreshInv' /\ Grows
<1>0. /\ DatabaseInv /\ SessionInv /\ HotInv /\ HandlerInv
      /\ Sound(tokens, handler[h]) /\ handler[h] \in HandlerState
  BY DEF RefreshInv, HandlerInv, DatabaseInv
<1>1. handler[h].pc # "idle" /\ hot' = hot
  BY DEF Execute, ExecuteUncertain
<1>2. Running(tokens, handler[h])
  BY <1>0, <1>1 DEF Sound
<1>3. PICK k \in Key, u \in Token \cup {None} : k = handler[h].key /\ u = handler[h].token
  BY <1>2 DEF Running, HandlerState
<1>4. {"race", "error"} \subseteq Outcome \ {"done"}
  BY DEF Outcome
<1>5. ASSUME NEW outcome \in {"race", "error"},
             handler' = [handler EXCEPT ![h] = Rechecking(handler[h], outcome)],
             sessions' = sessions, tokens' = tokens, records' = records
      PROVE  RefreshInv' /\ Grows
  BY <1>1, <1>2, <1>4, <1>5, RecheckingSound, RequestStep
<1>6. ASSUME NEW result \in Result, Commit(k, u, result),
             \/ handler' = [handler EXCEPT ![h] = AfterDurable(Done(handler[h], result))]
             \/ handler' = [handler EXCEPT ![h] = Rechecking(handler[h], "error")]
      PROVE  RefreshInv' /\ Grows
  <2>1. /\ DatabaseInv' /\ Grows /\ u \in Token
        /\ result # Rejected => tokens'[result].from = Origin(k, u)
    BY <1>0, <1>6, CommitStep
  <2>2. HotInv'
    BY <1>0, <1>1, <2>1, HotStep
  <2>3. Running(tokens', Done(handler[h], result))
    BY <1>2, <1>3, <1>6, <2>1, DoneRunning DEF Running
  <2>4. Sound(tokens', AfterDurable(Done(handler[h], result)))
    BY <2>3, AfterDurableSound
  <2>5. Running(tokens', handler[h])
    BY <1>0, <1>1, <2>1, SoundKept DEF Sound
  <2>6. Sound(tokens', Rechecking(handler[h], "error"))
    BY <1>4, <2>5, RecheckingSound
  <2>7. PICK x : Sound(tokens', x) /\ handler' = [handler EXCEPT ![h] = x]
    BY <1>6, <2>4, <2>6
  <2>8. x \in HandlerState
    BY <2>7 DEF Sound
  <2>9. HandlerInv'
    BY <1>0, <2>1, <2>7, <2>8, HandlerStep
  <2> QED
    BY <2>1, <2>2, <2>9 DEF RefreshInv
<1>7. CASE Execute(h)
  BY <1>3, <1>5, <1>6, <1>7 DEF Execute, LoseFence, Result
<1>8. CASE ExecuteUncertain(h)
  BY <1>3, <1>5, <1>6, <1>8 DEF ExecuteUncertain, Result
<1> QED
  BY <1>7, <1>8

-----------------------------------------------------------------------------
(* The theorems                                                            *)

LEMMA InitInv == Init => RefreshInv
<1> SUFFICES ASSUME Init PROVE RefreshInv
  OBVIOUS
<1>1. /\ NoToken \in RefreshToken /\ NoToken.session = None
      /\ NoRecord \in Record /\ NoRecord.state = "absent"
      /\ NoEntry \in HotEntry /\ NoEntry.state = "absent"
      /\ "absent" \in SessionState
  BY DEF NoToken, NoOrigin, RefreshToken, NoRecord, Record, NoEntry, HotEntry, SessionState
<1>2. NoRequest \in HandlerState /\ NoRequest.pc = "idle" /\ NoRequest.answer = "none"
  BY DEF NoRequest, HandlerState, Outcome
<1>3. SessionInv
  BY <1>1 DEF Init, SessionInv
<1>4. records \in [Key -> Record] /\ \A k \in Key : RecordInv(k)
  BY <1>1 DEF Init, RecordInv
<1>5. HotInv
  BY <1>1 DEF Init, HotInv, Entry
<1>6. HandlerInv
  BY <1>2 DEF Init, HandlerInv, Sound
<1> QED
  BY <1>3, <1>4, <1>5, <1>6 DEF RefreshInv, DatabaseInv

LEMMA NextInv == RefreshInv /\ [Next]_vars => RefreshInv' /\ Grows
<1> SUFFICES ASSUME RefreshInv, [Next]_vars PROVE RefreshInv' /\ Grows
  OBVIOUS
<1>1. CASE UNCHANGED vars
  <2>1. DatabaseInv' /\ Grows /\ hot' = hot /\ handler' = handler /\ SessionInv
    BY <1>1, QuietStep DEF vars, RefreshInv, DatabaseInv
  <2> QED
    BY <2>1, HotStep, HandlerStep DEF RefreshInv
<1>2. ASSUME NEW h \in Handler, Step(h) \/ Trouble(h) PROVE RefreshInv' /\ Grows
  BY <1>2, ReadingStep, HotWritingStep, ExecutingStep DEF Step, Trouble
<1>3. ASSUME NEW h \in Handler, NEW k \in Key, NEW u \in Token \cup {None}, Send(h, k, u)
      PROVE  RefreshInv' /\ Grows
  BY <1>3, SendStep
<1> QED
  BY <1>1, <1>2, <1>3, AccountsStep, ExpiryStep DEF Next

\* Whatever requests race, retry, lose their lease or die: a pair goes only to
\* the request whose key and token it was issued for, from the database or from
\* Valkey; a session has one unused token; a recorded refusal has revoked.
THEOREM RefreshSafety ==
    Spec => [](/\ PairBelongsToRequest
               /\ HotResultIsCommitted
               /\ OneLiveToken
               /\ RefusalRevokesFamily)
<1>1. RefreshInv => PairBelongsToRequest
  BY DEF RefreshInv, HandlerInv, Sound, Pair, Origin, PairBelongsToRequest
<1>2. RefreshInv => HotResultIsCommitted
  BY DEF RefreshInv, HotInv, Entry, Origin, HotResultIsCommitted
<1>3. RefreshInv => OneLiveToken
  <2> SUFFICES ASSUME SessionInv, NEW s \in Token, sessions[s] # "absent"
               PROVE  Cardinality({t \in Family(s) : ~tokens[t].used}) = 1
    BY DEF RefreshInv, DatabaseInv, OneLiveToken
  <2>1. PICK l \in Token : \A t \in Token : tokens[t].session = s /\ ~tokens[t].used <=> t = l
    BY DEF SessionInv
  <2>2. {t \in Family(s) : ~tokens[t].used} = {l}
    BY <2>1 DEF Family
  <2> QED
    BY <2>2, FS_Singleton
<1>4. RefreshInv => RefusalRevokesFamily
  BY DEF RefreshInv, DatabaseInv, RecordInv, RefusalRevokesFamily
<1> QED
  BY <1>1, <1>2, <1>3, <1>4, InitInv, NextInv, PTL DEF Spec

\* The tables, the hot entries and the requests keep their shapes: no row of
\* idempotency_records and no hash in Valkey is ever half written.
THEOREM RefreshTypes == Spec => []TypeOK
<1> DEFINE Flags == enabled \in BOOLEAN /\ login \in BOOLEAN
<1>1. Init => Flags
  BY DEF Init
<1>2. Flags /\ [Next]_vars => Flags'
  <2> SUFFICES ASSUME Flags, [Next]_vars PROVE Flags'
    OBVIOUS
  <2>1. CASE Accounts \/ Expiry
    BY <2>1 DEF Accounts, LoginVerify, LoginCommit, Disable, Logout, Expiry, HotExpires,
                RecordExpires, DeleteExpired, SessionIdles, database
  <2>2. ASSUME NEW h \in Handler, Step(h) \/ Trouble(h) PROVE UNCHANGED <<enabled, login>>
    BY <2>2, ZenonT(60) DEF Step, Trouble, Begin, Peek, Lookup, Execute, Relookup, Settle, Check,
                BeginUnavailable, LoseLease, SettleUnavailable, ExecuteUncertain, ReadFails,
                ReplayUnavailable, Crash, CancelRequest, database
  <2>3. ASSUME NEW h \in Handler, NEW k \in Key, NEW u \in Token \cup {None}, Send(h, k, u)
        PROVE  UNCHANGED <<enabled, login>>
    BY <2>3 DEF Send, database
  <2> QED
    BY <2>1, <2>2, <2>3 DEF Next, vars
<1>3. RefreshInv /\ Flags => TypeOK
  BY DEF RefreshInv, DatabaseInv, SessionInv, HotInv, HandlerInv, TypeOK
<1> QED
  BY <1>1, <1>2, <1>3, InitInv, NextInv, PTL DEF Spec

\* A pair goes only to the request whose key and token it was issued for.
THEOREM PairAlwaysBelongsToRequest == Spec => []PairBelongsToRequest
  BY RefreshSafety, PTL

\* What the coordinator replays from Valkey is what the database committed.
THEOREM HotResultAlwaysCommitted == Spec => []HotResultIsCommitted
  BY RefreshSafety, PTL

\* A session has exactly one unused token.
THEOREM AlwaysOneLiveToken == Spec => []OneLiveToken
  BY RefreshSafety, PTL

\* A recorded refusal has revoked the session.
THEOREM RefusalAlwaysRevokes == Spec => []RefusalRevokesFamily
  BY RefreshSafety, PTL

\* No request, login, logout or expiry brings a revoked session back or touches
\* one of its tokens.
THEOREM RevocationIsAlwaysFinal == Spec => RevocationIsFinal
<1>1. RefreshInv /\ [Next]_vars =>
        [\A s \in Token : sessions[s] = "revoked" =>
          sessions'[s] = "revoked" /\ \A t \in Token :
              tokens[t].session = s \/ tokens'[t].session = s => tokens'[t] = tokens[t]]_vars
  BY NextInv DEF Grows
<1> QED
  BY <1>1, InitInv, NextInv, PTL DEF Spec, RevocationIsFinal

\* The fence on the key decides before anything is written: a request that finds
\* its own rotation on record leaves every session as it is.
THEOREM RetriesNeverRevoke == Spec => RetryNeverRevokes
<1>1. RefreshInv /\ [Next]_vars =>
        [\A h \in Handler, k \in Key :
          /\ handler'[h] # handler[h] /\ handler[h].key = k
          /\ records[k].token = handler[h].token /\ records[k].result \in Token
          => sessions' = sessions]_vars
  <2> SUFFICES ASSUME RefreshInv, Next, NEW h \in Handler, NEW k \in Key,
                      handler'[h] # handler[h], handler[h].key = k, records[k].result \in Token
               PROVE  sessions' = sessions
    OBVIOUS
  <2>1. handler' # handler
    OBVIOUS
  <2>2. records[k].state # "absent"
    BY RefreshAssumption DEF RefreshInv, DatabaseInv, Record, NoRecord
  <2>3. CASE Accounts \/ Expiry
    BY <2>1, <2>3 DEF Accounts, LoginVerify, LoginCommit, Disable, Logout, Expiry, HotExpires,
                      RecordExpires, DeleteExpired, SessionIdles
  <2>4. ASSUME NEW g \in Handler, Execute(g) \/ ExecuteUncertain(g) PROVE sessions' = sessions
    <3>1. PICK x : handler' = [handler EXCEPT ![g] = x]
      BY <2>4 DEF Execute, ExecuteUncertain
    <3>2. g = h
      BY <3>1 DEF RefreshInv, HandlerInv
    <3> QED
      BY <2>2, <2>4, <3>2 DEF Execute, ExecuteUncertain, LoseFence, Commit
  <2>5. ASSUME NEW g \in Handler, Step(g) \/ Trouble(g), ~Execute(g), ~ExecuteUncertain(g)
        PROVE  sessions' = sessions
    BY <2>5 DEF Step, Trouble, Begin, Peek, Lookup, Relookup, Settle, Check, BeginUnavailable,
                LoseLease, SettleUnavailable, ReadFails, ReplayUnavailable, Crash,
                CancelRequest, database
  <2>6. ASSUME NEW g \in Handler, NEW l \in Key, NEW u \in Token \cup {None}, Send(g, l, u)
        PROVE  sessions' = sessions
    BY <2>6 DEF Send, database
  <2> QED
    BY <2>3, <2>4, <2>5, <2>6 DEF Next
<1> QED
  BY <1>1, InitInv, NextInv, PTL DEF Spec, RetryNeverRevokes

\* Only LoginCommit starts a session, and only if the account it reads again is
\* enabled; revoking is for sessions that exist.
THEOREM NeverSessionForDisabled == Spec => NoSessionForDisabled
<1>1. RefreshInv /\ [Next]_vars =>
        [\A s \in Token : sessions[s] = "absent" /\ sessions'[s] # "absent" => enabled]_vars
  <2> SUFFICES ASSUME RefreshInv, Next, NEW s \in Token,
                      sessions[s] = "absent", sessions'[s] # "absent"
               PROVE  enabled
    OBVIOUS
  <2>0. SessionInv
    BY DEF RefreshInv, DatabaseInv
  <2>1. ASSUME NEW u \in Issued, Revoke(tokens[u].session) PROVE FALSE
    <3>1. sessions[tokens[u].session] # "absent"
      BY <2>0 DEF SessionInv, Issued
    <3> QED
      BY <2>0, <2>1, <3>1 DEF Revoke, SessionInv
  <2>2. CASE Accounts
    BY <2>1, <2>2 DEF Accounts, LoginVerify, LoginCommit, Disable, Logout, database
  <2>3. CASE Expiry
    BY <2>0, <2>3 DEF Expiry, HotExpires, RecordExpires, DeleteExpired, SessionIdles, database,
       SessionInv
  <2>4. ASSUME NEW h \in Handler, Step(h) \/ Trouble(h) PROVE FALSE
    <3>1. ASSUME NEW k, NEW u, NEW result, Commit(k, u, result) PROVE FALSE
      <4>1. u \in Issued /\ (Revoke(tokens[u].session) \/ sessions' = sessions)
        BY <3>1 DEF Commit, Effect, Raises, Rotate
      <4> QED
        BY <2>1, <4>1
    <3>2. CASE Execute(h) \/ ExecuteUncertain(h)
      BY <3>1, <3>2 DEF Execute, ExecuteUncertain, LoseFence
    <3>3. CASE sessions' = sessions
      BY <3>3
    <3> QED
      BY <2>4, <3>2, <3>3, ZenonT(60) DEF Step, Trouble, Begin, Peek, Lookup, Relookup, Settle,
         Check, BeginUnavailable, LoseLease, SettleUnavailable, ReadFails, ReplayUnavailable,
         Crash, CancelRequest, database
  <2>5. ASSUME NEW g \in Handler, NEW l \in Key, NEW u \in Token \cup {None}, Send(g, l, u)
        PROVE  FALSE
    BY <2>5 DEF Send, database
  <2> QED
    BY <2>2, <2>3, <2>4, <2>5 DEF Next
<1> QED
  BY <1>1, InitInv, NextInv, PTL DEF Spec, NoSessionForDisabled
=============================================================================
