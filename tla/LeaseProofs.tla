---------------------------- MODULE LeaseProofs -----------------------------
(***************************************************************************)
(* What the accepted settings make sure of, for every number of owners and *)
(* operations, every timeout, delay and lease: a claim is lost only by an  *)
(* attempt that outlasts maximum_profile_attempt_seconds.                  *)
(***************************************************************************)
EXTENDS RegistrationLease, RegistrationSteps

\* What LeaseInit says of the constants.
Accepted == SettingsAccepted /\ MaxStall = 0

\* The attempt of o at operation k runs since began.  Until it overruns, the claim
\* it began with outlasts the maximum, or its own commit ended it.
Holds(o, k) ==
    attempt[o][k].pc # "none" =>
        /\ began[<<o, k>>] \in Nat
        /\ began[<<o, k>>] <= now
        /\ now <= began[<<o, k>>] + MaximumProfileAttempt =>
             \/ Owned(ops[k], o, now) /\ began[<<o, k>>] + Lease <= ops[k].expires
             \/ ops[k].status = "COMPLETED" /\ attempt[o][k].pc \in {"retry", "block"}

KeyInv(k) == \A o \in Owner : Holds(o, k)

LeaseInv == Accepted /\ \A k \in Key : KeyInv(k)

\* The constants stay what they are.
LEMMA StaysAccepted == Accepted => Accepted'
  BY DEF Accepted, SettingsAccepted, MaximumProfileAttempt

\* The history of an attempt that goes on is kept.
LEMMA Going ==
    ASSUME NEW k \in Key, NEW o \in Owner, Track,
           attempt[o][k].pc # "none", attempt'[o][k].pc # "none"
    PROVE  began'[<<o, k>>] = began[<<o, k>>]
<1>1. <<o, k>> \in Owner \X Key /\ <<o, k>>[1] = o /\ <<o, k>>[2] = k
  OBVIOUS
<1> QED
  BY <1>1 DEF Track

\* A step that leaves the row alone, and ends the attempt at most.
LEMMA Untouched ==
    ASSUME NEW k \in Key, NEW o \in Owner, Holds(o, k),
           ops'[k] = ops[k], now' = now, Track,
           attempt'[o][k] = attempt[o][k] \/ attempt'[o][k].pc = "none"
    PROVE  Holds(o, k)'
<1>1. CASE attempt'[o][k].pc = "none"
  BY <1>1 DEF Holds
<1>2. CASE attempt'[o][k].pc # "none"
  <2>1. attempt'[o][k] = attempt[o][k] /\ attempt[o][k].pc # "none"
    BY <1>2
  <2>2. began'[<<o, k>>] = began[<<o, k>>]
    BY <1>2, <2>1, Going
  <2> QED
    BY <2>1, <2>2 DEF Holds, Owned
<1> QED
  BY <1>1, <1>2

\* A claim somebody else can take or write has been overrun, and stays so.
LEMMA Lost ==
    ASSUME NEW k \in Key, NEW o \in Owner, Holds(o, k), now' = now, Track,
           ~Owned(ops[k], o, now), ops[k].status # "COMPLETED",
           attempt'[o][k] = attempt[o][k] \/ attempt'[o][k].pc = "none"
    PROVE  Holds(o, k)'
<1>1. CASE attempt'[o][k].pc = "none"
  BY <1>1 DEF Holds
<1>2. CASE attempt'[o][k].pc # "none"
  <2>1. attempt'[o][k] = attempt[o][k] /\ attempt[o][k].pc # "none"
    BY <1>2
  <2>2. began'[<<o, k>>] = began[<<o, k>>]
    BY <1>2, <2>1, Going
  <2> QED
    BY <2>1, <2>2 DEF Holds
<1> QED
  BY <1>1, <1>2

\* A step that takes the operation and begins an attempt at it.
LEMMA Taken ==
    ASSUME NEW k \in Key, NEW o \in Owner, Accepted, Holds(o, k), now \in Nat,
           now' = now, Track, attempt'[o][k].pc = "provision",
           ops'[k].status = "CLAIMED", ops'[k].token = o, ops'[k].expires = now + Lease
    PROVE  Holds(o, k)'
<1>0. Lease \in Nat \ {0}
  BY RegistrationAssumption
<1>1. <<o, k>> \in Owner \X Key /\ <<o, k>>[1] = o /\ <<o, k>>[2] = k
  OBVIOUS
<1>2. began'[<<o, k>>] \in Nat /\ began'[<<o, k>>] <= now
  BY <1>1 DEF Track, Holds
<1>3. Owned(ops[k], o, now)'
  BY <1>0 DEF Owned
<1> QED
  BY <1>0, <1>2, <1>3 DEF Holds

\* A step of the attempt that leaves the row alone and does not end it.
LEMMA Moved ==
    ASSUME NEW k \in Key, NEW o \in Owner, Holds(o, k), now' = now, ops'[k] = ops[k],
           Track, attempt[o][k].pc \in {"provision", "finalize"},
           attempt'[o][k].pc \in {"finalize", "retry", "block"}
    PROVE  Holds(o, k)'
<1>1. began'[<<o, k>>] = began[<<o, k>>]
  BY Going
<1> QED
  BY <1>1 DEF Holds, Owned

\* The attempt's commit, when it does not learn of it.
LEMMA CompletedUnknown ==
    ASSUME NEW k \in Key, NEW o \in Owner, Holds(o, k), now' = now, Track,
           attempt[o][k].pc # "none",
           ops'[k].status = "COMPLETED", attempt'[o][k].pc \in {"retry", "block"}
    PROVE  Holds(o, k)'
<1>1. began'[<<o, k>>] = began[<<o, k>>]
  BY Going
<1> QED
  BY <1>1 DEF Holds

\* Transactions use the time they run at.
LEMMA NoStall == ASSUME now \in Nat, Accepted PROVE ClockReading \subseteq {now}
  BY DEF Accepted, ClockReading

\* The requests of clients and the reconciler, up to the attempt.
LEMMA LeaseClaims ==
    ASSUME TypeOK, LeaseInv, Track,
           \/ \E h \in Handler, r \in Request : Send(h, r)
           \/ \E h \in Handler : Register(h)
           \/ \E r \in Reconciler : RunOnce(r)
    PROVE  LeaseInv'
<1>t. now \in Nat /\ ClockReading \subseteq {now} /\ Accepted /\ Accepted'
  BY NoStall, StaysAccepted DEF TypeOK, LeaseInv
<1>s. ASSUME UNCHANGED <<ops, attempt, now>> PROVE LeaseInv'
  <2> SUFFICES ASSUME NEW k \in Key, NEW o \in Owner PROVE Holds(o, k)'
    BY <1>t DEF LeaseInv, KeyInv
  <2> QED
    BY <1>s, Untouched DEF LeaseInv, KeyInv
<1>1. ASSUME NEW h \in Handler, NEW r \in Request, Send(h, r) PROVE LeaseInv'
  BY <1>1, <1>s DEF Send
<1>2. ASSUME NEW h \in Handler, LoadByKey(h) \/ LookupEmail(h) \/ ReloadByKey(h) PROVE LeaseInv'
  BY <1>2, <1>s DEF LoadByKey, LookupEmail, ReloadByKey
<1>3. ASSUME NEW h \in Handler, TryCreate(h) PROVE LeaseInv'
  <2> DEFINE r == handler[h].request
  <2>1. r \in Request /\ r.key \in Key /\ h \in Owner
    BY <1>3, RegistrationAssumption DEF TryCreate, TypeOK, Owner
  <2>2. CASE ~CanCreate(r.key, r.email)
    BY <1>3, <1>s, <2>2 DEF TryCreate
  <2>3. CASE CanCreate(r.key, r.email)
    <3>1. /\ ops' = [ops EXCEPT ![r.key] = Created(r, h, now)]
          /\ attempt' = [attempt EXCEPT ![h][r.key] = BeginAttempt(Created(r, h, now))]
          /\ now' = now
      BY <1>3, <1>t, <2>3, Zenon DEF TryCreate
    <3> DEFINE row == Created(r, h, now)
               begun == BeginAttempt(row)
    <3>2. /\ row.status = "CLAIMED" /\ row.token = h /\ row.expires = now + Lease
          /\ begun.pc = "provision"
      BY Zenon DEF Created, NoOperation, BeginAttempt, NoAttempt
    <3> HIDE DEF row, begun
    <3>k. PICK key \in Key : key = r.key
      BY <2>1
    <3>3. ops[key].status = "ABSENT"
      BY <2>3, <3>k DEF CanCreate
    <3>4. ops'[key] = row /\ attempt'[h][key] = begun
      BY <2>1, <3>1, <3>k DEF TypeOK, row, begun
    <3>5. \A k \in Key, p \in Owner : k # key \/ p # h => attempt'[p][k] = attempt[p][k]
      BY <2>1, <3>1, <3>k DEF TypeOK
    <3>6. \A k \in Key \ {key} : ops'[k] = ops[k]
      BY <2>1, <3>1, <3>k DEF TypeOK
    <3>7. Holds(h, key)'
      BY <1>t, <2>1, <3>1, <3>2, <3>4, Taken DEF LeaseInv, KeyInv
    <3>8. ASSUME NEW p \in Owner \ {h} PROVE Holds(p, key)'
      BY <3>1, <3>3, <3>5, Lost DEF LeaseInv, KeyInv, Owned
    <3>9. ASSUME NEW k \in Key \ {key}, NEW p \in Owner PROVE Holds(p, k)'
      BY <3>1, <3>5, <3>6, Untouched DEF LeaseInv, KeyInv
    <3> QED
      BY <1>t, <3>7, <3>8, <3>9 DEF LeaseInv, KeyInv
  <2> QED
    BY <2>2, <2>3
<1>c. ASSUME NEW o \in Owner, NEW B \in SUBSET Key, now' = now,
             \A k \in B : Eligible(ops[k], now),
             \A k \in Key : ops'[k] = IF k \in B THEN Claimed(ops[k], o, now) ELSE ops[k],
             \A k \in Key, p \in Owner :
               IF p = o /\ k \in B THEN attempt'[p][k] = BeginAttempt(ops[k])
               ELSE attempt'[p][k] = attempt[p][k] \/ attempt'[p][k].pc = "none"
      PROVE  LeaseInv'
  <2>1. ASSUME NEW k \in B PROVE Holds(o, k)'
    <3>1. attempt'[o][k].pc = "provision"
      <4>1. attempt'[o][k] = BeginAttempt(ops[k])
        BY <1>c, <2>1
      <4> QED
        BY <4>1 DEF BeginAttempt, NoAttempt
    <3>2. ops'[k].status = "CLAIMED" /\ ops'[k].token = o /\ ops'[k].expires = now + Lease
      <4>1. ops'[k] = Claimed(ops[k], o, now) /\ ops[k] \in RegistrationOperation
        BY <1>c, <2>1 DEF TypeOK
      <4> QED
        BY <4>1 DEF Claimed, RegistrationOperation
    <3> QED
      BY <1>c, <1>t, <2>1, <3>1, <3>2, Taken DEF LeaseInv, KeyInv
  <2>2. ASSUME NEW k \in B, NEW p \in Owner \ {o} PROVE Holds(p, k)'
    <3>1. ops[k].status # "COMPLETED" /\ ~Owned(ops[k], p, now)
      BY <1>c, <1>t, <2>2 DEF Eligible, Owned, TypeOK, RegistrationOperation
    <3>2. attempt'[p][k] = attempt[p][k] \/ attempt'[p][k].pc = "none"
      BY <1>c, <2>2
    <3> QED
      BY <1>c, <2>2, <3>1, <3>2, Lost DEF LeaseInv, KeyInv
  <2>3. ASSUME NEW k \in Key \ B, NEW p \in Owner PROVE Holds(p, k)'
    <3>1. ops'[k] = ops[k]
      BY <1>c, <2>3
    <3>2. attempt'[p][k] = attempt[p][k] \/ attempt'[p][k].pc = "none"
      BY <1>c, <2>3
    <3> QED
      BY <1>c, <3>1, <3>2, Untouched DEF LeaseInv, KeyInv
  <2> QED
    BY <1>t, <2>1, <2>2, <2>3 DEF LeaseInv, KeyInv
<1>4. ASSUME NEW h \in Handler, ClaimByKey(h) PROVE LeaseInv'
  <2>1. h \in Owner /\ handler[h].request.key \in Key
    BY <1>4, RegistrationAssumption DEF ClaimByKey, TypeOK, Owner
  <2>k. PICK k \in Key : k = handler[h].request.key
    BY <2>1
  <2>2. now' = now
    BY <1>4 DEF ClaimByKey
  <2>3. CASE ~Eligible(ops[k], now)
    <3>1. UNCHANGED <<ops, attempt>>
      BY <1>4, <1>t, <2>k, <2>3, Zenon DEF ClaimByKey
    <3> QED
      BY <1>s, <2>2, <3>1
  <2>4. CASE Eligible(ops[k], now)
    <3>1. /\ ops' = [ops EXCEPT ![k] = Claimed(ops[k], h, now)]
          /\ attempt' = [attempt EXCEPT ![h][k] = BeginAttempt(ops[k])]
      BY <1>4, <1>t, <2>k, <2>4 DEF ClaimByKey
    <3>2. \A j \in Key : ops'[j] = IF j \in {k} THEN Claimed(ops[j], h, now) ELSE ops[j]
      BY <2>1, <3>1 DEF TypeOK
    <3>3. \A j \in Key, p \in Owner :
            IF p = h /\ j \in {k} THEN attempt'[p][j] = BeginAttempt(ops[j])
            ELSE attempt'[p][j] = attempt[p][j] \/ attempt'[p][j].pc = "none"
      BY <2>1, <3>1 DEF TypeOK
    <3>4. {k} \in SUBSET Key /\ \A j \in {k} : Eligible(ops[j], now)
      BY <2>1, <2>4
    <3> QED
      BY <1>c, <2>1, <2>2, <3>2, <3>3, <3>4
  <2> QED
    BY <2>3, <2>4
<1>5. ASSUME NEW r \in Reconciler, RunOnce(r) PROVE LeaseInv'
  <2>1. r \in Owner /\ now' = now
    BY <1>5 DEF RunOnce, Owner
  <2>2. PICK at \in ClockReading, locked \in SUBSET Lockable, B \in SUBSET Key :
         /\ IsBatch(B, {k \in Key \ locked : Eligible(ops[k], at)})
         /\ ops' = [k \in Key |-> IF k \in B THEN Claimed(ops[k], r, at) ELSE ops[k]]
         /\ attempt' = [attempt EXCEPT ![r] =
                         [k \in Key |-> IF k \in B THEN BeginAttempt(ops[k]) ELSE NoAttempt]]
    BY <1>5, Zenon DEF RunOnce
  <2>3. at = now
    BY <1>t
  <2>4. \A k \in B : Eligible(ops[k], now)
    BY <2>2, <2>3 DEF IsBatch
  <2>5. \A k \in Key : ops'[k] = IF k \in B THEN Claimed(ops[k], r, now) ELSE ops[k]
    BY <2>2, <2>3
  <2>6. \A k \in Key, p \in Owner :
          IF p = r /\ k \in B THEN attempt'[p][k] = BeginAttempt(ops[k])
          ELSE attempt'[p][k] = attempt[p][k] \/ attempt'[p][k].pc = "none"
    <3>1. NoAttempt.pc = "none"
      BY DEF NoAttempt
    <3> QED
      BY <2>1, <2>2, <3>1 DEF TypeOK
  <2> QED
    BY <1>c, <2>1, <2>4, <2>5, <2>6
<1> QED
  BY <1>1, <1>2, <1>3, <1>4, <1>5 DEF Register

\* A step of one attempt touches no other operation and no other attempt.
LEMMA OneAttempt ==
    ASSUME TypeOK, LeaseInv, Track, now' = now, NEW o \in Owner, NEW k \in Key,
           NEW a, attempt' = [attempt EXCEPT ![o][k] = a],
           \A j \in Key \ {k} : ops'[j] = ops[j], KeyInv(k)'
    PROVE  LeaseInv'
<1>1. \A j \in Key \ {k} : \A p \in Owner : attempt'[p][j] = attempt[p][j]
  BY DEF TypeOK
<1>2. ASSUME NEW j \in Key \ {k}, NEW p \in Owner PROVE Holds(p, j)'
  BY <1>1, Untouched DEF LeaseInv, KeyInv
<1> QED
  BY <1>2, StaysAccepted DEF LeaseInv, KeyInv

\* The steps of the attempts.
LEMMA LeaseAttempts ==
    ASSUME TypeOK, LeaseInv, Track, NEW o \in Owner, NEW k \in Key,
           Resume(o, k) \/ Failure(o, k)
    PROVE  LeaseInv'
<1>t. now \in Nat /\ ClockReading \subseteq {now} /\ KeyInv(k) /\ attempt[o][k] \in Attempt
  BY NoStall DEF TypeOK, LeaseInv
<1>h. Holds(o, k) /\ \A p \in Owner \ {o} : Holds(p, k)
  BY <1>t DEF KeyInv
<1>n. now' = now
  BY DEF Resume, Failure, Provisioned, Finalize, ScheduleRetry, BlockOperation,
         ProvisionUnavailable, ProvisionRejected, FinalizeUncertain, FinalizeError, AttemptRaises
<1>p. ASSUME NEW a, attempt' = [attempt EXCEPT ![o][k] = a]
      PROVE  attempt'[o][k] = a /\ \A p \in Owner \ {o} : attempt'[p][k] = attempt[p][k]
  BY <1>p DEF TypeOK
<1>l. ASSUME Owned(ops[k], o, now), \A p \in Owner \ {o} : attempt'[p][k] = attempt[p][k]
      PROVE  \A p \in Owner \ {o} : Holds(p, k)'
  BY <1>h, <1>l, <1>n, Lost DEF Owned
<1>u. ASSUME ops' = ops, \A p \in Owner \ {o} : attempt'[p][k] = attempt[p][k]
      PROVE  \A p \in Owner \ {o} : Holds(p, k)'
  BY <1>h, <1>u, <1>n, Untouched
<1>a. ASSUME NEW a \in Attempt, GoTo(o, k, a), a.pc \in {"finalize", "retry", "block"},
             attempt[o][k].pc \in {"provision", "finalize"}, ops' = ops
      PROVE  LeaseInv'
  <2>1. attempt' = [attempt EXCEPT ![o][k] = a]
    BY <1>a DEF GoTo
  <2>2. KeyInv(k)'
    <3>1. Holds(o, k)'
      BY <1>h, <1>n, <1>a, <1>p, <2>1, Moved
    <3> QED
      BY <1>a, <1>p, <1>u, <2>1, <3>1 DEF KeyInv
  <2> QED
    BY <1>n, <1>a, <2>1, <2>2, OneAttempt
<1>b. ASSUME NEW answer, Finish(o, k, answer), Owned(ops[k], o, now),
             \A j \in Key \ {k} : ops'[j] = ops[j]
      PROVE  LeaseInv'
  <2>1. attempt' = [attempt EXCEPT ![o][k] = NoAttempt] /\ NoAttempt.pc = "none"
    BY <1>b DEF Finish, NoAttempt
  <2>2. KeyInv(k)'
    <3>1. attempt'[o][k].pc = "none" /\ \A p \in Owner \ {o} : attempt'[p][k] = attempt[p][k]
      BY <1>p, <2>1
    <3>2. Holds(o, k)'
      BY <3>1 DEF Holds
    <3> QED
      BY <1>b, <1>l, <3>1, <3>2 DEF KeyInv
  <2> QED
    BY <1>n, <1>b, <2>1, <2>2, OneAttempt
<1>c. ASSUME NEW answer, Finish(o, k, answer), ops' = ops PROVE LeaseInv'
  <2>1. attempt' = [attempt EXCEPT ![o][k] = NoAttempt] /\ NoAttempt.pc = "none"
    BY <1>c DEF Finish, NoAttempt
  <2>2. KeyInv(k)'
    <3>1. attempt'[o][k].pc = "none" /\ \A p \in Owner \ {o} : attempt'[p][k] = attempt[p][k]
      BY <1>p, <2>1
    <3>2. Holds(o, k)'
      BY <3>1 DEF Holds
    <3> QED
      BY <1>c, <1>u, <3>1, <3>2 DEF KeyInv
  <2> QED
    BY <1>n, <1>c, <2>1, <2>2, OneAttempt
<1>r. /\ RetryOrBlock(attempt[o][k]) \in Attempt
      /\ RetryOrBlock(attempt[o][k]).pc \in {"retry", "block"}
  <2>1. RetryOrBlock(attempt[o][k]) \in Attempt
    BY <1>t, AttemptTypes
  <2>2. RetryOrBlock(attempt[o][k]).pc \in {"retry", "block"}
    BY <1>t, Zenon DEF Attempt, RetryOrBlock, Blocking
  <2> QED
    BY <2>1, <2>2
<1>k. ASSUME NEW answer \in {"unavailable", "error"}
      PROVE  /\ Blocking(attempt[o][k], answer) \in Attempt
             /\ Blocking(attempt[o][k], answer).pc = "block"
  BY <1>t, Zenon DEF Attempt, Blocking
<1>1. CASE Provisioned(o, k)
  <2> DEFINE a == [attempt[o][k] EXCEPT !.pc = "finalize"]
  <2>1. a \in Attempt /\ a.pc = "finalize"
    BY <1>t, Zenon DEF Attempt
  <2>2. GoTo(o, k, a) /\ attempt[o][k].pc = "provision" /\ ops' = ops
    BY <1>1, Zenon DEF Provisioned
  <2> HIDE DEF a
  <2> QED
    BY <1>a, <2>1, <2>2
<1>2. CASE ProvisionUnavailable(o, k)
  BY <1>2, <1>a, <1>r DEF ProvisionUnavailable
<1>3. CASE ProvisionRejected(o, k)
  BY <1>3, <1>a, <1>k DEF ProvisionRejected
<1>4. CASE FinalizeError(o, k)
  BY <1>4, <1>a, <1>k DEF FinalizeError
<1>5. CASE AttemptRaises(o, k)
  BY <1>5, <1>c DEF AttemptRaises
<1>6. CASE ScheduleRetry(o, k)
  <2>1. PICK delay \in RetryDelay, answer \in Outcome("pending") :
          /\ ops' = IF Owned(ops[k], o, now)
                    THEN [ops EXCEPT ![k] = Rescheduled(ops[k], now + delay)] ELSE ops
          /\ Finish(o, k, answer)
    BY <1>6, <1>t, Zenon DEF ScheduleRetry
  <2>2. \A j \in Key \ {k} : ops'[j] = ops[j]
    BY <2>1 DEF TypeOK
  <2> QED
    BY <1>b, <1>c, <2>1, <2>2
<1>7. CASE BlockOperation(o, k)
  <2>1. PICK answer \in Outcome(attempt[o][k].answer) :
          /\ ops' = IF Owned(ops[k], o, now) THEN [ops EXCEPT ![k] = Blocked(ops[k])] ELSE ops
          /\ Finish(o, k, answer)
    BY <1>7, <1>t, Zenon DEF BlockOperation
  <2>2. \A j \in Key \ {k} : ops'[j] = ops[j]
    BY <2>1 DEF TypeOK
  <2> QED
    BY <1>b, <1>c, <2>1, <2>2
<1>8. CASE Finalize(o, k)
  <2>1. attempt[o][k].pc = "finalize"
    BY <1>8 DEF Finalize
  <2>2. \/ Finish(o, k, "pending") /\ ops' = ops
        \/ /\ Owned(ops[k], o, now) /\ Finish(o, k, "completed")
           /\ CommitFinalize(attempt[o][k], k)
        \/ GoTo(o, k, Blocking(attempt[o][k], "unavailable")) /\ ops' = ops
    BY <1>8, <1>t, Zenon DEF Finalize
  <2>3. CommitFinalize(attempt[o][k], k) => \A j \in Key \ {k} : ops'[j] = ops[j]
    BY DEF CommitFinalize, TypeOK
  <2> QED
    BY <1>a, <1>b, <1>c, <1>k, <2>1, <2>2, <2>3
<1>9. CASE FinalizeUncertain(o, k)
  <2>1. attempt[o][k].pc = "finalize" /\ GoTo(o, k, RetryOrBlock(attempt[o][k]))
    BY <1>9 DEF FinalizeUncertain
  <2>2. ops' = ops \/ (Owned(ops[k], o, now) /\ CommitFinalize(attempt[o][k], k))
    BY <1>9, <1>t, Zenon DEF FinalizeUncertain
  <2>3. CASE ops' = ops
    BY <1>a, <1>r, <2>1, <2>3
  <2>4. CASE Owned(ops[k], o, now) /\ CommitFinalize(attempt[o][k], k)
    <3>1. (\A j \in Key \ {k} : ops'[j] = ops[j]) /\ ops'[k] = Completed(ops[k])
      BY <2>4 DEF CommitFinalize, TypeOK
    <3>2. ops'[k].status = "COMPLETED"
      BY <3>1 DEF Completed, TypeOK, RegistrationOperation
    <3>3. attempt' = [attempt EXCEPT ![o][k] = RetryOrBlock(attempt[o][k])]
      BY <2>1 DEF GoTo
    <3>4. KeyInv(k)'
      <4>1. Holds(o, k)'
        BY <1>h, <1>n, <1>p, <1>r, <2>1, <3>2, <3>3, CompletedUnknown
      <4> QED
        BY <1>l, <1>p, <2>4, <3>3, <4>1 DEF KeyInv
    <3> QED
      BY <1>n, <3>1, <3>3, <3>4, OneAttempt
  <2> QED
    BY <2>2, <2>3, <2>4
<1> QED
  BY <1>1, <1>2, <1>3, <1>4, <1>5, <1>6, <1>7, <1>8, <1>9 DEF Resume, Failure

\* The lease of an attempt that has not overrun the maximum does not run out.
LEMMA LeaseTime == ASSUME TypeOK, LeaseInv, LeaseTick PROVE LeaseInv'
<1>1. /\ now \in Nat /\ now' = now + 1
      /\ UNCHANGED <<ops, attempt, began>>
  BY DEF TypeOK, LeaseTick, Tick
<1>2. MaximumProfileAttempt \in Nat /\ Lease \in Nat /\ MaximumProfileAttempt < Lease
  BY RegistrationAssumption DEF LeaseInv, Accepted, SettingsAccepted, MaximumProfileAttempt
<1>3. ASSUME NEW k \in Key, NEW o \in Owner PROVE Holds(o, k)'
  <2>1. Holds(o, k) /\ ops[k].expires \in Nat
    BY DEF LeaseInv, KeyInv, TypeOK, RegistrationOperation
  <2>2. (MaximumProfileAttempt)' = MaximumProfileAttempt
    BY DEF MaximumProfileAttempt
  <2> QED
    BY <1>1, <1>2, <2>1, <2>2 DEF Holds, Owned
<1> QED
  BY <1>3, StaysAccepted DEF LeaseInv, KeyInv

\* Every step preserves the invariant.
LEMMA LeaseInvStep == TypeOK /\ LeaseInv /\ [LeaseNext]_leaseVars => LeaseInv'
<1> SUFFICES ASSUME TypeOK, LeaseInv, [LeaseNext]_leaseVars PROVE LeaseInv'
  OBVIOUS
<1>0. Accepted'
  BY StaysAccepted DEF LeaseInv
<1>1. CASE LeaseStep /\ Track
  <2>1. ASSUME NEW k \in Key, Redrive(k) PROVE LeaseInv'
    <3>1. /\ now' = now /\ attempt' = attempt
          /\ \A j \in Key \ {k} : ops'[j] = ops[j]
      BY <2>1 DEF Redrive, TypeOK
    <3>2. ops[k].status = "BLOCKED"
      BY <2>1 DEF Redrive
    <3>3. ASSUME NEW o \in Owner PROVE Holds(o, k)'
      BY <1>1, <3>1, <3>2, Lost DEF LeaseInv, KeyInv, Owned
    <3>4. ASSUME NEW j \in Key \ {k}, NEW o \in Owner PROVE Holds(o, j)'
      BY <1>1, <3>1, Untouched DEF LeaseInv, KeyInv
    <3> QED
      BY <1>0, <3>3, <3>4 DEF LeaseInv, KeyInv
  <2>2. ASSUME NEW o \in Owner, Crash(o) PROVE LeaseInv'
    <3>1. now' = now /\ ops' = ops /\ NoAttempt.pc = "none"
      BY <2>2 DEF Crash, NoAttempt
    <3>2. \A p \in Owner, k \in Key :
            attempt'[p][k] = attempt[p][k] \/ attempt'[p][k] = NoAttempt
      BY <2>2 DEF Crash, TypeOK
    <3>3. ASSUME NEW k \in Key, NEW p \in Owner PROVE Holds(p, k)'
      BY <1>1, <3>1, <3>2, Untouched DEF LeaseInv, KeyInv
    <3> QED
      BY <1>0, <3>3 DEF LeaseInv, KeyInv
  <2> QED
    BY <1>1, <2>1, <2>2, LeaseClaims, LeaseAttempts DEF LeaseStep
<1>2. CASE LeaseTick
  BY <1>2, LeaseTime
<1>3. CASE UNCHANGED leaseVars
  <2>1. UNCHANGED <<ops, attempt, now, began>>
    BY <1>3 DEF leaseVars, vars
  <2>2. ASSUME NEW k \in Key, NEW o \in Owner PROVE Holds(o, k)'
    BY <2>1 DEF LeaseInv, KeyInv, Holds, Owned
  <2> QED
    BY <1>0, <2>2 DEF LeaseInv, KeyInv
<1> QED
  BY <1>1, <1>2, <1>3 DEF LeaseNext

\* With the settings Settings.validate_security_contract accepts, an attempt that
\* has lasted no longer than maximum_profile_attempt_seconds holds its claim, or has
\* committed without learning of it: whatever requests, reconcilers, crashes and
\* redrives do meanwhile, and however long other attempts last.
THEOREM ClaimOutlastsMaximum == LeaseSpec => []ClaimLostOnlyByOverrun
<1>1. LeaseInit => TypeOK /\ LeaseInv
  <2> SUFFICES ASSUME LeaseInit PROVE LeaseInv
    BY TypeInit DEF LeaseInit
  <2>1. \A o \in Owner, k \in Key : attempt[o][k].pc = "none"
    BY DEF LeaseInit, Init, NoAttempt
  <2> QED
    BY <2>1 DEF LeaseInv, KeyInv, Holds, LeaseInit, Accepted
<1>2. [LeaseNext]_leaseVars => [Next]_vars
  BY DEF LeaseNext, LeaseStep, LeaseTick, leaseVars, Next
<1>3. TypeOK /\ LeaseInv /\ [LeaseNext]_leaseVars => (TypeOK /\ LeaseInv)'
  BY <1>2, TypeStep, LeaseInvStep
<1>4. LeaseInv => ClaimLostOnlyByOverrun
  BY DEF LeaseInv, KeyInv, Holds, ClaimLostOnlyByOverrun
<1> QED
  BY <1>1, <1>3, <1>4, PTL DEF LeaseSpec
=============================================================================
