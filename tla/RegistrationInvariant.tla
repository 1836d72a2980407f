----------------------- MODULE RegistrationInvariant ------------------------
(***************************************************************************)
(* The safety invariant.  Most steps only move rows between the unfinished *)
(* statuses, or move attempts along: UnfinishedStep states once what such  *)
(* a step must respect.  Creating a row and completing one are the two     *)
(* steps that touch the other tables or the absent and completed rows.     *)
(* For these the lookup before an insert must stay valid, which is proved  *)
(* last, with the invariant itself.                                        *)
(***************************************************************************)
EXTENDS RegistrationSteps

Unfinished == {"PENDING", "CLAIMED", "BLOCKED"}

\* What SnapshotsValid says of one attempt a at operation k of owner o.
SnapshotOf(a, o, k, row, known) ==
    a.pc # "none" =>
        /\ row.status # "ABSENT"
        /\ a.email = row.email
        /\ row.token = o => a.attempts = row.attempts /\ a.password = row.password
        /\ a.pc = "finalize" => k \in known
        /\ a.pc = "retry" => a.attempts + 1 < MaxAttempts

\* A rewrite of an unfinished row that keeps its identity, its password, the
\* claim constraint and the budget.
Rewrites(row, new) ==
    /\ row.status \in Unfinished /\ new.status \in Unfinished
    /\ new.email = row.email /\ new.password = row.password
    /\ new.status = "CLAIMED" <=> new.token # None
    /\ new.attempts <= MaxAttempts
    /\ new.status # "BLOCKED" => new.attempts < MaxAttempts

\* A step that only rewrites unfinished operations within their phase rules,
\* and keeps every attempt a valid snapshot, preserves the invariant.
LEMMA UnfinishedStep ==
    ASSUME TypeOK, TypeOK', RegistrationInv,
           UNCHANGED <<users, events>>, profiles \subseteq profiles',
           \A k \in Key : ops'[k] = ops[k] \/ Rewrites(ops[k], ops'[k]),
           \A o \in Owner, k \in Key :
               SnapshotOf(attempt'[o][k], o, k, ops'[k], profiles')
    PROVE  RegistrationInv'
<1>a. \A k \in Key : ops[k].status \in Status /\ ops'[k].status \in Status
  BY DEF TypeOK, RegistrationOperation
<1>b. \A k \in Key :
        /\ ops'[k].email = ops[k].email
        /\ ops'[k].password = ops[k].password
        /\ ops'[k].status = "ABSENT" <=> ops[k].status = "ABSENT"
        /\ ops'[k].status = "COMPLETED" <=> ops[k].status = "COMPLETED"
  BY DEF Rewrites, Unfinished
<1>1. LifecycleValid'
  <2> SUFFICES ASSUME NEW k \in Key
               PROVE  /\ ops'[k].status = "CLAIMED" <=> ops'[k].token # None
                      /\ ops'[k].password = None <=> ops'[k].status \in {"ABSENT", "COMPLETED"}
                      /\ ops'[k].email = None <=> ops'[k].status = "ABSENT"
    BY DEF LifecycleValid
  <2> QED
    BY <1>b DEF RegistrationInv, LifecycleValid, Rewrites
<1>2. SnapshotsValid'
  BY DEF SnapshotsValid, SnapshotOf
<1>3. CompletionIsAtomic'
  BY <1>b DEF RegistrationInv, CompletionIsAtomic
<1>4. ProfilePrecedesUser'
  BY DEF RegistrationInv, ProfilePrecedesUser
<1>5. EmailReserved'
  BY <1>b DEF RegistrationInv, EmailReserved
<1>6. AttemptsWithinBudget'
  <2> SUFFICES ASSUME NEW k \in Key
               PROVE  /\ ops'[k].attempts <= MaxAttempts
                      /\ ops'[k].status \in {"PENDING", "CLAIMED"}
                           => ops'[k].attempts < MaxAttempts
    BY DEF AttemptsWithinBudget, Open
  <2> QED
    BY DEF RegistrationInv, AttemptsWithinBudget, Open, Rewrites
<1> QED
  BY <1>1, <1>2, <1>3, <1>4, <1>5, <1>6 DEF RegistrationInv

\* The invariant, read off one attempt and one row.
LEMMA SnapshotNow ==
    ASSUME RegistrationInv, NEW o \in Owner, NEW k \in Key
    PROVE  SnapshotOf(attempt[o][k], o, k, ops[k], profiles)
  BY DEF RegistrationInv, SnapshotsValid, SnapshotOf

\* The transaction of _finalize.
LEMMA CommitStep ==
    ASSUME TypeOK, TypeOK', RegistrationInv, NEW o \in Owner, NEW k \in Key,
           NEW x \in Attempt,
           attempt[o][k].pc = "finalize",
           ops[k].status = "CLAIMED", ops[k].token = o,
           users[attempt[o][k].email] = NoUser,
           CommitFinalize(attempt[o][k], k),
           UNCHANGED profiles,
           attempt' = [attempt EXCEPT ![o][k] = x],
           x.pc # "none" => /\ x.email = attempt[o][k].email
                            /\ x.pc # "finalize"
                            /\ x.pc = "retry" => x.attempts + 1 < MaxAttempts
    PROVE  RegistrationInv'
<1> DEFINE a == attempt[o][k]
           e == ops[k].email
<1> USE RegistrationAssumption
<1>a. a.email = e /\ k \in profiles /\ SnapshotOf(a, o, k, ops[k], profiles)
  BY SnapshotNow DEF SnapshotOf
<1>b. e \in Email /\ e # None /\ ops[k] \in RegistrationOperation
  BY DEF RegistrationInv, LifecycleValid, TypeOK, RegistrationOperation
<1>c. /\ ops'[k].status = "COMPLETED" /\ ops'[k].token = None
      /\ ops'[k].email = e /\ ops'[k].password = None
      /\ ops'[k].attempts = ops[k].attempts + 1
      /\ \A j \in Key \ {k} : ops'[j] = ops[j]
  <2>1. ops' = [ops EXCEPT ![k] = Completed(ops[k])]
    BY DEF CommitFinalize
  <2>2. /\ Completed(ops[k]).status = "COMPLETED" /\ Completed(ops[k]).token = None
        /\ Completed(ops[k]).email = e /\ Completed(ops[k]).password = None
        /\ Completed(ops[k]).attempts = ops[k].attempts + 1
    BY <1>b DEF RegistrationOperation, Completed
  <2> QED
    BY <2>1, <2>2 DEF TypeOK
<1>d. /\ users'[e].id = k
      /\ \A f \in Email \ {e} : users'[f] = users[f]
  BY <1>a, <1>b DEF CommitFinalize, TypeOK
<1>e. /\ events'[k] = events[k] + 1
      /\ \A j \in Key \ {k} : events'[j] = events[j]
  BY DEF CommitFinalize, TypeOK
<1>f. \A p \in Owner, j \in Key :
        attempt'[p][j] = IF p = o /\ j = k THEN x ELSE attempt[p][j]
  BY DEF TypeOK
<1>g. \A j \in Key \ {k} : ops[j].email # e
  BY <1>b DEF RegistrationInv, EmailReserved
<1> HIDE DEF a, e
<1>1. LifecycleValid'
  BY <1>b, <1>c DEF RegistrationInv, LifecycleValid
<1>2. SnapshotsValid'
  <2> SUFFICES ASSUME NEW p \in Owner, NEW j \in Key
               PROVE  SnapshotOf(attempt'[p][j], p, j, ops'[j], profiles')
    BY DEF SnapshotsValid, SnapshotOf
  <2>1. CASE p = o /\ j = k
    BY <2>1, <1>a, <1>c, <1>f DEF SnapshotOf, a
  <2>2. CASE p # o /\ j = k
    <3>1. SnapshotOf(attempt[p][k], p, k, ops[k], profiles)
      BY SnapshotNow
    <3> QED
      BY <2>2, <3>1, <1>c, <1>f DEF SnapshotOf, e
  <2>3. CASE j # k
    <3>1. SnapshotOf(attempt[p][j], p, j, ops[j], profiles)
      BY SnapshotNow
    <3> QED
      BY <2>3, <3>1, <1>c, <1>f
  <2> QED
    BY <2>1, <2>2, <2>3
<1>3. CompletionIsAtomic'
  <2> SUFFICES ASSUME NEW j \in Key
               PROVE  /\ events'[j] = IF ops'[j].status = "COMPLETED" THEN 1 ELSE 0
                      /\ ops'[j].status = "COMPLETED" => users'[ops'[j].email].id = j
                      /\ \A f \in Email : users'[f].id = j =>
                           ops'[j].status = "COMPLETED" /\ ops'[j].email = f
    BY DEF CompletionIsAtomic
  <2>1. CASE j = k
    <3>1. events[k] = 0
      BY DEF RegistrationInv, CompletionIsAtomic
    <3>2. \A f \in Email \ {e} : users'[f].id # k
      BY <1>d DEF RegistrationInv, CompletionIsAtomic
    <3> QED
      BY <2>1, <3>1, <3>2, <1>c, <1>d, <1>e
  <2>2. CASE j # k
    <3>1. ops[j].status = "COMPLETED" => ops[j].email \in Email \ {e}
      BY <2>2, <1>g DEF RegistrationInv, LifecycleValid, TypeOK, RegistrationOperation
    <3> QED
      BY <2>2, <3>1, <1>c, <1>d, <1>e DEF RegistrationInv, CompletionIsAtomic
  <2> QED
    BY <2>1, <2>2
<1>4. ProfilePrecedesUser'
  BY <1>a, <1>d DEF RegistrationInv, ProfilePrecedesUser
<1>5. EmailReserved'
  <2>1. \A j \in Key : ops'[j].email = ops[j].email
    BY <1>c DEF e
  <2>2. \A j \in Key : ops'[j].status # "ABSENT" /\ ops'[j].status # "COMPLETED"
          => users'[ops'[j].email] = NoUser
    <3> SUFFICES ASSUME NEW j \in Key, ops'[j].status # "ABSENT", ops'[j].status # "COMPLETED"
                 PROVE  users'[ops'[j].email] = NoUser
      OBVIOUS
    <3>1. j # k /\ ops'[j] = ops[j]
      BY <1>c
    <3>2. ops[j].email \in Email \ {e}
      BY <3>1, <1>g DEF RegistrationInv, LifecycleValid, TypeOK, RegistrationOperation
    <3> QED
      BY <3>1, <3>2, <1>d DEF RegistrationInv, EmailReserved
  <2>3. \A j \in Key : ops'[j].status # "ABSENT" => ops[j].status # "ABSENT"
    BY <1>c
  <2> QED
    BY <2>1, <2>2, <2>3 DEF RegistrationInv, EmailReserved
<1>6. AttemptsWithinBudget'
  <2>1. ops[k].attempts < MaxAttempts /\ ops[k].attempts \in Nat
    BY <1>b DEF RegistrationInv, AttemptsWithinBudget, Open, RegistrationOperation
  <2> QED
    BY <2>1, <1>c DEF RegistrationInv, AttemptsWithinBudget, Open
<1> QED
  BY <1>1, <1>2, <1>3, <1>4, <1>5, <1>6 DEF RegistrationInv

\* The insert of try_create: a fresh key, an email nobody holds.
LEMMA CreateStep ==
    ASSUME TypeOK, TypeOK', RegistrationInv, NEW h \in Handler, NEW r \in Request,
           NEW at \in Nat,
           users[r.email] = NoUser, CanCreate(r.key, r.email),
           ops' = [ops EXCEPT ![r.key] = Created(r, h, at)],
           attempt' = [attempt EXCEPT ![h][r.key] = BeginAttempt(Created(r, h, at))],
           UNCHANGED <<users, events, profiles>>
    PROVE  RegistrationInv'
<1> DEFINE k == r.key
           new == Created(r, h, at)
<1> USE RegistrationAssumption
<1>a. k \in Key /\ r.email \in Email /\ r.password \in Password /\ h \in Owner
  BY DEF Owner
<1>b. /\ new.status = "CLAIMED" /\ new.token = h /\ new.email = r.email
      /\ new.password = r.password /\ new.attempts = 0
      /\ new \in RegistrationOperation
  <2>1. new \in RegistrationOperation
    BY <1>a, CreatedType
  <2> QED
    BY <2>1 DEF Created, NoOperation
<1> HIDE DEF new
<1>c. /\ ops'[k] = new
      /\ \A j \in Key \ {k} : ops'[j] = ops[j]
  BY <1>a DEF TypeOK, new
<1>d. /\ BeginAttempt(new).pc = "provision" /\ BeginAttempt(new).attempts = 0
      /\ BeginAttempt(new).email = r.email /\ BeginAttempt(new).password = r.password
  BY <1>b DEF BeginAttempt, NoAttempt
<1>f. \A p \in Owner, j \in Key :
        attempt'[p][j] = IF p = h /\ j = k THEN BeginAttempt(new) ELSE attempt[p][j]
  BY <1>a DEF TypeOK, new
<1>g. /\ ops[k].status = "ABSENT" /\ \A j \in Key : ops[j].email # r.email
      /\ users[r.email].id = None
  BY DEF CanCreate, NoUser
<1> HIDE DEF k
<1>1. LifecycleValid'
  BY <1>a, <1>b, <1>c DEF RegistrationInv, LifecycleValid
<1>2. SnapshotsValid'
  <2> SUFFICES ASSUME NEW p \in Owner, NEW j \in Key
               PROVE  SnapshotOf(attempt'[p][j], p, j, ops'[j], profiles')
    BY DEF SnapshotsValid, SnapshotOf
  <2>0. SnapshotOf(attempt[p][j], p, j, ops[j], profiles)
    BY SnapshotNow
  <2>1. CASE p = h /\ j = k
    BY <2>1, <1>b, <1>c, <1>d, <1>f DEF SnapshotOf
  <2>2. CASE p # h /\ j = k
    BY <2>0, <2>2, <1>f, <1>g DEF SnapshotOf
  <2>3. CASE j # k
    BY <2>0, <2>3, <1>c, <1>f
  <2> QED
    BY <2>1, <2>2, <2>3
<1>3. CompletionIsAtomic'
  BY <1>b, <1>c, <1>g DEF RegistrationInv, CompletionIsAtomic
<1>4. ProfilePrecedesUser'
  BY DEF RegistrationInv, ProfilePrecedesUser
<1>5. EmailReserved'
  <2> SUFFICES ASSUME NEW j \in Key, ops'[j].status # "ABSENT"
               PROVE  /\ \A other \in Key \ {j} : ops'[other].email # ops'[j].email
                      /\ ops'[j].status # "COMPLETED" => users'[ops'[j].email] = NoUser
    BY DEF EmailReserved
  <2>1. CASE j = k
    BY <2>1, <1>b, <1>c, <1>g
  <2>2. CASE j # k
    BY <2>2, <1>b, <1>c, <1>g DEF RegistrationInv, EmailReserved
  <2> QED
    BY <2>1, <2>2
<1>6. AttemptsWithinBudget'
  BY <1>b, <1>c DEF RegistrationInv, AttemptsWithinBudget, Open
<1> QED
  BY <1>1, <1>2, <1>3, <1>4, <1>5, <1>6 DEF RegistrationInv

\* A step that leaves the tables alone and moves the attempt of o at k to x.
LEMMA MoveStep ==
    ASSUME TypeOK, TypeOK', RegistrationInv, NEW o \in Owner, NEW k \in Key,
           NEW x \in Attempt,
           UNCHANGED <<ops, users, events>>, profiles \subseteq profiles',
           attempt' = [attempt EXCEPT ![o][k] = x],
           SnapshotOf(x, o, k, ops[k], profiles')
    PROVE  RegistrationInv'
<1>1. \A p \in Owner, j \in Key :
        attempt'[p][j] = IF p = o /\ j = k THEN x ELSE attempt[p][j]
  BY DEF TypeOK
<1>2. ASSUME NEW p \in Owner, NEW j \in Key
      PROVE  SnapshotOf(attempt'[p][j], p, j, ops'[j], profiles')
  <2>1. SnapshotOf(attempt[p][j], p, j, ops[j], profiles')
    BY SnapshotNow DEF SnapshotOf
  <2> QED
    BY <1>1, <2>1
<1> QED
  BY <1>2, UnfinishedStep

\* An attempt ends after rewriting its row, or without touching it.
LEMMA EndStep ==
    ASSUME TypeOK, TypeOK', RegistrationInv, NEW o \in Owner, NEW k \in Key,
           NEW new \in RegistrationOperation,
           \/ ops' = ops
           \/ ops' = [ops EXCEPT ![k] = new] /\ Rewrites(ops[k], new) /\ new.token = None,
           UNCHANGED <<users, events, profiles>>,
           attempt' = [attempt EXCEPT ![o][k] = NoAttempt]
    PROVE  RegistrationInv'
<1>1. \A p \in Owner, j \in Key :
        attempt'[p][j] = IF p = o /\ j = k THEN NoAttempt ELSE attempt[p][j]
  BY AttemptTypes DEF TypeOK
<1>2. \A j \in Key : ops'[j] = ops[j] \/ (Rewrites(ops[j], ops'[j]) /\ ops'[j].token = None)
  BY DEF TypeOK
<1>3. ASSUME NEW p \in Owner, NEW j \in Key
      PROVE  SnapshotOf(attempt'[p][j], p, j, ops'[j], profiles')
  <2>1. SnapshotOf(attempt[p][j], p, j, ops[j], profiles)
    BY SnapshotNow
  <2>2. p # None
    BY RegistrationAssumption
  <2> QED
    BY <1>1, <1>2, <2>1, <2>2 DEF SnapshotOf, NoAttempt, Rewrites, Unfinished
<1> QED
  BY <1>2, <1>3, UnfinishedStep

\* The empty tables satisfy the invariant.
LEMMA InvInit == Init => RegistrationInv
<1> SUFFICES ASSUME Init PROVE RegistrationInv
  OBVIOUS
<1> USE RegistrationAssumption
<1>1. /\ \A k \in Key : /\ ops[k].status = "ABSENT" /\ ops[k].token = None
                        /\ ops[k].email = None /\ ops[k].password = None
                        /\ ops[k].attempts = 0 /\ events[k] = 0
      /\ \A o \in Owner, k \in Key : attempt[o][k].pc = "none"
      /\ \A e \in Email : users[e].id \in {None, LegacyId}
  BY DEF Init, NoOperation, NoAttempt, NoUser, LegacyUser
<1>2. \A e \in Email, k \in Key : users[e].id # k
  BY <1>1
<1> QED
  BY <1>1, <1>2
  DEF RegistrationInv, LifecycleValid, SnapshotsValid, CompletionIsAtomic,
      ProfilePrecedesUser, EmailReserved, AttemptsWithinBudget, Open

\* Owner o claims a set B of eligible rows; other attempts stay or are dropped.
Claims(o, at, B) ==
    /\ \A k \in B : Eligible(ops[k], at)
    /\ \A k \in Key : ops'[k] = IF k \in B THEN Claimed(ops[k], o, at) ELSE ops[k]
    /\ \A p \in Owner, k \in Key :
         attempt'[p][k] \in IF p = o /\ k \in B THEN {BeginAttempt(ops[k])}
                            ELSE {attempt[p][k], NoAttempt}
    /\ UNCHANGED <<users, events, profiles>>

\* A claim of a set of eligible rows, by one owner.
LEMMA ClaimStep ==
    ASSUME TypeOK, TypeOK', RegistrationInv,
           NEW o \in Owner, NEW at \in Nat, NEW B \in SUBSET Key,
           Claims(o, at, B)
    PROVE  RegistrationInv'
<1>a. /\ \A k \in B : Eligible(ops[k], at)
      /\ \A k \in Key : ops'[k] = IF k \in B THEN Claimed(ops[k], o, at) ELSE ops[k]
      /\ \A p \in Owner, k \in Key :
           attempt'[p][k] \in IF p = o /\ k \in B THEN {BeginAttempt(ops[k])}
                              ELSE {attempt[p][k], NoAttempt}
      /\ UNCHANGED <<users, events, profiles>>
  BY DEF Claims
<1> USE RegistrationAssumption
<1>1. ASSUME NEW k \in B PROVE Rewrites(ops[k], Claimed(ops[k], o, at))
  <2>1. ops[k].status \in {"PENDING", "CLAIMED"} /\ ops[k] \in RegistrationOperation
    BY <1>a, <1>1 DEF Eligible, TypeOK
  <2>2. ops[k].attempts < MaxAttempts /\ ops[k].attempts \in Nat
    BY <2>1 DEF RegistrationInv, AttemptsWithinBudget, Open, RegistrationOperation
  <2>3. /\ Claimed(ops[k], o, at).status = "CLAIMED" /\ Claimed(ops[k], o, at).token = o
        /\ Claimed(ops[k], o, at).email = ops[k].email
        /\ Claimed(ops[k], o, at).password = ops[k].password
        /\ Claimed(ops[k], o, at).attempts = ops[k].attempts
    BY <2>1, RowColumns
  <2> QED
    BY <2>1, <2>2, <2>3 DEF Rewrites, Unfinished
<1>2. \A k \in Key : ops'[k] = ops[k] \/ Rewrites(ops[k], ops'[k])
  BY <1>a, <1>1
<1>3. ASSUME NEW p \in Owner, NEW k \in Key
      PROVE  SnapshotOf(attempt'[p][k], p, k, ops'[k], profiles')
  <2>1. SnapshotOf(attempt[p][k], p, k, ops[k], profiles)
    BY SnapshotNow
  <2>2. CASE k \notin B
    <3>1. ops'[k] = ops[k] /\ attempt'[p][k] \in {attempt[p][k], NoAttempt}
      BY <1>a, <2>2, ZenonT(60)
    <3> QED
      BY <2>1, <3>1, <1>a DEF SnapshotOf, NoAttempt
  <2>3. CASE k \in B
    <3>1. /\ ops'[k].token = o /\ ops'[k].email = ops[k].email
          /\ ops'[k].password = ops[k].password /\ ops'[k].attempts = ops[k].attempts
          /\ ops'[k].status = "CLAIMED"
      <4>1. ops[k] \in RegistrationOperation /\ ops'[k] = Claimed(ops[k], o, at)
        BY <1>a, <2>3 DEF TypeOK
      <4> QED
        BY <4>1, RowColumns
    <3>2. CASE p = o
      <4>1. attempt'[p][k] = BeginAttempt(ops[k]) /\ ops[k] \in RegistrationOperation
        BY <1>a, <2>3, <3>2, ZenonT(60) DEF TypeOK
      <4>2. /\ attempt'[p][k].pc = "provision"
            /\ attempt'[p][k].attempts = ops[k].attempts
            /\ attempt'[p][k].email = ops[k].email
            /\ attempt'[p][k].password = ops[k].password
        BY <4>1, BeginColumns
      <4> QED
        BY <3>1, <4>2 DEF SnapshotOf
    <3>3. CASE p # o
      <4>1. attempt'[p][k] \in {attempt[p][k], NoAttempt}
        BY <1>a, <3>3, ZenonT(60)
      <4> QED
        BY <2>1, <3>1, <3>3, <4>1, <1>a DEF SnapshotOf, NoAttempt
    <3> QED
      BY <3>2, <3>3
  <2> QED
    BY <2>2, <2>3
<1> QED
  BY <1>a, <1>2, <1>3, UnfinishedStep

\* The steps of the request handlers and of the reconciler.
LEMMA InvClaims ==
    ASSUME TypeOK, TypeOK', RegistrationInv, LookupsStayValid,
           \/ \E h \in Handler, r \in Request : Send(h, r)
           \/ \E h \in Handler : Register(h)
           \/ \E r \in Reconciler : RunOnce(r)
    PROVE  RegistrationInv'
<1> USE RegistrationAssumption
<1>s. ASSUME UNCHANGED <<ops, users, events, profiles, attempt>> PROVE RegistrationInv'
  <2>1. \A o \in Owner, k \in Key : SnapshotOf(attempt'[o][k], o, k, ops'[k], profiles')
    BY <1>s, SnapshotNow
  <2> QED
    BY <1>s, <2>1, UnfinishedStep
<1>0. ClockReading \subseteq Nat
  BY DEF TypeOK, ClockReading
<1>1. ASSUME NEW h \in Handler, NEW r \in Request, Send(h, r) PROVE RegistrationInv'
  BY <1>1, <1>s DEF Send
<1>2. ASSUME NEW h \in Handler, LoadByKey(h) \/ LookupEmail(h) \/ ReloadByKey(h)
      PROVE  RegistrationInv'
  BY <1>2, <1>s DEF LoadByKey, LookupEmail, ReloadByKey
<1>3. ASSUME NEW h \in Handler, TryCreate(h) PROVE RegistrationInv'
  <2> DEFINE r == handler[h].request
  <2>1. r \in Request
    BY <1>3 DEF TryCreate, TypeOK
  <2>2. CASE CanCreate(r.key, r.email)
    <3>1. PICK at \in ClockReading :
            /\ ops' = [ops EXCEPT ![r.key] = Created(r, h, at)]
            /\ attempt' = [attempt EXCEPT ![h][r.key] = BeginAttempt(Created(r, h, at))]
      BY <1>3, <2>2 DEF TryCreate
    <3>2. UNCHANGED <<users, events, profiles>>
      BY <1>3 DEF TryCreate
    <3>3. r.email \in Email \ LegacyEmail
      BY <1>3, <2>1 DEF TryCreate, LookupsStayValid, InsertsAreClean
    <3> HIDE DEF r
    <3>4. users[r.email].id \notin Key
      BY <2>2, <3>3 DEF CanCreate, RegistrationInv, CompletionIsAtomic
    <3>5. users[r.email] = NoUser
      BY <3>3, <3>4 DEF LookupsStayValid, AccountsHaveOperations
    <3> QED
      BY <1>0, <2>1, <2>2, <3>1, <3>2, <3>5, CreateStep, Zenon
  <2>3. CASE ~CanCreate(r.key, r.email)
    BY <1>3, <2>3, <1>s DEF TryCreate
  <2> QED
    BY <2>2, <2>3
<1>4. ASSUME NEW h \in Handler, ClaimByKey(h) PROVE RegistrationInv'
  <2> DEFINE k == handler[h].request.key
  <2>1. k \in Key /\ h \in Owner
    BY <1>4 DEF ClaimByKey, TypeOK, Owner
  <2>2. PICK at \in ClockReading :
          \/ /\ Eligible(ops[k], at)
             /\ ops' = [ops EXCEPT ![k] = Claimed(ops[k], h, at)]
             /\ attempt' = [attempt EXCEPT ![h][k] = BeginAttempt(ops[k])]
          \/ UNCHANGED <<ops, attempt>>
    BY <1>4 DEF ClaimByKey
  <2>3. UNCHANGED <<users, events, profiles>>
    BY <1>4 DEF ClaimByKey
  <2> HIDE DEF k
  <2>4. CASE UNCHANGED <<ops, attempt>>
    BY <2>3, <2>4, <1>s
  <2>5. CASE /\ Eligible(ops[k], at)
             /\ ops' = [ops EXCEPT ![k] = Claimed(ops[k], h, at)]
             /\ attempt' = [attempt EXCEPT ![h][k] = BeginAttempt(ops[k])]
    <3>1. \A j \in Key : ops'[j] = IF j \in {k} THEN Claimed(ops[j], h, at) ELSE ops[j]
      BY <2>1, <2>5 DEF TypeOK
    <3>2. \A p \in Owner, j \in Key :
            attempt'[p][j] \in IF p = h /\ j \in {k} THEN {BeginAttempt(ops[j])}
                               ELSE {attempt[p][j], NoAttempt}
      BY <2>1, <2>5 DEF TypeOK
    <3>3. {k} \in SUBSET Key /\ \A j \in {k} : Eligible(ops[j], at)
      BY <2>1, <2>5
    <3>4. at \in Nat
      BY <1>0
    <3>5. Claims(h, at, {k})
      BY <2>3, <3>1, <3>2, <3>3, Zenon DEF Claims
    <3> QED
      BY <2>1, <3>3, <3>4, <3>5, ClaimStep
  <2> QED
    BY <2>2, <2>4, <2>5
<1>5. ASSUME NEW r \in Reconciler, RunOnce(r) PROVE RegistrationInv'
  <2>1. PICK at \in ClockReading, B \in SUBSET Key :
          /\ \A k \in B : Eligible(ops[k], at)
          /\ ops' = [k \in Key |-> IF k \in B THEN Claimed(ops[k], r, at) ELSE ops[k]]
          /\ attempt' = [attempt EXCEPT ![r] =
                          [k \in Key |-> IF k \in B THEN BeginAttempt(ops[k]) ELSE NoAttempt]]
    BY <1>5, ZenonT(60) DEF RunOnce, IsBatch
  <2>2. r \in Owner /\ UNCHANGED <<users, events, profiles>>
    BY <1>5 DEF RunOnce, Owner
  <2>3. \A p \in Owner, k \in Key :
          attempt'[p][k] \in IF p = r /\ k \in B THEN {BeginAttempt(ops[k])}
                             ELSE {attempt[p][k], NoAttempt}
    BY <2>1, <2>2 DEF TypeOK
  <2>4. /\ at \in Nat
        /\ \A k \in Key : ops'[k] = IF k \in B THEN Claimed(ops[k], r, at) ELSE ops[k]
    BY <1>0, <2>1
  <2>5. \A k \in B : Eligible(ops[k], at)
    BY <2>1
  <2>6. Claims(r, at, B)
    BY <2>2, <2>3, <2>4, <2>5 DEF Claims
  <2> QED
    BY <2>2, <2>4, <2>6, ClaimStep
<1> QED
  BY <1>1, <1>2, <1>3, <1>4, <1>5 DEF Register

\* The steps of an attempt.
LEMMA InvAttempts ==
    ASSUME TypeOK, TypeOK', RegistrationInv, NEW o \in Owner, NEW k \in Key,
           Resume(o, k) \/ Failure(o, k)
    PROVE  RegistrationInv'
<1> DEFINE a == attempt[o][k]
<1> USE RegistrationAssumption
<1>a. /\ a \in Attempt /\ ops[k] \in RegistrationOperation
      /\ ClockReading \subseteq Nat
      /\ SnapshotOf(a, o, k, ops[k], profiles)
  BY SnapshotNow DEF TypeOK, ClockReading
<1>b. ASSUME NEW answer \in {"unavailable", "error"}, a.pc # "none",
             GoTo(o, k, Blocking(a, answer)), UNCHANGED <<ops, users, events>>,
             profiles \subseteq profiles'
      PROVE  RegistrationInv'
  <2> HIDE DEF a
  <2>1. Blocking(a, answer) \in Attempt
    BY <1>a, AttemptTypes, Zenon
  <2>2. SnapshotOf(Blocking(a, answer), o, k, ops[k], profiles')
    BY <1>a, <1>b, BlockingColumns DEF SnapshotOf
  <2> QED
    BY <1>b, <2>1, <2>2, MoveStep, Zenon DEF GoTo
<1>c. ASSUME a.pc # "none", GoTo(o, k, RetryOrBlock(a)), UNCHANGED <<ops, users, events>>,
             profiles \subseteq profiles'
      PROVE  RegistrationInv'
  <2> HIDE DEF a
  <2>1. RetryOrBlock(a) \in Attempt
    BY <1>a, AttemptTypes, Zenon
  <2>2. SnapshotOf(RetryOrBlock(a), o, k, ops[k], profiles')
    BY <1>a, <1>c, RetryOrBlockColumns DEF SnapshotOf
  <2> QED
    BY <1>c, <2>1, <2>2, MoveStep, Zenon DEF GoTo
<1>d. ASSUME NEW answer, Finish(o, k, answer), UNCHANGED <<ops, users, events, profiles>>
      PROVE  RegistrationInv'
  BY <1>a, <1>d, EndStep, Zenon DEF Finish
<1>1. CASE Provisioned(o, k)
  <2> DEFINE x == [a EXCEPT !.pc = "finalize"]
  <2>1. x \in Attempt /\ x.pc = "finalize" /\ x.email = a.email
        /\ x.password = a.password /\ x.attempts = a.attempts
    BY <1>a DEF Attempt
  <2>2. /\ attempt' = [attempt EXCEPT ![o][k] = x]
        /\ UNCHANGED <<ops, users, events>> /\ profiles' = profiles \cup {k}
        /\ a.pc = "provision"
    BY <1>1 DEF Provisioned, GoTo
  <2> HIDE DEF x, a
  <2>3. SnapshotOf(x, o, k, ops[k], profiles')
    BY <1>a, <2>1, <2>2 DEF SnapshotOf
  <2> QED
    BY <2>1, <2>2, <2>3, MoveStep, ZenonT(60)
<1>2. CASE ProvisionUnavailable(o, k)
  BY <1>2, <1>c DEF ProvisionUnavailable
<1>3. CASE ProvisionRejected(o, k)
  BY <1>3, <1>b DEF ProvisionRejected
<1>4. CASE Finalize(o, k)
  <2>1. PICK at \in ClockReading :
          \/ Finish(o, k, "pending") /\ UNCHANGED <<ops, users, events>>
          \/ /\ Owned(ops[k], o, at) /\ users[a.email] = NoUser
             /\ Finish(o, k, "completed") /\ CommitFinalize(a, k)
          \/ GoTo(o, k, Blocking(a, "unavailable")) /\ UNCHANGED <<ops, users, events>>
    BY <1>4 DEF Finalize
  <2>2. a.pc = "finalize" /\ UNCHANGED profiles
    BY <1>4 DEF Finalize
  <2>3. CASE Finish(o, k, "pending") /\ UNCHANGED <<ops, users, events>>
    BY <2>2, <2>3, <1>d
  <2>4. CASE /\ Owned(ops[k], o, at) /\ users[a.email] = NoUser
             /\ Finish(o, k, "completed") /\ CommitFinalize(a, k)
    <3>1. NoAttempt \in Attempt /\ NoAttempt.pc = "none"
      BY DEF NoAttempt, Attempt
    <3>2. /\ attempt' = [attempt EXCEPT ![o][k] = NoAttempt]
          /\ ops[k].status = "CLAIMED" /\ ops[k].token = o
      BY <2>4 DEF Finish, Owned
    <3> QED
      BY <2>2, <2>4, <3>1, <3>2, CommitStep, ZenonT(60)
  <2>5. CASE GoTo(o, k, Blocking(a, "unavailable")) /\ UNCHANGED <<ops, users, events>>
    BY <2>2, <2>5, <1>b
  <2> QED
    BY <2>1, <2>3, <2>4, <2>5
<1>5. CASE FinalizeUncertain(o, k)
  <2>1. /\ a.pc = "finalize" /\ UNCHANGED profiles /\ GoTo(o, k, RetryOrBlock(a))
        /\ \/ UNCHANGED <<ops, users, events>>
           \/ \E at \in ClockReading : /\ Owned(ops[k], o, at) /\ users[a.email] = NoUser
                                       /\ CommitFinalize(a, k)
    BY <1>5 DEF FinalizeUncertain
  <2>2. CASE UNCHANGED <<ops, users, events>>
    BY <2>1, <2>2, <1>c
  <2>3. CASE \E at \in ClockReading : /\ Owned(ops[k], o, at) /\ users[a.email] = NoUser
                                      /\ CommitFinalize(a, k)
    <3> DEFINE x == RetryOrBlock(a)
    <3>1. /\ ops[k].status = "CLAIMED" /\ ops[k].token = o
          /\ users[a.email] = NoUser /\ CommitFinalize(a, k)
      BY <2>3 DEF Owned
    <3>2. attempt' = [attempt EXCEPT ![o][k] = x]
      BY <2>1 DEF GoTo
    <3>3. /\ x \in Attempt /\ x.email = a.email /\ x.pc # "finalize"
          /\ x.pc = "retry" => x.attempts + 1 < MaxAttempts
      <4> HIDE DEF a
      <4> QED
        BY <1>a, AttemptTypes, RetryOrBlockColumns, Zenon
    <3> HIDE DEF x
    <3> QED
      BY <2>1, <3>1, <3>2, <3>3, CommitStep, Zenon
  <2> QED
    BY <2>1, <2>2, <2>3
<1>6. CASE FinalizeError(o, k)
  BY <1>6, <1>b DEF FinalizeError
<1>7. CASE ScheduleRetry(o, k)
  <2>1. PICK at \in ClockReading, delay \in RetryDelay :
          ops' = IF Owned(ops[k], o, at)
                 THEN [ops EXCEPT ![k] = Rescheduled(ops[k], at + delay)] ELSE ops
    BY <1>7, Zenon DEF ScheduleRetry
  <2>2. /\ a.pc = "retry" /\ attempt' = [attempt EXCEPT ![o][k] = NoAttempt]
        /\ UNCHANGED <<users, events, profiles>>
    BY <1>7 DEF ScheduleRetry, Finish
  <2>3. PICK due \in Nat : due = at + delay
    <3>1. at \in Nat /\ delay \in Nat
      BY <1>a, RegistrationAssumption, Zenon
    <3>2. at + delay \in Nat
      BY <3>1
    <3> QED
      BY <3>2
  <2> DEFINE new == Rescheduled(ops[k], due)
  <2>4. /\ new \in RegistrationOperation /\ new.status = "PENDING" /\ new.token = None
        /\ new.email = ops[k].email /\ new.password = ops[k].password
        /\ new.attempts = ops[k].attempts + 1
    <3>1. ops[k] \in RegistrationOperation
      BY <1>a
    <3>2. new \in RegistrationOperation
      BY <3>1, RescheduledType
    <3> QED
      BY <3>1, <3>2 DEF RegistrationOperation, Rescheduled
  <2> HIDE DEF a, new
  <2>5. Owned(ops[k], o, at) => Rewrites(ops[k], new)
    <3> HAVE Owned(ops[k], o, at)
    <3>1. ops[k].status = "CLAIMED" /\ ops[k].attempts + 1 < MaxAttempts
      BY <1>a, <2>2 DEF Owned, SnapshotOf
    <3>2. ops[k].attempts + 1 <= MaxAttempts
      BY <1>a, <3>1 DEF RegistrationOperation
    <3> QED
      BY <2>4, <3>1, <3>2 DEF Rewrites, Unfinished
  <2>6. \/ ops' = ops
        \/ ops' = [ops EXCEPT ![k] = new] /\ Rewrites(ops[k], new) /\ new.token = None
    BY <2>1, <2>3, <2>4, <2>5 DEF new
  <2> QED
    BY <2>2, <2>4, <2>6, EndStep, Zenon
<1>8. CASE BlockOperation(o, k)
  <2>1. PICK at \in ClockReading :
          ops' = IF Owned(ops[k], o, at) THEN [ops EXCEPT ![k] = Blocked(ops[k])] ELSE ops
    BY <1>8 DEF BlockOperation
  <2>2. /\ attempt' = [attempt EXCEPT ![o][k] = NoAttempt]
        /\ UNCHANGED <<users, events, profiles>>
    BY <1>8 DEF BlockOperation, Finish
  <2> DEFINE new == Blocked(ops[k])
  <2>4. /\ new \in RegistrationOperation /\ new.status = "BLOCKED" /\ new.token = None
        /\ new.email = ops[k].email /\ new.password = ops[k].password
        /\ new.attempts = ops[k].attempts + 1
    BY <1>a, BlockedType, RowColumns, ZenonT(60)
  <2> HIDE DEF new
  <2>5. Owned(ops[k], o, at) => Rewrites(ops[k], new)
    <3> HAVE Owned(ops[k], o, at)
    <3>1. ops[k].status = "CLAIMED" /\ ops[k].attempts < MaxAttempts
      BY DEF Owned, RegistrationInv, AttemptsWithinBudget, Open
    <3>2. ops[k].attempts + 1 <= MaxAttempts
      BY <1>a, <3>1 DEF RegistrationOperation
    <3> QED
      BY <2>4, <3>1, <3>2, Zenon DEF Rewrites, Unfinished
  <2>6. \/ ops' = ops
        \/ ops' = [ops EXCEPT ![k] = new] /\ Rewrites(ops[k], new) /\ new.token = None
    BY <2>1, <2>4, <2>5 DEF new
  <2> QED
    BY <2>2, <2>4, <2>6, EndStep, ZenonT(60)
<1>9. CASE AttemptRaises(o, k)
  BY <1>9, <1>d DEF AttemptRaises
<1> QED
  BY <1>1, <1>2, <1>3, <1>4, <1>5, <1>6, <1>7, <1>8, <1>9 DEF Resume, Failure

\* Every step preserves the invariant.
LEMMA InvStep ==
    ASSUME TypeOK, TypeOK', RegistrationInv, LookupsStayValid, [Next]_vars
    PROVE  RegistrationInv'
<1> USE RegistrationAssumption
<1>s. ASSUME UNCHANGED <<ops, users, events, profiles>>,
             \A o \in Owner, k \in Key : attempt'[o][k] \in {attempt[o][k], NoAttempt}
      PROVE  RegistrationInv'
  <2>1. \A o \in Owner, k \in Key : SnapshotOf(attempt'[o][k], o, k, ops'[k], profiles')
    BY <1>s, SnapshotNow DEF SnapshotOf, NoAttempt
  <2> QED
    BY <1>s, <2>1, UnfinishedStep
<1>1. ASSUME NEW k \in Key, Redrive(k) PROVE RegistrationInv'
  <2>1. PICK at \in ClockReading : ops' = [ops EXCEPT ![k] = Redriven(ops[k], at)]
    BY <1>1, ZenonT(60) DEF Redrive
  <2> DEFINE new == Redriven(ops[k], at)
  <2>2. ops[k] \in RegistrationOperation /\ at \in Nat /\ ops[k].status = "BLOCKED"
    BY <1>1 DEF Redrive, TypeOK, ClockReading
  <2>3. /\ new.status = "PENDING" /\ new.token = None /\ new.attempts = 0
        /\ new.email = ops[k].email /\ new.password = ops[k].password
    BY <2>2 DEF RegistrationOperation, Redriven
  <2>4. ops' = [ops EXCEPT ![k] = new]
    BY <2>1
  <2> HIDE DEF new
  <2>5. Rewrites(ops[k], new)
    BY <2>2, <2>3 DEF Rewrites, Unfinished
  <2>6. \A j \in Key : ops'[j] = IF j = k THEN new ELSE ops[j]
    BY <2>4 DEF TypeOK
  <2>7. UNCHANGED <<users, events, profiles, attempt>>
    BY <1>1 DEF Redrive
  <2>8. ASSUME NEW o \in Owner, NEW j \in Key
        PROVE  SnapshotOf(attempt'[o][j], o, j, ops'[j], profiles')
    <3>1. SnapshotOf(attempt[o][j], o, j, ops[j], profiles)
      BY SnapshotNow
    <3>2. o # None
      OBVIOUS
    <3> QED
      BY <2>3, <2>6, <2>7, <3>1, <3>2 DEF SnapshotOf
  <2>9. \A j \in Key : ops'[j] = ops[j] \/ Rewrites(ops[j], ops'[j])
    BY <2>5, <2>6
  <2> QED
    BY <2>7, <2>8, <2>9, UnfinishedStep
<1>2. ASSUME NEW o \in Owner, Crash(o) PROVE RegistrationInv'
  <2>1. \A p \in Owner, k \in Key : attempt'[p][k] \in {attempt[p][k], NoAttempt}
    BY <1>2 DEF Crash, TypeOK
  <2> QED
    BY <1>2, <2>1, <1>s DEF Crash
<1>3. CASE Tick \/ UNCHANGED vars
  BY <1>3, <1>s DEF Tick, vars
<1> QED
  BY <1>1, <1>2, <1>3, InvClaims, InvAttempts DEF Next

-----------------------------------------------------------------------------
(* The lookup before an insert                                             *)

\* Accounts only appear on emails that have none.
LEMMA AccountsStep ==
    ASSUME TypeOK, TypeOK', AccountsHaveOperations, [Next]_vars
    PROVE  AccountsHaveOperations'
<1> USE RegistrationAssumption
<1>1. CASE UNCHANGED users
  BY <1>1 DEF AccountsHaveOperations
<1>2. ASSUME NEW o \in Owner, NEW k \in Key, users[attempt[o][k].email] = NoUser,
             CommitFinalize(attempt[o][k], k)
      PROVE  AccountsHaveOperations'
  <2> DEFINE a == attempt[o][k]
  <2>1. /\ users' = [users EXCEPT ![a.email] = [id |-> k, password |-> a.password]]
        /\ users[a.email] = NoUser
    BY <1>2 DEF CommitFinalize
  <2> HIDE DEF a
  <2>2. ASSUME NEW e \in Email
        PROVE  users'[e] = IF e = a.email THEN [id |-> k, password |-> a.password]
                           ELSE users[e]
    BY <2>1 DEF TypeOK
  <2>3. LegacyUser # NoUser
    BY DEF LegacyUser, NoUser
  <2> QED
    BY <2>1, <2>2, <2>3 DEF AccountsHaveOperations
<1>3. ASSUME NEW o \in Owner, NEW k \in Key, Resume(o, k) \/ Failure(o, k)
      PROVE  \/ UNCHANGED users
             \/ users[attempt[o][k].email] = NoUser /\ CommitFinalize(attempt[o][k], k)
  BY <1>3 DEF Resume, Failure, Provisioned, Finalize, ScheduleRetry, BlockOperation,
     ProvisionUnavailable, ProvisionRejected, FinalizeUncertain, FinalizeError,
     AttemptRaises
<1>4. ASSUME NEW h \in Handler, Register(h) PROVE UNCHANGED users
  BY <1>4, ZenonT(60) DEF Register, LoadByKey, LookupEmail, TryCreate, ReloadByKey, ClaimByKey
<1> QED
  BY <1>1, <1>2, <1>3, <1>4, ZenonT(60) DEF Next, Send, RunOnce, Redrive, Crash, Tick, vars

\* Only a lookup that found no account lets a request insert.
LEMMA InsertsStep ==
    ASSUME TypeOK, TypeOK', AccountsHaveOperations, InsertsAreClean, [Next]_vars
    PROVE  InsertsAreClean'
<1> USE RegistrationAssumption
<1>0. \A h \in Handler : handler[h] \in HandlerState
  BY DEF TypeOK
<1>a. ASSUME NEW g \in Handler, NEW state \in HandlerState, state.pc # "insert",
             handler' = [handler EXCEPT ![g] = state]
      PROVE  InsertsAreClean'
  BY <1>a DEF TypeOK, InsertsAreClean
<1>b. CASE UNCHANGED handler
  BY <1>b DEF InsertsAreClean
<1>c. ASSUME NEW g \in Handler, NEW answer, handler' = [handler EXCEPT ![g] = Answered(@, answer)]
      PROVE  InsertsAreClean'
  <2>1. handler'[g].pc = "idle" /\ \A h \in Handler \ {g} : handler'[h] = handler[h]
    BY <1>0, <1>c DEF TypeOK, Answered, HandlerState
  <2> QED
    BY <2>1 DEF InsertsAreClean
<1>d. ASSUME NEW g \in Handler, NEW pc, pc # "insert", handler' = [handler EXCEPT ![g].pc = pc]
      PROVE  InsertsAreClean'
  <2>1. handler'[g].pc = pc /\ \A h \in Handler \ {g} : handler'[h] = handler[h]
    BY <1>0, <1>d DEF TypeOK, HandlerState
  <2> QED
    BY <1>d, <2>1 DEF InsertsAreClean
<1>1. ASSUME NEW h \in Handler, NEW r \in Request, Send(h, r) PROVE InsertsAreClean'
  BY <1>1, <1>a, Zenon DEF Send, HandlerState, Answer
<1>2. ASSUME NEW h \in Handler, Register(h) PROVE InsertsAreClean'
  <2> DEFINE k == handler[h].request.key
  <2>1. CASE LoadByKey(h) \/ ReloadByKey(h)
    <3>1. \/ handler' = [handler EXCEPT ![h].pc = "lookup"]
          \/ handler' = [handler EXCEPT ![h] = Answered(@, "exists")]
          \/ handler' = [handler EXCEPT ![h] = ResumeExisting(@, k)]
      BY <2>1 DEF LoadByKey, ReloadByKey
    <3>2. CASE handler' = [handler EXCEPT ![h].pc = "lookup"]
      BY <3>2, <1>d, Zenon
    <3>3. CASE handler' = [handler EXCEPT ![h] = Answered(@, "exists")]
      BY <3>3, <1>c, Zenon
    <3>4. CASE handler' = [handler EXCEPT ![h] = ResumeExisting(@, k)]
      <4>1. \/ handler' = [handler EXCEPT ![h].pc = "claim"]
            \/ \E answer \in Answer : handler' = [handler EXCEPT ![h] = Answered(@, answer)]
        BY <3>4, ZenonT(60) DEF ResumeExisting, Answer
      <4> QED
        BY <4>1, <1>c, <1>d
    <3> QED
      BY <3>1, <3>2, <3>3, <3>4
  <2>2. CASE LookupEmail(h)
    <3>1. CASE users[handler[h].request.email] = NoUser
      <4>1. /\ handler'[h].request = handler[h].request
            /\ handler[h].request \in Request
            /\ \A g \in Handler \ {h} : handler'[g] = handler[g]
        BY <1>0, <2>2 DEF LookupEmail, TypeOK, HandlerState
      <4>2. handler[h].request.email \notin LegacyEmail
        <5>1. LegacyUser # NoUser
          BY DEF LegacyUser, NoUser
        <5> QED
          BY <3>1, <4>1, <5>1 DEF AccountsHaveOperations
      <4> QED
        BY <4>1, <4>2 DEF InsertsAreClean
    <3>2. CASE users[handler[h].request.email] # NoUser
      BY <2>2, <3>2, <1>d, Zenon DEF LookupEmail
    <3> QED
      BY <3>1, <3>2
  <2>3. CASE TryCreate(h) \/ ClaimByKey(h)
    <3>1. \/ handler' = [handler EXCEPT ![h].pc = "resume"]
          \/ handler' = [handler EXCEPT ![h].pc = "reload"]
          \/ handler' = [handler EXCEPT ![h] = Answered(@, "pending")]
      BY <2>3 DEF TryCreate, ClaimByKey
    <3> QED
      BY <3>1, <1>c, <1>d
  <2> QED
    BY <1>2, <2>1, <2>2, <2>3 DEF Register
<1>3. ASSUME NEW o \in Owner, NEW k \in Key, NEW answer, Finish(o, k, answer)
      PROVE  InsertsAreClean'
  BY <1>3, <1>b, <1>c DEF Finish
<1>4. ASSUME NEW o \in Owner, NEW k \in Key, Resume(o, k) \/ Failure(o, k)
      PROVE  InsertsAreClean'
  BY <1>3, <1>4, <1>b DEF Resume, Failure, Provisioned, Finalize, ScheduleRetry,
     BlockOperation, ProvisionUnavailable, ProvisionRejected, FinalizeUncertain,
     FinalizeError, AttemptRaises, GoTo
<1>5. ASSUME NEW o \in Owner, Crash(o) PROVE InsertsAreClean'
  BY <1>5, <1>b, <1>c DEF Crash
<1> QED
  BY <1>1, <1>2, <1>4, <1>5, <1>b DEF Next, RunOnce, Redrive, Tick, vars

\* At first every account is a legacy account.
LEMMA LookupInit == Init => LookupsStayValid
  BY DEF Init, LookupsStayValid, AccountsHaveOperations, InsertsAreClean

\* RegistrationInv holds in every reachable state.
THEOREM RegistrationSafety == Spec => []RegistrationInv
<1>1. Init => TypeOK /\ RegistrationInv /\ LookupsStayValid
  BY TypeInit, InvInit, LookupInit
<1>2. TypeOK /\ RegistrationInv /\ LookupsStayValid /\ [Next]_vars
        => (TypeOK /\ RegistrationInv /\ LookupsStayValid)'
  BY TypeStep, InvStep, AccountsStep, InsertsStep DEF LookupsStayValid
<1> QED
  BY <1>1, <1>2, PTL DEF Spec
=============================================================================
