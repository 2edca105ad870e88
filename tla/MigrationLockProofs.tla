------------------------- MODULE MigrationLockProofs -------------------------
(***************************************************************************)
(* MigrationLock keeps its invariants and implements Lease, for every set  *)
(* of processes, every supply of tokens and every ttl.                     *)
(***************************************************************************)
EXTENDS MigrationLock, TLAPS

\* The mark of a lease that has run out is a number.
USE DEF Over

\* Init establishes the invariant.
LEMMA InitInv == Init => IInv
  BY LockAssumption, SMT
     DEF Init, IInv, TypeOK, StoreInv, TokenInv, AnswerInv, SetInv, EvalInv, LeaseInv,
         ReleaseInv, LeaseIsKept, Absent, PC, Command

\* A new session starts with a token and a command nobody else has.
LEMMA CallStep ==
  ASSUME IInv, NEW p \in Process, NEW ttl \in 0 .. MaxTtl, Call(p, ttl)
  PROVE  IInv'
  <1>1. TypeOK'
    BY LockAssumption DEF IInv, TypeOK, Call, PC, Command
  <1>2. StoreInv' /\ LeaseIsKept'
    BY DEF IInv, StoreInv, LeaseIsKept, LeaseInv, Call, Fresh, TypeOK, Absent
  <1>3. TokenInv' /\ AnswerInv'
    BY LockAssumption DEF IInv, TypeOK, TokenInv, AnswerInv, Call, Fresh
  <1>4. SetInv'
    BY LockAssumption DEF IInv, TypeOK, SetInv, EvalInv, AnswerInv, Call, Fresh
  <1>5. EvalInv'
    BY LockAssumption DEF IInv, TypeOK, SetInv, EvalInv, AnswerInv, Call, Fresh
  <1>6. LeaseInv' /\ ReleaseInv'
    BY LockAssumption DEF IInv, TypeOK, AnswerInv, LeaseInv, ReleaseInv, Call, Fresh
  <1>. QED  BY <1>1, <1>2, <1>3, <1>4, <1>5, <1>6 DEF IInv

\* A SET is granted to whoever waits for it, and only if the key is absent.
LEMMA SetStep ==
  ASSUME IInv, NEW m \in net, Set(m)
  PROVE  IInv'
  <1>m. m \in Command  BY DEF IInv, TypeOK
  <1>1. TypeOK'
    BY <1>m, LockAssumption DEF IInv, TypeOK, Set, Answer, Absent, Command
  <1>2. StoreInv' /\ TokenInv' /\ AnswerInv'
    BY <1>m, LockAssumption
       DEF IInv, TypeOK, StoreInv, TokenInv, AnswerInv, SetInv, Set, Answer, Waits, Absent, Command
  <1>3. SetInv' /\ EvalInv'
    BY <1>m, LockAssumption
       DEF IInv, TypeOK, SetInv, EvalInv, StoreInv, Set, Answer, Waits, Absent, Command
  <1>4. LeaseInv' /\ LeaseIsKept'
    BY <1>m, LockAssumption
       DEF IInv, TypeOK, LeaseInv, LeaseIsKept, SetInv, Set, Answer, Waits, Absent, Command
  <1>5. ReleaseInv'
    BY <1>m, LockAssumption
       DEF IInv, TypeOK, ReleaseInv, SetInv, Set, Answer, Waits, Absent, Command
  <1>. QED  BY <1>1, <1>2, <1>3, <1>4, <1>5 DEF IInv

\* The script deletes the key of a session that no longer relies on it.
LEMMA EvalStep ==
  ASSUME IInv, NEW m \in net, Eval(m)
  PROVE  IInv'
  <1>m. m \in Command  BY DEF IInv, TypeOK
  <1>1. TypeOK'
    BY <1>m, LockAssumption DEF IInv, TypeOK, Eval, Answer, Absent, Command
  <1>2. StoreInv' /\ TokenInv' /\ AnswerInv'
    BY <1>m, LockAssumption
       DEF IInv, TypeOK, StoreInv, TokenInv, AnswerInv, Eval, Answer, Waits, Absent, Command
  <1>3. SetInv' /\ EvalInv'
    BY <1>m, LockAssumption
       DEF IInv, TypeOK, SetInv, EvalInv, StoreInv, Eval, Answer, Waits, Absent, Command
  <1>4. LeaseInv' /\ LeaseIsKept'
    BY <1>m, LockAssumption
       DEF IInv, TypeOK, LeaseInv, LeaseIsKept, EvalInv, Eval, Answer, Waits, Absent, Command
  <1>5. ReleaseInv'
    BY <1>m, LockAssumption
       DEF IInv, TypeOK, ReleaseInv, EvalInv, TokenInv, Eval, Answer, Waits, Absent, Command
  <1>. QED  BY <1>1, <1>2, <1>3, <1>4, <1>5 DEF IInv

\* Fewer commands break nothing.
LEMMA LoseStep ==
  ASSUME IInv, NEW m \in net, Lose(m)
  PROVE  IInv'
  BY DEF IInv, TypeOK, StoreInv, TokenInv, AnswerInv, SetInv, EvalInv, LeaseInv,
         ReleaseInv, LeaseIsKept, Lose, Absent

\* The key and what its owner knows of it age together.
LEMMA TickStep ==
  ASSUME IInv, Tick
  PROVE  IInv'
  <1>1. TypeOK'
    BY LockAssumption DEF IInv, TypeOK, Tick, Absent
  <1>2. StoreInv' /\ TokenInv' /\ AnswerInv' /\ SetInv' /\ EvalInv'
    BY LockAssumption
       DEF IInv, TypeOK, StoreInv, TokenInv, AnswerInv, SetInv, EvalInv, Tick, Absent, Command
  <1>3. LeaseIsKept'
    BY LockAssumption DEF IInv, TypeOK, LeaseIsKept, Tick, Absent
  <1>4. LeaseInv'
    BY LockAssumption DEF IInv, TypeOK, LeaseInv, Tick
  <1>5. ReleaseInv'
    BY LockAssumption DEF IInv, TypeOK, ReleaseInv, TokenInv, Tick, Absent
  <1>. QED  BY <1>1, <1>2, <1>3, <1>4, <1>5 DEF IInv

\* The steps of a process that leave the key alone.
LEMMA ProcessStep ==
  ASSUME IInv, NEW p \in Process,
         Enter(p) \/ Refuse(p) \/ Return(p) \/ RedisError(p) \/ Crash(p) \/ Again(p)
  PROVE  IInv'
  <1>1. CASE Enter(p)
    BY <1>1, LockAssumption
       DEF IInv, TypeOK, StoreInv, TokenInv, AnswerInv, SetInv, EvalInv,
           LeaseInv, ReleaseInv, LeaseIsKept, Enter, PC, Absent
  <1>2. CASE Refuse(p)
    BY <1>2, LockAssumption
       DEF IInv, TypeOK, StoreInv, TokenInv, AnswerInv, SetInv, EvalInv,
           LeaseInv, ReleaseInv, LeaseIsKept, Refuse, PC, Absent
  <1>3. CASE Return(p)
    BY <1>3, LockAssumption
       DEF IInv, TypeOK, StoreInv, TokenInv, AnswerInv, SetInv, EvalInv,
           LeaseInv, ReleaseInv, LeaseIsKept, Return, PC, Absent
  <1>4. CASE RedisError(p)
    BY <1>4, LockAssumption
       DEF IInv, TypeOK, StoreInv, TokenInv, AnswerInv, SetInv, EvalInv,
           LeaseInv, ReleaseInv, LeaseIsKept, RedisError, PC, Absent
  <1>5. CASE Crash(p)
    BY <1>5, LockAssumption
       DEF IInv, TypeOK, StoreInv, TokenInv, AnswerInv, SetInv, EvalInv,
           LeaseInv, ReleaseInv, LeaseIsKept, Crash, PC, Absent
  <1>6. CASE Again(p)
    <2>1. TypeOK' /\ StoreInv' /\ TokenInv' /\ AnswerInv'
      BY <1>6, LockAssumption
         DEF IInv, TypeOK, StoreInv, TokenInv, AnswerInv, Again, PC, Absent
    <2>2. SetInv' /\ EvalInv'
      <3>1. \A m \in net : m.token # NoToken
        BY LockAssumption DEF IInv, TypeOK, Command
      <3>. QED  BY <1>6, <3>1 DEF IInv, TypeOK, SetInv, EvalInv, Again
    <2>3. LeaseInv' /\ LeaseIsKept' /\ ReleaseInv'
      BY <1>6 DEF IInv, TypeOK, LeaseInv, LeaseIsKept, ReleaseInv, Again
    <2>. QED  BY <2>1, <2>2, <2>3 DEF IInv
  <1>. QED  BY <1>1, <1>2, <1>3, <1>4, <1>5, <1>6

\* Leaving the body gives the lock up before the release is sent.
LEMMA LeaveStep ==
  ASSUME IInv, NEW p \in Process, Leave(p)
  PROVE  IInv'
  <1>1. TypeOK'
    BY LockAssumption DEF IInv, TypeOK, TokenInv, Leave, PC, Command
  <1>2. StoreInv' /\ TokenInv' /\ AnswerInv'
    BY LockAssumption DEF IInv, TypeOK, StoreInv, TokenInv, AnswerInv, Leave, Absent
  <1>3. SetInv' /\ EvalInv'
    BY LockAssumption
       DEF IInv, TypeOK, TokenInv, AnswerInv, SetInv, EvalInv, Leave
  <1>4. LeaseInv' /\ LeaseIsKept' /\ ReleaseInv'
    BY LockAssumption
       DEF IInv, TypeOK, AnswerInv, LeaseInv, LeaseIsKept, ReleaseInv, Leave
  <1>. QED  BY <1>1, <1>2, <1>3, <1>4 DEF IInv

\* Every step keeps the invariant.
LEMMA NextInv == IInv /\ [Next]_vars => IInv'
  <1>. SUFFICES ASSUME IInv, [Next]_vars PROVE IInv'
    OBVIOUS
  <1>1. CASE UNCHANGED vars
    BY <1>1 DEF vars, IInv, TypeOK, StoreInv, TokenInv, AnswerInv, SetInv,
                EvalInv, LeaseInv, ReleaseInv, LeaseIsKept
  <1>2. CASE Redis
    BY <1>2, SetStep, EvalStep, LoseStep, TickStep DEF Redis
  <1>3. ASSUME NEW p \in Process, Session(p) PROVE IInv'
    BY <1>3, CallStep, ProcessStep, LeaveStep DEF Session
  <1>. QED  BY <1>1, <1>2, <1>3 DEF Next

\* The inductive invariant holds of every reachable state.
THEOREM Invariance == Spec => []IInv
  BY InitInv, NextInv, PTL DEF Spec

-----------------------------------------------------------------------------
\* The variables keep their types: what lock.py stores, sends and waits for
\* is always a token, a command or an answer of the expected kind.
THEOREM TypeCorrectness == Spec => []TypeOK
  <1>1. IInv => TypeOK  BY DEF IInv
  <1>. QED  BY <1>1, Invariance, PTL

\* No process loses the key it was granted before it leaves the body or its
\* time is over, for any number of processes and any ttl.
THEOREM LeaseKept == Spec => []LeaseIsKept
  <1>1. IInv => LeaseIsKept  BY DEF IInv
  <1>. QED  BY <1>1, Invariance, PTL

\* A `with` statement that ended without an error holds the key no more.
THEOREM Released == Spec => []ReleasedWhenDone
  <1>1. IInv => ReleasedWhenDone  BY DEF IInv, ReleaseInv, ReleasedWhenDone
  <1>. QED  BY <1>1, Invariance, PTL

\* Two migrations run at once only if one has outlived its ttl.
THEOREM Exclusion == Spec => []ExclusionInTime
  <1>1. ASSUME IInv, NEW p \in Process, NEW q \in Process, p # q,
               pc[p] = "body", pc[q] = "body"
        PROVE  Over \in {lease[p], lease[q]}
    <2>1. SUFFICES ASSUME lease[p] # Over, lease[q] # Over
                   PROVE  FALSE
      OBVIOUS
    <2>2. lease[p] > 0 /\ lease[q] > 0
      BY <1>1, <2>1, LockAssumption DEF IInv, TypeOK, LeaseInv, Over
    <2>3. token[p] = token[q]
      BY <1>1, <2>2 DEF IInv, LeaseIsKept
    <2>4. token[p] # NoToken
      BY <1>1, LockAssumption DEF IInv, TokenInv
    <2>. QED  BY <1>1, <2>3, <2>4 DEF IInv, TokenInv
  <1>2. IInv => ExclusionInTime
    BY <1>1 DEF ExclusionInTime
  <1>. QED  BY <1>2, Invariance, PTL

-----------------------------------------------------------------------------
\* Only a release on its way changes what Lease sees as asked for.
LEMMA AskedUnchanged ==
  ASSUME net' = net PROVE Asked' = Asked
  BY DEF Asked

\* A step of Redis is a grant, a release, a request dropped, time that
\* passes, or nothing Lease can see.
LEMMA RedisRefines ==
  ASSUME IInv, Redis
  PROVE  [ALease!LeaseNext]_(ALease!leaseVars)
  <1>1. CASE Tick
    <2>1. Asked' = Asked
      BY <1>1, AskedUnchanged DEF Tick
    <2>2. ALease!Pass
      BY <1>1, <2>1, LockAssumption
         DEF IInv, TypeOK, StoreInv, Tick, Absent, ALease!Pass
    <2>. QED  BY <2>2 DEF ALease!LeaseNext
  <1>2. ASSUME NEW m \in net, Set(m)
        PROVE  [ALease!LeaseNext]_(ALease!leaseVars)
    <2>1. Asked' = Asked
      BY <1>2 DEF Asked, Set
    <2>2. m.token \in Token /\ m.ttl \in 1 .. MaxTtl
      BY <1>2, LockAssumption DEF IInv, TypeOK, Command, SetInv, Set
    <2>3. CASE store = Absent /\ store' = [token |-> m.token, left |-> m.ttl]
      <3>1. ALease!Grant(m.token)
        BY <2>1, <2>2, <2>3 DEF ALease!Grant, Absent
      <3>. QED  BY <3>1, <2>2 DEF ALease!LeaseNext
    <2>4. CASE store' = store
      BY <2>1, <2>4 DEF ALease!leaseVars
    <2>. QED  BY <1>2, <2>3, <2>4 DEF Set
  <1>3. ASSUME NEW m \in net, m.op = "eval", net' = net \ {m}
        PROVE  m.token \in Asked /\ Asked' = Asked \ {m.token}
    <2>1. \A n \in net : n.op = "eval" /\ n.token = m.token => n = m
      <3>. SUFFICES ASSUME NEW n \in net, n.op = "eval", n.token = m.token
                    PROVE  n = m
        OBVIOUS
      <3>1. n \in Command /\ m \in Command /\ n.ttl = m.ttl
        BY <1>3 DEF IInv, TypeOK, EvalInv
      <3>. QED  BY <1>3, <3>1 DEF Command
    <2>. QED  BY <1>3, <2>1 DEF Asked
  <1>4. ASSUME NEW m \in net, Eval(m)
        PROVE  [ALease!LeaseNext]_(ALease!leaseVars)
    <2>1. m.token \in Token /\ m.token \in Asked /\ Asked' = Asked \ {m.token}
      BY <1>3, <1>4 DEF Eval, IInv, TypeOK, Command
    <2>2. CASE store.token = m.token
      <3>1. ALease!Release(m.token)
        BY <1>4, <2>1, <2>2 DEF Eval, Absent, ALease!Release
      <3>. QED  BY <2>1, <3>1 DEF ALease!LeaseNext
    <2>3. CASE store.token # m.token
      <3>1. ALease!Drop(m.token)
        BY <1>4, <2>1, <2>3 DEF Eval, ALease!Drop
      <3>. QED  BY <2>1, <3>1 DEF ALease!LeaseNext
    <2>. QED  BY <2>2, <2>3
  <1>5. ASSUME NEW m \in net, Lose(m)
        PROVE  [ALease!LeaseNext]_(ALease!leaseVars)
    <2>1. CASE m.op = "eval"
      <3>1. m.token \in Token /\ Asked' = Asked \ {m.token}
        BY <1>3, <1>5, <2>1 DEF Lose, IInv, TypeOK, Command
      <3>2. ALease!Drop(m.token)
        BY <1>5, <3>1 DEF Lose, ALease!Drop
      <3>. QED  BY <3>1, <3>2 DEF ALease!LeaseNext
    <2>2. CASE m.op # "eval"
      <3>1. Asked' = Asked
        BY <1>5, <2>2 DEF Asked, Lose
      <3>. QED  BY <1>5, <3>1 DEF Lose, ALease!leaseVars
    <2>. QED  BY <2>1, <2>2
  <1>. QED  BY <1>1, <1>2, <1>4, <1>5 DEF Redis

\* A step of a process is a request for a release or nothing Lease can see.
LEMMA SessionRefines ==
  ASSUME IInv, NEW p \in Process, Session(p)
  PROVE  [ALease!LeaseNext]_(ALease!leaseVars)
  <1>1. CASE Leave(p)
    <2>1. token[p] \in Token
      BY <1>1 DEF IInv, TokenInv, Leave
    <2>2. Asked' = Asked \cup {token[p]}
      <3>. DEFINE c == [op |-> "eval", token |-> token[p], ttl |-> 0]
      <3>1. net' = net \cup {c}  BY <1>1 DEF Leave
      <3>2. c.op = "eval" /\ c.token = token[p]  OBVIOUS
      <3>. HIDE DEF c
      <3>. QED  BY <3>1, <3>2 DEF Asked
    <2>3. ALease!Ask(token[p])
      BY <1>1, <2>2 DEF Leave, ALease!Ask
    <2>. QED  BY <2>1, <2>3 DEF ALease!LeaseNext
  <1>2. ASSUME NEW ttl \in 0 .. MaxTtl, Call(p, ttl)
        PROVE  Asked' = Asked
    BY <1>2 DEF Asked, Call
  <1>3. CASE \E ttl \in 0 .. MaxTtl : Call(p, ttl)
    BY <1>2, <1>3 DEF Call, ALease!leaseVars
  <1>4. CASE Enter(p) \/ Refuse(p) \/ Return(p) \/ RedisError(p) \/ Crash(p) \/ Again(p)
    BY <1>4, AskedUnchanged
       DEF Enter, Refuse, Return, RedisError, Crash, Again, ALease!leaseVars
  <1>. QED  BY <1>1, <1>3, <1>4 DEF Session

\* The lock is a lease: no reordering, loss or delay of commands and no crash
\* lets a process take the key from its holder before its time is over.
THEOREM LockImplementsLease == Spec => ImplementsLease
  <1>1. Init => ALease!LeaseInit
    BY DEF Init, Absent, Asked, ALease!LeaseInit
  <1>2. IInv /\ [Next]_vars => [ALease!LeaseNext]_(ALease!leaseVars)
    <2>. SUFFICES ASSUME IInv, [Next]_vars
                  PROVE  [ALease!LeaseNext]_(ALease!leaseVars)
      OBVIOUS
    <2>1. CASE UNCHANGED vars
      BY <2>1, AskedUnchanged DEF vars, ALease!leaseVars
    <2>. QED  BY <2>1, RedisRefines, SessionRefines DEF Next
  <1>. QED  BY <1>1, <1>2, Invariance, PTL DEF Spec, ImplementsLease, ALease!LeaseSpec

=============================================================================
