---------------------------- MODULE MigrationLock ----------------------------
(***************************************************************************)
(* migration_lock and sync_migration_lock of lock.py: a lock on one Redis  *)
(* key, shared by processes that each run migrations in the body of a      *)
(* `with` statement.  Commands to Redis may be delayed or lost; a process  *)
(* may stop waiting for an answer (a timeout, a cancelled task) while its  *)
(* command is still under way, or crash at any point.                      *)
(*                                                                         *)
(* Redis itself is not part of the repository.  It executes one command at *)
(* a time and removes a key when its expiry time is over.                  *)
(***************************************************************************)
EXTENDS Integers

CONSTANTS
  Process,
  Token,    \* bounds how many tokens are in use at once
  MaxTtl,   \* the largest ttl a caller passes
  NoToken

ASSUME LockAssumption ==
  /\ MaxTtl \in Nat \ {0}
  /\ NoToken \notin Token

VARIABLES
  store,   \* the key: the token stored and the time left, 0 when absent
  net,     \* commands on their way to Redis
  pc,      \* where each process is in its `with` statement
  token,   \* the token of each process
  answer,  \* what Redis answered to the command a process waits for
  lease    \* how long a process may still rely on the lock it was granted,
           \* 0 when it was granted none, Over when the time is over

vars == <<store, net, pc, token, answer, lease>>

PC == {"idle",     \* not in a `with` statement, or restarted
       "set",      \* awaits the answer to SET
       "body",     \* runs the migration
       "eval",     \* awaits the answer to the release script
       "done", "value_error", "lock_error", "redis_error", "crashed"}

Command == [op : {"set", "eval"}, token : Token, ttl : 0 .. MaxTtl]

Over == -1

Absent == [token |-> NoToken, left |-> 0]

TypeOK ==
  /\ store \in [token : Token \cup {NoToken}, left : 0 .. MaxTtl]
  /\ net \subseteq Command
  /\ pc \in [Process -> PC]
  /\ token \in [Process -> Token \cup {NoToken}]
  /\ answer \in [Process -> {"none", "yes", "no"}]
  /\ lease \in [Process -> Over .. MaxTtl]

Init ==
  /\ store = Absent
  /\ net = {}
  /\ pc = [p \in Process |-> "idle"]
  /\ token = [p \in Process |-> NoToken]
  /\ answer = [p \in Process |-> "none"]
  /\ lease = [p \in Process |-> 0]

\* secrets.token_urlsafe(32): never a token that is still in use somewhere.
Fresh(t) ==
  /\ t # store.token
  /\ \A m \in net : m.token # t
  /\ \A p \in Process : token[p] # t

Waits(p, m) == pc[p] = m.op /\ token[p] = m.token /\ answer[p] = "none"

\* The answer to m reaches the process, if it still waits for it.
Answer(m, a) ==
  answer' = [p \in Process |-> IF Waits(p, m) THEN a ELSE answer[p]]

-----------------------------------------------------------------------------
\* Mutant: the check of ttl is left out.
CallUnvalidated(p, ttl) ==
  /\ pc[p] = "idle"
  /\ \E t \in Token :
       /\ Fresh(t)
       /\ token' = [token EXCEPT ![p] = t]
       /\ net' = net \cup {[op |-> "set", token |-> t, ttl |-> ttl]}
  /\ pc' = [pc EXCEPT ![p] = "set"]
  /\ UNCHANGED <<store, answer, lease>>

\* The call up to the SET command.
Call(p, ttl) ==
  /\ pc[p] = "idle"
  /\ \/ /\ ttl <= 0
        /\ pc' = [pc EXCEPT ![p] = "value_error"]
        /\ UNCHANGED <<net, token>>
     \/ /\ ttl > 0
        /\ \E t \in Token :
             /\ Fresh(t)
             /\ token' = [token EXCEPT ![p] = t]
             /\ net' = net \cup {[op |-> "set", token |-> t, ttl |-> ttl]}
        /\ pc' = [pc EXCEPT ![p] = "set"]
  /\ UNCHANGED <<store, answer, lease>>

\* Mutant: SET without NX.
SetOverwrites(m) ==
  /\ m.op = "set"
  /\ net' = net \ {m}
  /\ store' = [token |-> m.token, left |-> m.ttl]
  /\ lease' = [p \in Process |-> IF Waits(p, m) THEN m.ttl ELSE lease[p]]
  /\ Answer(m, "yes")
  /\ UNCHANGED <<pc, token>>

\* Mutant: SET without EX: a key without a time to live.
SetForever(m) ==
  /\ m.op = "set"
  /\ store = Absent
  /\ net' = net \ {m}
  /\ store' = [token |-> m.token, left |-> 0]
  /\ Answer(m, "yes")
  /\ UNCHANGED <<pc, token, lease>>

\* Redis executes SET key token NX EX ttl.
Set(m) ==
  /\ m.op = "set"
  /\ net' = net \ {m}
  /\ \/ /\ store = Absent
        /\ store' = [token |-> m.token, left |-> m.ttl]
        /\ lease' = [p \in Process |-> IF Waits(p, m) THEN m.ttl ELSE lease[p]]
        /\ Answer(m, "yes")
     \/ /\ store # Absent
        /\ Answer(m, "no")
        /\ UNCHANGED <<store, lease>>
  /\ UNCHANGED <<pc, token>>

\* Mutant: the answer to SET is not looked at.
EnterUnchecked(p) ==
  /\ pc[p] = "set"
  /\ answer[p] # "none"
  /\ pc' = [pc EXCEPT ![p] = "body"]
  /\ answer' = [answer EXCEPT ![p] = "none"]
  /\ UNCHANGED <<store, net, token, lease>>

\* The context manager yields: the migration starts.
Enter(p) ==
  /\ pc[p] = "set"
  /\ answer[p] = "yes"
  /\ pc' = [pc EXCEPT ![p] = "body"]
  /\ answer' = [answer EXCEPT ![p] = "none"]
  /\ UNCHANGED <<store, net, token, lease>>

Refuse(p) ==
  /\ pc[p] = "set"
  /\ answer[p] = "no"
  /\ pc' = [pc EXCEPT ![p] = "lock_error"]
  /\ answer' = [answer EXCEPT ![p] = "none"]
  /\ UNCHANGED <<store, net, token, lease>>

\* Mutant: no `finally`: a body that ends leaves the key to expire.
LeaveWithoutRelease(p) ==
  /\ pc[p] = "body"
  /\ pc' = [pc EXCEPT ![p] = "done"]
  /\ lease' = [lease EXCEPT ![p] = 0]
  /\ UNCHANGED <<store, net, token, answer>>

\* The body returns or raises: `finally` sends the release script.
Leave(p) ==
  /\ pc[p] = "body"
  /\ pc' = [pc EXCEPT ![p] = "eval"]
  /\ lease' = [lease EXCEPT ![p] = 0]
  /\ net' = net \cup {[op |-> "eval", token |-> token[p], ttl |-> 0]}
  /\ UNCHANGED <<store, token, answer>>

\* Mutant: DEL without the comparison.
EvalDeletes(m) ==
  /\ m.op = "eval"
  /\ net' = net \ {m}
  /\ store' = Absent
  /\ Answer(m, "yes")
  /\ UNCHANGED <<pc, token, lease>>

\* Redis executes the script: delete the key if it holds this token.
Eval(m) ==
  /\ m.op = "eval"
  /\ net' = net \ {m}
  /\ IF store.token = m.token
     THEN store' = Absent /\ Answer(m, "yes")
     ELSE store' = store /\ Answer(m, "no")
  /\ UNCHANGED <<pc, token, lease>>

Return(p) ==
  /\ pc[p] = "eval"
  /\ answer[p] # "none"
  /\ pc' = [pc EXCEPT ![p] = "done"]
  /\ answer' = [answer EXCEPT ![p] = "none"]
  /\ UNCHANGED <<store, net, token, lease>>

\* The client raises while it waits, with the command's fate unknown.
RedisError(p) ==
  /\ pc[p] \in {"set", "eval"}
  /\ pc' = [pc EXCEPT ![p] = "redis_error"]
  /\ answer' = [answer EXCEPT ![p] = "none"]
  /\ lease' = [lease EXCEPT ![p] = 0]
  /\ UNCHANGED <<store, net, token>>

\* A command is lost with its connection.
Lose(m) ==
  /\ net' = net \ {m}
  /\ UNCHANGED <<store, pc, token, answer, lease>>

Crash(p) ==
  /\ pc[p] \in {"set", "body", "eval"}
  /\ pc' = [pc EXCEPT ![p] = "crashed"]
  /\ answer' = [answer EXCEPT ![p] = "none"]
  /\ lease' = [lease EXCEPT ![p] = 0]
  /\ UNCHANGED <<store, net, token>>

\* The next call of the process, or of the one started in its place.
Again(p) ==
  /\ pc[p] \in PC \ {"idle", "set", "body", "eval"}
  /\ pc' = [pc EXCEPT ![p] = "idle"]
  /\ token' = [token EXCEPT ![p] = NoToken]
  /\ UNCHANGED <<store, net, answer, lease>>

\* A second passes: the key expires when its time is over.
Tick ==
  /\ store.left > 0
  /\ store' = IF store.left = 1 THEN Absent ELSE [store EXCEPT !.left = @ - 1]
  /\ lease' = [p \in Process |-> CASE lease[p] > 1 -> lease[p] - 1
                                    [] lease[p] = 1 -> Over
                                    [] lease[p] < 1 -> lease[p]]
  /\ UNCHANGED <<net, pc, token, answer>>

-----------------------------------------------------------------------------
Session(p) ==
  \/ \E ttl \in 0 .. MaxTtl : Call(p, ttl)
  \/ Enter(p) \/ Refuse(p) \/ Leave(p) \/ Return(p) \/ RedisError(p)
  \/ Crash(p) \/ Again(p)

Redis == Tick \/ \E m \in net : Set(m) \/ Eval(m) \/ Lose(m)

Next == Redis \/ \E p \in Process : Session(p)

Spec == Init /\ [][Next]_vars

\* Time passes, and Redis expires what is due.
FairSpec == Spec /\ WF_vars(Tick)

-----------------------------------------------------------------------------
\* A process keeps the lock it was granted until it leaves the body or the
\* time it asked for is over, whatever other processes, delayed commands of
\* earlier sessions or expiries do: "a lock may expire and be acquired by
\* another process before cleanup" (lock.py:65), and the cleanup spares it.
LeaseIsKept ==
  \A p \in Process :
    lease[p] > 0 => store = [token |-> token[p], left |-> lease[p]]

\* After a `with` statement that ended without an error the key is free, or
\* held by another session: the release was not skipped and not late.
ReleasedWhenDone ==
  \A p \in Process : pc[p] = "done" => store.token # token[p]

\* Two migrations run at once only if one of them has outlived the ttl it was
\* granted: no late answer, lost command, retry or crash lets a process in
\* beside one that is in time.
ExclusionInTime ==
  \A p, q \in Process :
    pc[p] = "body" /\ pc[q] = "body" /\ p # q => Over \in {lease[p], lease[q]}

\* A key that a crash, a lost release or a lost answer left behind does not
\* block migrations for ever.
LockIsFreedEventually == store # Absent ~> store = Absent

\* The lock is a lease: what happens to the key is what Lease allows.
Asked == {m.token : m \in {n \in net : n.op = "eval"}}

ALease == INSTANCE Lease WITH
  Holder <- Token, Nobody <- NoToken,
  holder <- store.token, left <- store.left, asked <- Asked

ImplementsLease == ALease!LeaseSpec

-----------------------------------------------------------------------------
(***************************************************************************)
(* The inductive invariant the theorems of MigrationLockProofs rest on.    *)
(***************************************************************************)
StoreInv == store = Absent \/ (store.token \in Token /\ store.left > 0)

\* No two processes have one token, and one is in use past the call.
TokenInv ==
  /\ \A p, q \in Process : token[p] = token[q] /\ token[p] # NoToken => p = q
  /\ \A p \in Process :
       pc[p] \in {"set", "body", "eval", "done"} => token[p] \in Token

\* Only who waits for a command has an answer to read.
AnswerInv ==
  \A p \in Process : answer[p] # "none" => pc[p] \in {"set", "eval"}

\* A SET under way is the only one with its token and has not been
\* executed, and who waits for it waits still.
SetInv ==
  \A m \in net : m.op = "set" =>
    /\ m.ttl > 0
    /\ store.token # m.token
    /\ \A n \in net : n.op = "set" /\ n.token = m.token => n = m
    /\ \A p \in Process : token[p] = m.token =>
         \/ pc[p] = "set" /\ answer[p] = "none"
         \/ pc[p] \in {"redis_error", "crashed"}

\* A release under way comes from a process that has left the body.
EvalInv ==
  \A m \in net : m.op = "eval" =>
    /\ m.ttl = 0
    /\ \A p \in Process : token[p] = m.token =>
         \/ pc[p] = "eval" /\ answer[p] = "none"
         \/ pc[p] \in {"redis_error", "crashed"}

\* Exactly who goes by a positive answer has been granted the lock.
LeaseInv ==
  \A p \in Process :
    lease[p] # 0 <=> pc[p] = "body" \/ (pc[p] = "set" /\ answer[p] = "yes")

\* Once the release is answered the key no longer holds the token.
ReleaseInv ==
  \A p \in Process :
    pc[p] = "done" \/ (pc[p] = "eval" /\ answer[p] # "none")
      => store.token # token[p]

IInv ==
  /\ TypeOK
  /\ StoreInv /\ TokenInv /\ AnswerInv /\ SetInv /\ EvalInv /\ LeaseInv /\ ReleaseInv
  /\ LeaseIsKept

=============================================================================
