------------------------------ MODULE RedisLock ------------------------------
(***************************************************************************)
(* The two locks that the framework keeps in Redis.  A "script" client is  *)
(* a RedisLock of framework/database/redis.go, whose script renews a lock  *)
(* that has its id already; a "setnx" client is one of lock/lock.go.  A    *)
(* client takes the lock, may take it again further down the call, and     *)
(* gives it back; answers of Redis get lost and leases run out.            *)
(***************************************************************************)
EXTENDS Naturals

CONSTANTS
  Clients,
  Style,     \* "script" or "setnx", for every client
  MaxDepth,  \* bound: how often a client takes the lock that it has
  Nobody

ASSUME RedisLockAssumption ==
  /\ Style \in [Clients -> {"script", "setnx"}]
  /\ MaxDepth \in Nat \ {0}
  /\ Nobody \notin Clients

VARIABLES
  holder,  \* the id that the key has in Redis
  step,    \* what a client is doing: "work", "try", "retry" or "unlock"
  depth,   \* how often the client has been told that it has the lock
  void     \* the lease ran out, or the client gave it back, since then

redisLockVars == <<holder, step, depth, void>>

RedisLockInit ==
  /\ holder = Nobody
  /\ step = [c \in Clients |-> "work"]
  /\ depth = [c \in Clients |-> 0]
  /\ void = [c \in Clients |-> FALSE]

Goes(c, s) == step' = [step EXCEPT ![c] = s]

\* Lock and LockRetry differ in what follows a failure, see GiveUpLock.
CallLock(c) ==
  /\ step[c] = "work" /\ depth[c] < MaxDepth
  /\ Goes(c, "try")
  /\ UNCHANGED <<holder, depth, void>>

\* lockCommand: GET the key; SET it anew, or SET it if there is none.
FreeToAll(c) == Style[c] = "script" \/ holder = Nobody

Free(c) == holder = Nobody \/ (Style[c] = "script" /\ holder = c)

ToldAndTriesOn(c) ==
  /\ Goes(c, "try")
  /\ depth' = [depth EXCEPT ![c] = @ + 1]
  /\ void' = [void EXCEPT ![c] = depth[c] > 0 /\ @]

Told(c) ==
  /\ Goes(c, "work")
  /\ depth' = [depth EXCEPT ![c] = @ + 1]
  /\ void' = [void EXCEPT ![c] = depth[c] > 0 /\ @]

TakeLock(c) ==
  /\ step[c] = "try" /\ Free(c)
  /\ holder' = c
  /\ \/ Told(c)
     \/ Goes(c, "retry") /\ UNCHANGED <<depth, void>>   \* the answer is lost

\* Another has the lock, or Redis cannot be reached.
Denied(c) ==
  /\ step[c] = "try"
  /\ Goes(c, "retry")
  /\ UNCHANGED <<holder, depth, void>>

\* LockRetry sleeps and tries again.
Retry(c) ==
  /\ step[c] = "retry" /\ Style[c] = "script"
  /\ Goes(c, "try")
  /\ UNCHANGED <<holder, depth, void>>

\* The end of Lock, or of LockRetry's context; TryLock of lock.go unlocks too.
GiveUpLock(c) ==
  /\ step[c] = "retry"
  /\ \/ Goes(c, "work")
     \/ Style[c] = "setnx" /\ Goes(c, "unlock")
  /\ UNCHANGED <<holder, depth, void>>

CallUnlock(c) ==
  /\ step[c] = "work" /\ depth[c] > 0
  /\ depth' = [depth EXCEPT ![c] = @ - 1]
  /\ Goes(c, "unlock")
  /\ UNCHANGED <<holder, void>>

\* delCommand: GET the key, and delete it if it has the client's id.  The lock
\* does not count how often it was taken.
AnyoneHas(c) == TRUE

Has(c) == holder = c

DropLock(c) ==
  /\ step[c] = "unlock"
  /\ holder' = IF Has(c) THEN Nobody ELSE holder
  /\ void' = [void EXCEPT ![c] = TRUE]
  /\ Goes(c, "work")
  /\ UNCHANGED depth

\* The error is not looked at; the key stays until the lease runs out.
DropFails(c) ==
  /\ step[c] = "unlock"
  /\ Goes(c, "work")
  /\ UNCHANGED <<holder, depth, void>>

\* PX: the time of the lease is over.
RunOut ==
  /\ holder # Nobody
  /\ holder' = Nobody
  /\ void' = [void EXCEPT ![holder] = TRUE]
  /\ UNCHANGED <<step, depth>>

RedisLockStep(c) ==
  \/ CallLock(c) \/ TakeLock(c) \/ Denied(c) \/ Retry(c) \/ GiveUpLock(c)
  \/ CallUnlock(c) \/ DropLock(c) \/ DropFails(c)

RedisLockNext == RunOut \/ \E c \in Clients : RedisLockStep(c)

RedisLockSpec == RedisLockInit /\ [][RedisLockNext]_redisLockVars

---------------------------------------------------------------------------
RedisLockTypeOK ==
  /\ holder \in Clients \cup {Nobody}
  /\ step \in [Clients -> {"work", "try", "retry", "unlock"}]
  /\ depth \in [Clients -> 0 .. MaxDepth]
  /\ void \in [Clients -> BOOLEAN]

\* A client that was told it has the lock, and whose lease has not run out and
\* who has not unlocked since, really has it ...
Holds(c) == depth[c] > 0 /\ ~void[c]

HoldersHave == \A c \in Clients : Holds(c) => holder = c

\* ... so no two clients have it, whichever of the two locks they use.
OneHolder == \A c, d \in Clients : Holds(c) /\ Holds(d) => c = d

\* "delete only what has your id" (redis.go:25): however late it comes, an
\* Unlock never takes the lock from another client.
UnlockOwnOnly ==
  [][\A c \in Clients : step[c] = "unlock" /\ step'[c] = "work"
       => holder' = holder \/ holder = c]_redisLockVars

\* Both locks are leases: Lease, with the key of Redis as the owner.
L == INSTANCE Lease WITH owner <- holder, believers <- {c \in Clients : depth[c] > 0}

IsLease == L!Spec
=============================================================================
