--------------------------- MODULE DistributedLock ---------------------------
(***************************************************************************)
(* The Redis lock: a key holds the token of its owner until the owner's    *)
(* script deletes it or its TTL ends.  The operators are parts of actions  *)
(* of the modules that use the lock.                                       *)
(*                                                                         *)
(* Source: internal/lock/distributed_lock.go.  A token is a time and a     *)
(* random number, so every call of Lock has one of its own.                *)
(***************************************************************************)

CONSTANTS Keys, Tokens, NoToken

VARIABLES
    redis,    \* the token stored under each key, NoToken if there is none
    expired   \* history: tokens that were removed by their TTL

LockInit ==
    /\ redis = [k \in Keys |-> NoToken]
    /\ expired = {}

Taken(k) == redis[k] # NoToken

\* Mutant of SetNX: SET without NX.
SetAlways(k, t) ==
    /\ redis' = [redis EXCEPT ![k] = t]
    /\ UNCHANGED expired

\* An attempt of Lock succeeds.
SetNX(k, t) ==
    /\ ~Taken(k)
    /\ redis' = [redis EXCEPT ![k] = t]
    /\ UNCHANGED expired

\* The deadline of Lock passes while somebody else holds the key.
Timeout(k) ==
    /\ Taken(k)
    /\ UNCHANGED <<redis, expired>>

\* SETNX returns an error; Redis may have executed it all the same, and then
\* nobody knows the token.
LockError(k, t) == SetNX(k, t) \/ UNCHANGED <<redis, expired>>

\* Mutant of Unlock: DEL whatever the key holds.
UnlockAny(k, t) ==
    /\ redis' = [redis EXCEPT ![k] = NoToken]
    /\ UNCHANGED expired

\* The script: delete the key if it still holds the token.
Unlock(k, t) ==
    /\ redis' = IF redis[k] = t THEN [redis EXCEPT ![k] = NoToken] ELSE redis
    /\ UNCHANGED expired

\* The script fails, or the context it is given has been cancelled.
UnlockError(k, t) == Unlock(k, t) \/ UNCHANGED <<redis, expired>>

\* The TTL of a key ends, whatever its owner is doing.
Expire(k) ==
    /\ Taken(k)
    /\ redis' = [redis EXCEPT ![k] = NoToken]
    /\ expired' = expired \cup {redis[k]}

\* What the users of the lock rely on: a token leaves Redis by its TTL or in a
\* step in which its own holder released it.
LeavesOnlyBy(Release(_)) ==
    \A k \in Keys : Taken(k) /\ redis'[k] # redis[k] =>
                        redis[k] \in expired' \/ Release(redis[k])
=============================================================================
