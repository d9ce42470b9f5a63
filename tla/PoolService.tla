----------------------------- MODULE PoolService -----------------------------
(***************************************************************************)
(* What dbp::pool promises its users (pool.h:61-69, the comment on class *)
(* pool): acquiring under a key returns an object of that key the pool   *)
(* holds and no one uses, and creates one only when there is none; an    *)
(* object its user no longer needs returns to the pool, under the key it *)
(* was created for.  Each step is atomic.  No order among the free        *)
(* objects of a key is promised.                                          *)
(***************************************************************************)
EXTENDS Naturals, Sequences

CONSTANTS Threads, Keys

VARIABLES
    free,       \* each key's set of free objects
    created,    \* objects created so far, numbered 1..created
    bornKey,    \* the key each object was created for
    owned       \* the objects each thread holds

vars == <<free, created, bornKey, owned>>

Init ==
    /\ free = [k \in Keys |-> {}]
    /\ created = 0 /\ bornKey = <<>>
    /\ owned = [t \in Threads |-> {}]

\* Thread t acquires under key k: a free object of k, or a new one when
\* k has none.
Take(t, k) ==
    \/ /\ free[k] = {}
       /\ created' = created + 1 /\ bornKey' = Append(bornKey, k)
       /\ owned' = [owned EXCEPT ![t] = @ \cup {created + 1}]
       /\ UNCHANGED free
    \/ \E i \in free[k] :
         /\ owned' = [owned EXCEPT ![t] = @ \cup {i}]
         /\ free' = [free EXCEPT ![k] = @ \ {i}]
         /\ UNCHANGED <<created, bornKey>>

\* Thread t gives object i back.
Give(t, i) ==
    /\ i \in owned[t]
    /\ owned' = [owned EXCEPT ![t] = @ \ {i}]
    /\ free' = [free EXCEPT ![bornKey[i]] = @ \cup {i}]
    /\ UNCHANGED <<created, bornKey>>

Next == \E t \in Threads :
            \/ \E k \in Keys : Take(t, k)
            \/ \E i \in owned[t] : Give(t, i)

Spec == Init /\ [][Next]_vars
=============================================================================
