-------------------------------- MODULE Pool --------------------------------
(***************************************************************************)
(* dbp::pool<T> and dbp::pool_ptr<T> (pool.h): a keyed cache of objects   *)
(* shared by threads.  acquire_item first takes the size policy (a         *)
(* semaphore for pool_size_limited_policy, nothing for the unlimited one)  *)
(* and then, under the mutex cs, pops a free object of the key or creates  *)
(* one; release_item first gives the policy back and then, under cs,      *)
(* pushes the object on its key's free queue.  The policy step and the cs *)
(* section are separate steps: another thread runs between them.          *)
(*                                                                         *)
(* Each thread owns pool_ptr variables (Slots).  The user code acquires   *)
(* into a slot, `p = pool.acquire(key)`, which is the acquire followed by  *)
(* pool_ptr::operator=, releasing the object p held; or it destroys a      *)
(* slot, ~pool_ptr.  Objects are numbered in creation order (_all).       *)
(***************************************************************************)
EXTENDS Naturals, Sequences, FiniteSets

CONSTANTS
    Threads,    \* user threads
    Keys,       \* keys passed to acquire
    Slots,      \* each thread's pool_ptr variables
    Limited,    \* TRUE: pool_size_limited_policy, FALSE: unlimited policy
    Limit,      \* size_limit of the limited policy
    MaxCalls    \* bound: acquire calls the user code makes

ASSUME Limited \in BOOLEAN /\ Limit \in Nat /\ MaxCalls \in Nat

VARIABLES
    sem,        \* the limited policy's semaphore counter
    free,       \* _free: each key's queue of free objects
    created,    \* _all.size(): objects created so far, numbered 1..created
    bornKey,    \* auxiliary: the key each object was created for
    slot,       \* each pool_ptr: [item, key]; item 0 is NULL
    pc,         \* where each thread is in acquire/release
    op,         \* the thread's pending call: slot, key, object acquired
    calls       \* acquire calls made so far

vars == <<sem, free, created, bornKey, slot, pc, op, calls>>

Null == 0
NullPtr == [item |-> Null, key |-> CHOOSE k \in Keys : TRUE]
Items == 1..MaxCalls

Init ==
    /\ sem = Limit
    /\ free = [k \in Keys |-> <<>>]
    /\ created = 0 /\ bornKey = <<>>
    /\ slot = [t \in Threads |-> [s \in Slots |-> NullPtr]]
    /\ pc = [t \in Threads |-> "idle"]
    /\ op = [t \in Threads |-> [slot |-> CHOOSE s \in Slots : TRUE,
                                key |-> CHOOSE k \in Keys : TRUE, new |-> Null]]
    /\ calls = 0

-----------------------------------------------------------------------------
\* `slot = pool.acquire(key)`: pool::acquire calls acquire_item(key).
Acquire(t, s, k) ==
    /\ pc[t] = "idle" /\ calls < MaxCalls
    /\ pc' = [pc EXCEPT ![t] = "sem"]
    /\ op' = [op EXCEPT ![t] = [slot |-> s, key |-> k, new |-> Null]]
    /\ calls' = calls + 1
    /\ UNCHANGED <<sem, free, created, bornKey, slot>>

\* size_policy->lock(): sem_wait on the limited policy's semaphore.
SemWait(t) ==
    /\ pc[t] = "sem"
    /\ ~Limited \/ sem > 0
    /\ sem' = IF Limited THEN sem - 1 ELSE sem
    /\ pc' = [pc EXCEPT ![t] = "acq"]
    /\ UNCHANGED <<free, created, bornKey, slot, op, calls>>

\* pool_ptr::operator= after the acquire returns: the object the slot held
\* is released first; an empty slot takes the new object at once.
Assign(t, new) ==
    IF slot[t][op[t].slot].item = Null
    THEN /\ slot' = [slot EXCEPT ![t][op[t].slot] = [item |-> new, key |-> op[t].key]]
         /\ pc' = [pc EXCEPT ![t] = "idle"]
    ELSE /\ pc' = [pc EXCEPT ![t] = "post"]
         /\ UNCHANGED slot

\* Mutant: the emptiness test is off by one (q.size() <= 1), so the last
\* free object of a key is never reused.
TakeItemMut(t) ==
    /\ pc[t] = "acq"
    /\ LET k == op[t].key IN
       IF Len(free[k]) <= 1
       THEN /\ created' = created + 1 /\ bornKey' = Append(bornKey, k)
            /\ op' = [op EXCEPT ![t].new = created + 1]
            /\ Assign(t, created + 1)
            /\ UNCHANGED free
       ELSE /\ free' = [free EXCEPT ![k] = Tail(@)]
            /\ op' = [op EXCEPT ![t].new = Head(free[k])]
            /\ Assign(t, Head(free[k]))
            /\ UNCHANGED <<created, bornKey>>
    /\ UNCHANGED <<sem, calls>>

\* Under cs: the key's free queue is popped, or a new object created when
\* it is empty.
TakeItem(t) ==
    /\ pc[t] = "acq"
    /\ LET k == op[t].key IN
       IF free[k] = <<>>
       THEN /\ created' = created + 1 /\ bornKey' = Append(bornKey, k)
            /\ op' = [op EXCEPT ![t].new = created + 1]
            /\ Assign(t, created + 1)
            /\ UNCHANGED free
       ELSE /\ free' = [free EXCEPT ![k] = Tail(@)]
            /\ op' = [op EXCEPT ![t].new = Head(free[k])]
            /\ Assign(t, Head(free[k]))
            /\ UNCHANGED <<created, bornKey>>
    /\ UNCHANGED <<sem, calls>>

\* Mutant: the destructor tests only _pool, and a NULL pool_ptr (default
\* constructed, or the source of a copy) releases NULL.
ReleaseMut(t, s) ==
    /\ pc[t] = "idle"
    /\ pc' = [pc EXCEPT ![t] = "post"]
    /\ op' = [op EXCEPT ![t] = [slot |-> s, key |-> slot[t][s].key, new |-> Null]]
    /\ UNCHANGED <<sem, free, created, bornKey, slot, calls>>

\* ~pool_ptr on a slot that holds an object: release_item(_item, _key).
Release(t, s) ==
    /\ pc[t] = "idle" /\ slot[t][s].item # Null
    /\ pc' = [pc EXCEPT ![t] = "post"]
    /\ op' = [op EXCEPT ![t] = [slot |-> s, key |-> slot[t][s].key, new |-> Null]]
    /\ UNCHANGED <<sem, free, created, bornKey, slot, calls>>

\* size_policy->unlock(): sem_post, before the object is back in the pool.
Post(t) ==
    /\ pc[t] = "post"
    /\ sem' = IF Limited THEN sem + 1 ELSE sem
    /\ pc' = [pc EXCEPT ![t] = "push"]
    /\ UNCHANGED <<free, created, bornKey, slot, op, calls>>

\* Mutant: operator= copies _key from the source before releasing, so the
\* old object goes back under the new key.
PushMut(t) ==
    /\ pc[t] = "push"
    /\ LET old == slot[t][op[t].slot] IN
       free' = [free EXCEPT ![op[t].key] = Append(@, old.item)]
    /\ slot' = [slot EXCEPT ![t][op[t].slot] =
                    IF op[t].new = Null THEN NullPtr
                    ELSE [item |-> op[t].new, key |-> op[t].key]]
    /\ pc' = [pc EXCEPT ![t] = "idle"]
    /\ UNCHANGED <<sem, created, bornKey, op, calls>>

\* Under cs: the object is pushed on its key's queue; then the pool_ptr
\* takes the new object (operator=) or is gone (destructor).
Push(t) ==
    /\ pc[t] = "push"
    /\ LET old == slot[t][op[t].slot] IN
       free' = [free EXCEPT ![old.key] = Append(@, old.item)]
    /\ slot' = [slot EXCEPT ![t][op[t].slot] =
                    IF op[t].new = Null THEN NullPtr
                    ELSE [item |-> op[t].new, key |-> op[t].key]]
    /\ pc' = [pc EXCEPT ![t] = "idle"]
    /\ UNCHANGED <<sem, created, bornKey, op, calls>>

Next ==
    \E t \in Threads :
        \/ \E s \in Slots, k \in Keys : Acquire(t, s, k)
        \/ \E s \in Slots : Release(t, s)
        \/ SemWait(t) \/ TakeItem(t) \/ Post(t) \/ Push(t)

\* Safety only: no fairness is assumed.
Spec == Init /\ [][Next]_vars

-----------------------------------------------------------------------------
Ptrs == [item : {Null} \cup Items, key : Keys]

TypeOK ==
    /\ sem \in 0..Limit /\ created \in 0..calls /\ calls \in 0..MaxCalls
    /\ free \in [Keys -> Seq(Items)] /\ bornKey \in Seq(Keys)
    /\ slot \in [Threads -> [Slots -> Ptrs]]
    /\ pc \in [Threads -> {"idle", "sem", "acq", "post", "push"}]

\* The places an object can be: a pool_ptr, a free queue (once per
\* occurrence), or a thread's acquire that operator= has not yet stored.
Holders(i) == {<<t, s>> \in Threads \X Slots : slot[t][s].item = i}
Pending(i) == {t \in Threads : pc[t] \in {"post", "push"} /\ op[t].new = i}
Queued(i, k) == Cardinality({j \in 1..Len(free[k]) : free[k][j] = i})

\* Every object the pool created is, at any time, in exactly one place:
\* held by one pool_ptr, pending in one thread's operator=, or queued once
\* as free; a free object is queued under the key it was created for and
\* a pool_ptr holds it with that key.  No two users get the same object
\* and none is lost, whatever the interleaving of acquire_item, release_item
\* and pool_ptr's assignment.
ItemsAccounted ==
    \A i \in 1..created :
        /\ Cardinality(Holders(i)) + Cardinality(Pending(i))
             + Queued(i, bornKey[i]) = 1
        /\ \A k \in Keys \ {bornKey[i]} : Queued(i, k) = 0
        /\ \A h \in Holders(i) : slot[h[1]][h[2]].key = bornKey[i]

-----------------------------------------------------------------------------
(* Refinement.  The objects a thread owns are those its pool_ptrs hold and *)
(* the one its acquire has taken and operator= has not yet stored; an      *)
(* object is given back when release_item pushes it.                      *)

Owned(t) ==
    {slot[t][s].item : s \in {s \in Slots : slot[t][s].item # Null}}
      \cup (IF pc[t] \in {"post", "push"} /\ op[t].new # Null THEN {op[t].new} ELSE {})

Service == INSTANCE PoolService WITH
               free <- [k \in Keys |-> {free[k][j] : j \in 1..Len(free[k])}],
               owned <- [t \in Threads |-> Owned(t)]

\* The pool implements what its comment promises: with the policy step,
\* the cs section and pool_ptr's assignment interleaved in any way, an
\* acquire reuses a free object of its key whenever the pool holds one
\* and creates an object only when it holds none, and a release gives
\* the object back under the key it was created for.
PoolRefinement == Service!Spec

-----------------------------------------------------------------------------
(* The size limit.                                                        *)

\* pool::in_use(): _all.size() less the objects in the free queues.
InUse == created - Cardinality({<<k, j>> \in Keys \X Items : j <= Len(free[k])})

\* Threads past sem_wait whose object is not yet taken, and threads whose
\* release_item has posted the semaphore but not yet pushed the object.
Acquiring == {t \in Threads : pc[t] = "acq"}
Posted == {t \in Threads : pc[t] = "push"}

=============================================================================
