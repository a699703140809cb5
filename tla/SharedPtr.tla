----------------------------- MODULE SharedPtr -----------------------------
(***************************************************************************)
(* SharedPtrTS and WeakPtrTS (include/Common/Ptr/SharedPtr.cpp) over one    *)
(* RefCounterTS (RefCounter.h): every access to the two counters is a step  *)
(* of its own, so that pointers of any number of threads interleave.  The   *)
(* program uses a pointer object from one thread at a time, makes its weak  *)
(* pointers of other pointers and destroys them without a reset.            *)
(***************************************************************************)
EXTENDS Integers, FiniteSets

CONSTANTS Shareds,    \* the SharedPtr objects
          Weaks       \* the WeakPtr objects

ASSUME PtrAssumption ==
    IsFiniteSet(Shareds) /\ IsFiniteSet(Weaks) /\ Shareds \cap Weaks = {}

Ptrs == Shareds \cup Weaks

VARIABLES
    st,          \* what each pointer is doing
    shared,      \* m_sharedRefs
    weak,        \* m_weakRefs
    doomed,      \* the SharedPtrs whose check_delete_ptr is to release the object
    released,    \* how often DelStrategy::release got the object, up to 2
    freed,       \* how often the counter was deleted, up to 2
    broken,      \* the counter was used after it was deleted
    overlap,     \* a pointer was dropped while another one was being dropped
    revived      \* a SharedPtr was made when there was no other

ptrVars == <<st, shared, weak, doomed, released, freed, broken, overlap, revived>>

\* A "locking" WeakPtr is in lock and was not expired when it was checked.
Owners == {p \in Shareds : st[p] = "held"}
Observers == {w \in Weaks : st[w] \in {"held", "locking"}}

\* check_delete_ptr, from its first access of the counter to its last one.
Counting == {"dec", "loaded", "no_shared", "no_weak", "refs"}
Dropping == {p \in Ptrs : st[p] \in Counting \cup {"delete"}}

PtrInit ==
    /\ \E p \in Shareds : st = [q \in Ptrs |-> IF q = p THEN "held" ELSE "null"]
    /\ shared = 1 /\ weak = 0
    /\ doomed = {} /\ released = 0 /\ freed = 0
    /\ broken = FALSE /\ overlap = FALSE /\ revived = FALSE

Alive == freed = 0
Twice(n) == IF n = 0 THEN 1 ELSE 2

-----------------------------------------------------------------------------
\* SharedPtr of a SharedPtr.
copy(p, q) ==
    /\ Alive /\ st[p] = "null" /\ q \in Owners
    /\ st' = [st EXCEPT ![p] = "held"] /\ shared' = shared + 1
    /\ UNCHANGED <<weak, doomed, released, freed, broken, overlap, revived>>

\* Fault for DeletedOnce: a new WeakPtr is not counted.
observe_uncounted(w, q) ==
    /\ Alive /\ st[w] = "null" /\ q \in Owners \cup Observers
    /\ st' = [st EXCEPT ![w] = "held"]
    /\ UNCHANGED <<shared, weak, doomed, released, freed, broken, overlap, revived>>

\* WeakPtr of a SharedPtr or of a WeakPtr.
observe(w, q) ==
    /\ Alive /\ st[w] = "null" /\ q \in Owners \cup Observers
    /\ st' = [st EXCEPT ![w] = "held"] /\ weak' = weak + 1
    /\ UNCHANGED <<shared, doomed, released, freed, broken, overlap, revived>>

\* lock finds that the WeakPtr has not expired.
not_expired(w) ==
    /\ Alive /\ st[w] = "held" /\ shared # 0
    /\ st' = [st EXCEPT ![w] = "locking"]
    /\ UNCHANGED <<shared, weak, doomed, released, freed, broken, overlap, revived>>

\* SharedPtr of a WeakPtr, by lock or not: it checks nothing.
from_weak(p, w) ==
    /\ Alive /\ st[p] = "null" /\ w \in Observers
    /\ st' = [st EXCEPT ![p] = "held", ![w] = "held"] /\ shared' = shared + 1
    /\ revived' = (revived \/ shared = 0)
    /\ UNCHANGED <<weak, doomed, released, freed, broken, overlap>>

-----------------------------------------------------------------------------
\* check_delete_ptr, of both kinds of pointers.

\* The store for a count below zero is part of it: HeldIsAlive says there is none.
Dec(n) == IF n = 0 THEN 0 ELSE n - 1

dec_shared(p) ==
    /\ Alive /\ p \in Owners
    /\ st' = [st EXCEPT ![p] = "dec"] /\ shared' = Dec(shared)
    /\ overlap' = (overlap \/ Dropping # {})
    /\ UNCHANGED <<weak, doomed, released, freed, broken, revived>>

dec_weak(w) ==
    /\ Alive /\ w \in Weaks /\ st[w] = "held"
    /\ st' = [st EXCEPT ![w] = "loaded"] /\ weak' = Dec(weak)
    /\ overlap' = (overlap \/ Dropping # {})
    /\ UNCHANGED <<shared, doomed, released, freed, broken, revived>>

\* Fault for HeldIsAlive: the count is compared as it was before it was decremented.
load_before(p) ==
    /\ Alive /\ st[p] = "dec"
    /\ st' = [st EXCEPT ![p] = "loaded"]
    /\ doomed' = IF shared <= 1 THEN doomed \cup {p} ELSE doomed
    /\ UNCHANGED <<shared, weak, released, freed, broken, overlap, revived>>

\* get_shared_refs() == 0, a read of its own after the count was decremented.
load_shared(p) ==
    /\ Alive /\ st[p] = "dec"
    /\ st' = [st EXCEPT ![p] = "loaded"]
    /\ doomed' = IF shared = 0 THEN doomed \cup {p} ELSE doomed
    /\ UNCHANGED <<shared, weak, released, freed, broken, overlap, revived>>

\* has_refs reads both counters, in the order the compiler likes.
one_count(p) ==
    /\ Alive /\ st[p] = "loaded"
    /\ \/ st' = [st EXCEPT ![p] = IF shared = 0 THEN "no_shared" ELSE "refs"]
       \/ st' = [st EXCEPT ![p] = IF weak = 0 THEN "no_weak" ELSE "refs"]
    /\ UNCHANGED <<shared, weak, doomed, released, freed, broken, overlap, revived>>

\* Fault for NothingLeaks: the last WeakPtr leaves the counter to a SharedPtr.
NoRefsOwner(p) == p \in Shareds /\ \/ st[p] = "no_shared" /\ weak = 0
                                   \/ st[p] = "no_weak" /\ shared = 0

NoRefs(p) == \/ st[p] = "no_shared" /\ weak = 0
             \/ st[p] = "no_weak" /\ shared = 0

other_count(p) ==
    /\ Alive /\ st[p] \in {"no_shared", "no_weak", "refs"}
    /\ st' = [st EXCEPT ![p] = IF NoRefs(p) THEN "delete" ELSE "release"]
    /\ UNCHANGED <<shared, weak, doomed, released, freed, broken, overlap, revived>>

delete(p) ==
    /\ st[p] = "delete"
    /\ st' = [st EXCEPT ![p] = "release"] /\ freed' = Twice(freed)
    /\ UNCHANGED <<shared, weak, doomed, released, broken, overlap, revived>>

release(p) ==
    /\ st[p] = "release"
    /\ st' = [st EXCEPT ![p] = "null"] /\ doomed' = doomed \ {p}
    /\ released' = IF p \in doomed THEN Twice(released) ELSE released
    /\ UNCHANGED <<shared, weak, freed, broken, overlap, revived>>

\* Any of the accesses above when the counter is deleted.
use_deleted ==
    /\ ~Alive /\ Owners \cup Observers \cup {p \in Ptrs : st[p] \in Counting} # {}
    /\ broken' = TRUE
    /\ UNCHANGED <<st, shared, weak, doomed, released, freed, overlap, revived>>

PtrNext ==
    \/ \E p \in Shareds :
          \/ \E q \in Shareds : copy(p, q)
          \/ \E w \in Weaks : from_weak(p, w)
          \/ dec_shared(p) \/ load_shared(p)
    \/ \E w \in Weaks :
          \/ \E q \in Ptrs : observe(w, q)
          \/ not_expired(w) \/ dec_weak(w)
    \/ \E p \in Ptrs : one_count(p) \/ other_count(p) \/ delete(p) \/ release(p)
    \/ use_deleted

PtrSpec == PtrInit /\ [][PtrNext]_ptrVars

-----------------------------------------------------------------------------
PtrTypeOK ==
    /\ st \in [Ptrs -> {"null", "held", "locking", "delete", "release"} \cup Counting]
    /\ \A p \in Shareds : st[p] # "locking"
    /\ \A w \in Weaks : st[w] # "dec"
    /\ shared \in Nat /\ weak \in Nat /\ doomed \subseteq Shareds
    /\ released \in 0..2 /\ freed \in 0..2
    /\ broken \in BOOLEAN /\ overlap \in BOOLEAN /\ revived \in BOOLEAN

\* The counters count the pointers, and while a SharedPtr points to the object
\* nobody has released it or is to (SharedPtr.cpp:239-250), however many pointers
\* are copied and dropped at once.  Only SharedPtrs made of a WeakPtr after the
\* last owner was gone, also by a lock that came too late, may point to a released one.
HeldIsAlive ==
    /\ PtrTypeOK
    /\ shared = Cardinality(Owners) /\ weak = Cardinality(Observers)
    /\ Owners # {} => revived \/ (released = 0 /\ doomed = {})

\* The object is released once, the counter is deleted once and not used
\* afterwards, unless two pointers were dropped at the same time: a drop reads
\* the counters after it has decremented one (SharedPtr.cpp:239-247).
DeletedOnce ==
    overlap \/ revived \/ (released <= 1 /\ freed <= 1 /\ ~broken)

\* When there is no pointer left the object has been released and the counter
\* deleted, whatever was dropped at the same time: the two reads of has_refs
\* may be apart, but those of the last drop come after every change.
NothingLeaks ==
    (\A p \in Ptrs : st[p] = "null") => released > 0 /\ freed > 0
=============================================================================
