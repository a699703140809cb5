------------------------------ MODULE AsyncLog ------------------------------
(***************************************************************************)
(* The asynchronous logger: threads that log (Logger.cpp, LoggerMgr.cpp),  *)
(* the log thread that writes what they hand over (AsyncThread.cpp,        *)
(* LogThreadType.cpp), the AsyncQueue between them, and LoggerMgr::release *)
(* called by one of the logging threads, the owner.                        *)
(*                                                                         *)
(* A message stands for a Log or a Flush AsyncMsg; both go the same way.   *)
(* What a thread reads of the AsyncThread after its delete is taken to be  *)
(* as it was: one outcome of many, and the mildest.                        *)
(***************************************************************************)
EXTENDS Integers, Sequences, Functions

CONSTANTS Size, Producers, MaxPush, NULL,
          Owner,      \* the producer that calls init_async and release
          Worker,     \* the log thread
          Overflows,  \* the policies that init_async may be given
          MaxLog      \* bound on what each producer logs

ASSUME LogAssumption ==
    /\ Owner \in Producers
    /\ Worker \notin Producers
    /\ Size \in Nat \ {0} /\ MaxPush \in Nat
    /\ NULL \notin Producers \X (1..MaxPush)
    /\ MaxLog \in [Producers -> 0..MaxPush]
    /\ Overflows \subseteq {"Block", "Discard"} /\ Overflows # {}

VARIABLES
    slot, readIdx, writeIdx, pc, idx, t,            \* AsyncThread::m_queue
    count, accepted, popped, lapped,
    thread,     \* whether LoggerMgr::m_thread is set
    overflow,   \* AsyncThread::m_overflow
    release,    \* AsyncThread::m_release
    threadID,   \* whether LogThread::m_threadID is set
    detached,   \* whether the log thread's pthread is detached
    at,         \* where each producer is in the logger
    worker,     \* where the log thread is
    am,         \* its local am
    written,    \* what the channels have been given, in order
    seen,       \* what had been accepted when pop last returned
    joined      \* where the log thread was when join returned

queueVars == <<slot, readIdx, writeIdx, pc, idx, t, count, accepted, popped, lapped>>
objectVars == <<overflow, release, threadID, detached>>
workerVars == <<worker, am, seen>>
ownerVars == <<thread, joined>>
vars == <<queueVars, objectVars, workerVars, ownerVars, at, written>>

Q == INSTANCE AsyncQueue WITH Consumers <- {Worker}

LastMsg(p) == <<p, count[p]>>

Go(p, from, to) == at[p] = from /\ at' = [at EXCEPT ![p] = to]

-----------------------------------------------------------------------------
Init ==
    /\ Q!Init
    /\ thread = FALSE /\ joined = "no"
    /\ overflow \in Overflows
    /\ release = FALSE /\ threadID = FALSE /\ detached = FALSE
    /\ at = [p \in Producers |-> IF p = Owner THEN "init_async" ELSE "out"]
    /\ worker = "none" /\ am = NULL /\ seen = {}
    /\ written = <<>>

-----------------------------------------------------------------------------
\* The threads that log.

\* Logger::log: channel and flush both come to LoggerMgr.
log(p) ==
    /\ count[p] < MaxLog[p]
    /\ Go(p, "out", "channel")
    /\ UNCHANGED <<queueVars, objectVars, workerVars, ownerVars, written>>

\* LoggerMgr::channel without a log thread: do_channel writes at once.
do_channel(p) ==
    /\ ~thread
    /\ Go(p, "channel", "out")
    /\ count' = [count EXCEPT ![p] = @ + 1]
    /\ written' = Append(written, <<p, count[p] + 1>>)
    /\ UNCHANGED <<slot, readIdx, writeIdx, pc, idx, t, accepted, popped, lapped>>
    /\ UNCHANGED <<objectVars, workerVars, ownerVars>>

\* LoggerMgr::channel with one: the pointer is used without a lock.
async_channel(p) ==
    /\ thread
    /\ Go(p, "channel", "push")
    /\ UNCHANGED <<queueVars, objectVars, workerVars, ownerVars, written>>

\* AsyncThread::push returns when m_release is set; nobody hears of the message.
push_released(p) ==
    /\ release
    /\ Go(p, "push", "out")
    /\ count' = [count EXCEPT ![p] = @ + 1]
    /\ UNCHANGED <<slot, readIdx, writeIdx, pc, idx, t, accepted, popped, lapped>>
    /\ UNCHANGED <<objectVars, workerVars, ownerVars, written>>

push_queue(p) ==
    /\ ~release
    /\ Go(p, "push", "queue")
    /\ Q!call_push(p)
    /\ UNCHANGED <<objectVars, workerVars, ownerVars, written>>

queue_step(p) ==
    /\ at[p] = "queue"
    /\ Q!push(p)
    /\ UNCHANGED <<objectVars, workerVars, ownerVars, at, written>>

push_done(p) ==
    /\ pc[p] = "idle" /\ LastMsg(p) \in accepted
    /\ Go(p, "queue", "out")
    /\ UNCHANGED <<queueVars, objectVars, workerVars, ownerVars, written>>

\* AsyncMsg::Block: sleep and push the same message again.
push_again(p) ==
    /\ at[p] = "queue" /\ pc[p] = "idle" /\ LastMsg(p) \notin accepted
    /\ overflow = "Block"
    /\ t' = [t EXCEPT ![p] = LastMsg(p)]
    /\ pc' = [pc EXCEPT ![p] = "push"]
    /\ UNCHANGED <<slot, readIdx, writeIdx, idx, count, accepted, popped, lapped>>
    /\ UNCHANGED <<objectVars, workerVars, ownerVars, at, written>>

\* AsyncMsg::Discard: delete the message.
push_discard(p) ==
    /\ pc[p] = "idle" /\ LastMsg(p) \notin accepted
    /\ overflow = "Discard"
    /\ Go(p, "queue", "out")
    /\ UNCHANGED <<queueVars, objectVars, workerVars, ownerVars, written>>

-----------------------------------------------------------------------------
\* The log thread.

\* work_thread: m_threadID = thread_self()
start ==
    /\ worker = "created" /\ worker' = "detach"
    /\ threadID' = TRUE
    /\ UNCHANGED <<queueVars, overflow, release, detached, am, seen, ownerVars, at, written>>

\* LogThread::work: pthread_detach(thread_self()), which does nothing to a
\* thread that somebody is joining already.
detach ==
    /\ worker = "detach" /\ worker' = "loop"
    /\ detached' = (at[Owner] # "pthread_join")
    /\ UNCHANGED <<queueVars, overflow, release, threadID, am, seen, ownerVars, at, written>>

call_pop ==
    /\ worker = "loop" /\ worker' = "pop"
    /\ Q!call_pop(Worker)
    /\ UNCHANGED <<objectVars, am, seen, ownerVars, at, written>>

\* m_queue.pop(), which leaves the message or NULL in am
pop_step ==
    /\ worker = "pop"
    /\ Q!pop(Worker)
    /\ worker' = IF pc'[Worker] = "idle" THEN "test" ELSE "pop"
    /\ am' = IF popped' # popped THEN t[Worker] ELSE am
    /\ seen' = IF pc'[Worker] = "idle" THEN accepted ELSE seen
    /\ UNCHANGED <<objectVars, ownerVars, at, written>>

\* Fault for DrainedToLastPop: if (m_release) { break; }
BreakOnRelease ==
    /\ worker = "test"
    /\ worker' = IF release THEN "exit" ELSE IF am # NULL THEN "write" ELSE "loop"
    /\ UNCHANGED <<queueVars, objectVars, am, seen, ownerVars, at, written>>

\* Fault for ReleaseReturns: the loop does not see m_release change.
NeverBreak ==
    /\ worker = "test"
    /\ worker' = IF am # NULL THEN "write" ELSE "loop"
    /\ UNCHANGED <<queueVars, objectVars, am, seen, ownerVars, at, written>>

\* if (m_release && !am) { break; }
test_release ==
    /\ worker = "test"
    /\ worker' = IF am # NULL THEN "write" ELSE IF release THEN "exit" ELSE "loop"
    /\ UNCHANGED <<queueVars, objectVars, am, seen, ownerVars, at, written>>

\* The channels log or flush, and delete am.
write ==
    /\ worker = "write" /\ worker' = "loop"
    /\ written' = Append(written, am)
    /\ am' = NULL
    /\ UNCHANGED <<queueVars, objectVars, seen, ownerVars, at>>

\* work_thread: m_threadID = 0u; pthread_exit(NULL)
exit ==
    /\ worker = "exit" /\ worker' = "gone"
    /\ threadID' = FALSE
    /\ UNCHANGED <<queueVars, overflow, release, detached, am, seen, ownerVars, at, written>>

-----------------------------------------------------------------------------
\* The owner.

\* init_async: m_thread = new AsyncThread(aof, size)
init_async ==
    /\ Go(Owner, "init_async", "run")
    /\ thread' = TRUE
    /\ UNCHANGED <<queueVars, objectVars, workerVars, joined, written>>

\* m_thread->run(): pthread_create succeeds or fails, m_thread stays set
run ==
    /\ Go(Owner, "run", "out")
    /\ worker' \in {"created", "none"}
    /\ UNCHANGED <<queueVars, objectVars, am, seen, ownerVars, written>>

\* Fault for OrderKept: m_thread is cleared before the log thread has ended.
ClearThenRelease ==
    /\ thread
    /\ Go(Owner, "out", "join")
    /\ release' = TRUE
    /\ thread' = FALSE
    /\ UNCHANGED <<queueVars, overflow, threadID, detached, workerVars, joined, written>>

\* LoggerMgr::release calls AsyncThread::release: m_release = true
set_release ==
    /\ thread
    /\ Go(Owner, "out", "join")
    /\ release' = TRUE
    /\ UNCHANGED <<queueVars, overflow, threadID, detached, workerVars, ownerVars, written>>

\* LogThread::join: nothing to join as long as, or since, m_threadID is 0
join_not_running ==
    /\ ~threadID
    /\ Go(Owner, "join", "delete")
    /\ joined' = worker
    /\ UNCHANGED <<queueVars, objectVars, workerVars, thread, written>>

\* pthread_join is undefined for a detached thread; glibc returns EINVAL at once.
join_detached ==
    /\ threadID /\ detached
    /\ Go(Owner, "join", "delete")
    /\ joined' = worker
    /\ UNCHANGED <<queueVars, objectVars, workerVars, thread, written>>

join_wait ==
    /\ threadID /\ ~detached
    /\ Go(Owner, "join", "pthread_join")
    /\ UNCHANGED <<queueVars, objectVars, workerVars, ownerVars, written>>

join_return ==
    /\ worker = "gone"
    /\ Go(Owner, "pthread_join", "delete")
    /\ joined' = worker
    /\ UNCHANGED <<queueVars, objectVars, workerVars, thread, written>>

\* delete m_thread; m_thread = NULL
delete ==
    /\ Go(Owner, "delete", "out")
    /\ thread' = FALSE
    /\ UNCHANGED <<queueVars, objectVars, workerVars, joined, written>>

-----------------------------------------------------------------------------
producer(p) ==
    \/ do_channel(p) \/ async_channel(p)
    \/ push_released(p) \/ push_queue(p)
    \/ queue_step(p) \/ push_done(p) \/ push_again(p) \/ push_discard(p)

log_thread ==
    start \/ detach \/ call_pop \/ pop_step \/ test_release \/ write \/ exit

releasing ==
    join_not_running \/ join_detached \/ join_wait \/ join_return \/ delete

Next ==
    \/ \E p \in Producers : log(p) \/ producer(p)
    \/ log_thread
    \/ init_async \/ run
    \/ set_release \/ releasing

Spec == Init /\ [][Next]_vars

\* A thread that is inside the logger keeps running, and so does the log
\* thread; nobody has to log or to release.
Fairness ==
    /\ \A p \in Producers : WF_vars(producer(p))
    /\ WF_vars(log_thread)
    /\ WF_vars(releasing)

FairSpec == Spec /\ Fairness

-----------------------------------------------------------------------------
TypeOK ==
    /\ Q!TypeOK
    /\ {thread, release, threadID, detached} \subseteq BOOLEAN
    /\ overflow \in Overflows
    /\ at \in [Producers -> {"out", "channel", "push", "queue", "init_async", "run",
                             "join", "pthread_join", "delete"}]
    /\ worker \in {"none", "created", "detach", "loop", "pop", "test", "write",
                   "exit", "gone"}
    /\ am \in Q!Message \cup {NULL}
    /\ seen \subseteq Q!Message
    /\ written \in Seq(Q!Message)
    /\ joined \in {"no", "none", "created", "detach", "loop", "pop", "test", "write",
                   "exit", "gone"}

\* No message is written twice, by the log thread or by the thread that logged
\* it, also while the owner releases the logger (AsyncThread.cpp:35-69,
\* LoggerMgr.cpp:71-76).
WrittenOnce == TypeOK /\ IsInjective(written)

\* The log thread is still running though join has returned.
Abandoned == joined \notin {"no", "none", "gone"}

\* What one thread logs is written in the order in which it logged it, also
\* across the change from the log thread back to writing at once, unless join
\* has left the log thread running (LoggerMgr.cpp:46-76).
OrderKept ==
    \/ lapped \/ Abandoned
    \/ \A i, j \in 1..Len(written) :
         i < j /\ written[i][1] = written[j][1] => written[i][2] < written[j][2]

\* When the log thread leaves its loop, it has written everything that had been
\* accepted when it last called pop; what comes between that call and the test
\* of m_release is lost (AsyncThread.cpp:39-44).
DrainedToLastPop ==
    worker \in {"exit", "gone"} /\ ~lapped => seen \subseteq Range(written)

\* A message that push has accepted is written, as long as nobody releases the
\* logger and the log thread could be created (AsyncThread.cpp:35-112).
AcceptedIsWritten ==
    \A m \in Q!Message :
        m \in accepted ~> \/ m \in Range(written)
                          \/ release \/ lapped \/ worker = "none"

\* A thread that logs comes back from the logger as long as nobody releases it
\* and the log thread could be created, under Block too (AsyncThread.cpp:90-112).
LogReturns ==
    \A p \in Producers :
        at[p] = "channel" ~> at[p] = "out" \/ release \/ lapped \/ worker = "none"

\* release returns: the log thread it may wait for empties the queue and ends
\* (LoggerMgr.cpp:46-53, AsyncThread.cpp:83-87).
ReleaseReturns == at[Owner] = "join" ~> at[Owner] = "out"

\* What the owner has logged through a running log thread has been written when
\* it comes back from release, as Example/Log/ExampleLog.cpp:36-62 relies on;
\* the code does not keep this (AsyncThread.cpp:39-44, LogThreadType.cpp:108-129).
ReleaseKeepsMessages ==
    joined \notin {"no", "none", "created"} /\ at[Owner] = "out" =>
        \A k \in 1..count[Owner] : <<Owner, k>> \in Range(written)
=============================================================================
