--------------------------- MODULE AsyncLog_proofs ---------------------------
(***************************************************************************)
(* For any number of threads that log, slots and messages, either policy,   *)
(* and whenever the owner releases the logger: no message is written twice, *)
(* what one thread logs is written in its order, and what was accepted      *)
(* before the log thread's last pop is written. The first follows the       *)
(* messages from the slots through the log thread's am to the channels and  *)
(* needs nothing of the indices. The others take what is known of indices   *)
(* and claims from AsyncQueue_proofs, whose queue this is (QP), and add     *)
(* where the owner is in init_async and release (Life) and what each thread *)
(* has left behind in the queue.                                            *)
(***************************************************************************)
EXTENDS AsyncLog, SequenceTheorems, TLAPS

\* A message that push is trying to hand over is the last of its thread.
Pushing ==
    \A p \in Producers :
        /\ pc[p] # "idle" => at[p] = "queue" /\ t[p] = LastMsg(p)
        /\ at[p] = "queue" => count[p] > 0
        /\ at[p] \in {"channel", "push"} => count[p] < MaxPush

\* The message is in the queue, with the log thread or in the channels.
Sits(m) ==
    \/ \E i \in 0..(Size - 1) : slot[i] = m
    \/ am = m
    \/ \E j \in 1..Len(written) : written[j] = m

\* A thread's last message, as long as it may be pushed (again), is nowhere yet.
Sitting ==
    \A p \in Producers, k \in 1..MaxPush : Sits(<<p, k>>) =>
        /\ k <= count[p]
        /\ k = count[p] /\ at[p] = "queue" => <<p, k>> \in accepted /\ pc[p] = "idle"

OnePlace ==
    /\ \A i, j \in 0..(Size - 1) : slot[i] # NULL /\ slot[i] = slot[j] => i = j
    /\ \A i \in 0..(Size - 1) : slot[i] # NULL => slot[i] # am
    /\ \A i \in 0..(Size - 1), j \in 1..Len(written) : slot[i] # written[j]
    /\ \A j \in 1..Len(written) : am # written[j]
    /\ \A i, j \in 1..Len(written) : written[i] = written[j] => i = j

\* The slot that the log thread reads is emptied by nobody else.
Reading ==
    /\ pc[Worker] \in {"load", "clear"} => slot[idx[Worker]] # NULL
    /\ pc[Worker] = "clear" => t[Worker] = slot[idx[Worker]]
    /\ worker = "write" => am # NULL

Inv == TypeOK /\ Pushing /\ Sitting /\ OnePlace /\ Reading

-----------------------------------------------------------------------------
LEMMA InvInit == Init => Inv
  <1> SUFFICES ASSUME Init PROVE Inv
    OBVIOUS
  <1> USE LogAssumption DEF Init, Q!Init, Q!Threads
  <1>1. Q!TypeOK
    BY DEF Q!TypeOK, Q!PushLabel, Q!PopLabel, Q!Message
  <1>2. TypeOK
    <2>1. at \in [Producers -> {"out", "init_async"}]
      OBVIOUS
    <2>2. written \in Seq(Q!Message)
      OBVIOUS
    <2> QED BY <1>1, <2>1, <2>2 DEF TypeOK
  <1>3. Pushing /\ Reading
    BY DEF Pushing, Reading
  <1>4. Sitting /\ OnePlace
    BY DEF Sitting, Sits, OnePlace
  <1> QED BY <1>2, <1>3, <1>4 DEF Inv

\* One more element at the end of a sequence.
LEMMA Appended ==
    ASSUME NEW S, NEW s \in Seq(S), NEW e \in S
    PROVE  LET a == Append(s, e) IN
           /\ a \in Seq(S) /\ Len(a) = Len(s) + 1 /\ Len(s) \in Nat
           /\ a[Len(s) + 1] = e /\ \A j \in 1..Len(s) : a[j] = s[j]
           /\ \A j \in 1..Len(a) : j = Len(s) + 1 \/ j \in 1..Len(s)
  OBVIOUS

LEMMA QueueSame == Q!TypeOK /\ UNCHANGED queueVars => Q!TypeOK'
  BY DEF Q!TypeOK, queueVars, Q!Threads, Q!Message

\* A step on which no message moves, and nobody begins to push one.
LEMMA QuietStep ==
    ASSUME Inv, TypeOK', UNCHANGED <<queueVars, written, am>>,
           \A p \in Producers :
              \/ at'[p] = at[p]
              \/ /\ pc[p] = "idle" /\ at'[p] # "queue"
                 /\ at'[p] \in {"channel", "push"} => count[p] < MaxPush,
           worker' = "write" => am # NULL
    PROVE  Inv'
  <1> USE DEF Inv, queueVars
  <1>1. Pushing'
    BY DEF Pushing, LastMsg
  <1>2. Sitting'
    BY DEF Sitting, Sits
  <1>3. OnePlace'
    BY DEF OnePlace
  <1>4. Reading'
    BY DEF Reading
  <1> QED BY <1>1, <1>2, <1>3, <1>4

LEMMA LogSteps ==
    ASSUME Inv, NEW p \in Producers,
           log(p) \/ async_channel(p) \/ push_done(p) \/ push_discard(p)
    PROVE  Inv'
  <1> USE DEF Inv
  <1>1. /\ UNCHANGED <<queueVars, objectVars, workerVars, ownerVars, written>>
        /\ pc[p] = "idle"
        /\ \E to \in {"out", "channel", "push"} : at' = [at EXCEPT ![p] = to]
    BY DEF log, async_channel, push_done, push_discard, Go, Pushing
  <1>2. at'[p] \in {"channel", "push"} => count[p] < MaxPush
    <2>1. count[p] \in 0..MaxPush /\ MaxLog[p] \in 0..MaxPush /\ MaxPush \in Nat
      BY LogAssumption DEF TypeOK, Q!TypeOK
    <2>2. CASE log(p)
      BY <2>1, <2>2 DEF log
    <2>3. CASE async_channel(p)
      BY <2>3 DEF async_channel, Go, Pushing
    <2>4. CASE push_done(p) \/ push_discard(p)
      BY <2>4 DEF push_done, push_discard, Go, TypeOK
    <2> QED BY <2>2, <2>3, <2>4
  <1>3. TypeOK'
    BY <1>1, QueueSame DEF TypeOK, objectVars, workerVars, ownerVars
  <1>4. \A q \in Producers : q # p => at'[q] = at[q]
    BY <1>1 DEF TypeOK
  <1>5. at'[p] # "queue"
    BY <1>1 DEF TypeOK
  <1> QED BY <1>1, <1>2, <1>3, <1>4, <1>5, QuietStep DEF workerVars, Reading

LEMMA WorkerSteps ==
    ASSUME Inv, start \/ detach \/ test_release \/ exit
    PROVE  Inv'
  <1> USE DEF Inv
  <1>1. /\ UNCHANGED <<queueVars, overflow, release, am, seen, ownerVars, at, written>>
        /\ threadID' \in BOOLEAN /\ detached' \in BOOLEAN
        /\ worker' \in {"detach", "loop", "write", "exit", "gone"}
        /\ worker' = "write" => am # NULL
    BY DEF start, detach, test_release, exit, TypeOK, objectVars
  <1>2. TypeOK'
    BY <1>1, QueueSame DEF TypeOK, ownerVars
  <1> QED BY <1>1, <1>2, QuietStep

LEMMA OwnerSteps ==
    ASSUME Inv, init_async \/ run \/ set_release \/ releasing
    PROVE  Inv'
  <1> USE DEF Inv
  <1>1. /\ UNCHANGED <<queueVars, overflow, threadID, detached, am, seen, written>>
        /\ thread' \in BOOLEAN /\ release' \in BOOLEAN
        /\ worker' = worker \/ worker' \in {"created", "none"}
        /\ joined' \in {joined, worker}
        /\ at[Owner] # "queue"
        /\ \E to \in {"run", "out", "join", "delete", "pthread_join"} : at' = [at EXCEPT ![Owner] = to]
    BY DEF init_async, run, set_release, releasing, join_not_running, join_detached,
           join_wait, join_return, delete, Go, TypeOK, objectVars, workerVars, ownerVars
  <1>2. Owner \in Producers /\ pc[Owner] = "idle"
    BY <1>1, LogAssumption DEF Pushing
  <1>3. TypeOK'
    BY <1>1, <1>2, QueueSame DEF TypeOK
  <1>4. \A q \in Producers : q # Owner => at'[q] = at[q]
    BY <1>1 DEF TypeOK
  <1>5. at'[Owner] \notin {"queue", "channel", "push"}
    BY <1>1, <1>2 DEF TypeOK
  <1> QED BY <1>1, <1>2, <1>3, <1>4, <1>5, QuietStep DEF Reading

-----------------------------------------------------------------------------
\* A message that is given to nobody, or to the channels by its own thread.
LEMMA CountSteps ==
    ASSUME Inv, NEW p \in Producers, do_channel(p) \/ push_released(p)
    PROVE  Inv'
  <1> USE DEF Inv
  <1> DEFINE m == <<p, count[p] + 1>>
  <1>1. /\ UNCHANGED <<slot, readIdx, writeIdx, pc, idx, t, accepted, popped, lapped>>
        /\ UNCHANGED <<objectVars, workerVars, ownerVars>>
        /\ count' = [count EXCEPT ![p] = @ + 1] /\ at' = [at EXCEPT ![p] = "out"]
        /\ at[p] \in {"channel", "push"}
        /\ written' = written \/ written' = Append(written, m)
    BY DEF do_channel, push_released, Go
  <1>2. count[p] \in Nat /\ count[p] + 1 \in 1..MaxPush /\ m \in Q!Message
    <2>1. count[p] \in 0..MaxPush /\ count[p] < MaxPush
      BY <1>1 DEF Pushing, TypeOK, Q!TypeOK
    <2> QED BY <2>1, LogAssumption DEF Q!Message
  <1>3. ~Sits(m)
    BY <1>2 DEF Sitting
  <1>4. /\ count'[p] = count[p] + 1 /\ \A q \in Producers : q # p => count'[q] = count[q]
        /\ at'[p] = "out" /\ \A q \in Producers : q # p => at'[q] = at[q]
        /\ pc[p] = "idle"
    BY <1>1 DEF TypeOK, Q!TypeOK, Pushing
  <1>5. /\ written \in Seq(Q!Message) /\ written' \in Seq(Q!Message)
        /\ \A j \in 1..Len(written') : written'[j] = m \/ (j \in 1..Len(written) /\ written'[j] = written[j])
        /\ \A i, j \in 1..Len(written') : written'[i] = m /\ written'[j] = m => i = j
    <2>1. written \in Seq(Q!Message) /\ \A j \in 1..Len(written) : written[j] # m
      BY <1>3 DEF Sits, TypeOK
    <2> HIDE DEF m
    <2>2. CASE written' = written
      BY <2>1, <2>2
    <2>3. CASE written' = Append(written, m)
      BY <1>2, <2>1, <2>3, Appended
    <2> QED BY <1>1, <2>2, <2>3
  <1> HIDE DEF m
  <1>6. TypeOK'
    <2>1. count' \in [Producers -> 0..MaxPush]
      BY <1>1, <1>2 DEF TypeOK, Q!TypeOK
    <2>2. Q!TypeOK'
      BY <1>1, <2>1 DEF TypeOK, Q!TypeOK
    <2> QED BY <1>1, <1>5, <2>2 DEF TypeOK, objectVars, workerVars, ownerVars
  <1>7. Pushing'
    BY <1>1, <1>4 DEF Pushing, LastMsg
  <1>8. Sitting'
    <2>1. ASSUME NEW q \in Producers, NEW k \in 1..MaxPush, Sits(<<q, k>>)'
          PROVE  Sits(<<q, k>>) \/ (q = p /\ k = count[p] + 1)
      <3>1. Sits(<<q, k>>) \/ <<q, k>> = m
        BY <2>1, <1>1, <1>5 DEF Sits, workerVars
      <3> QED BY <3>1 DEF m
    <2> QED BY <1>1, <1>2, <1>4, <2>1 DEF Sitting
  <1>9. OnePlace'
    <2>1. \A i \in 0..(Size - 1) : slot[i] # m
      BY <1>3 DEF Sits
    <2>2. am # m /\ \A j \in 1..Len(written) : written[j] # m
      BY <1>3 DEF Sits
    <2> QED BY <1>1, <1>5, <2>1, <2>2 DEF OnePlace, workerVars
  <1>10. Reading'
    BY <1>1 DEF Reading, workerVars
  <1> QED BY <1>6, <1>7, <1>8, <1>9, <1>10

\* A thread begins to push a message that is nowhere yet: a new one, or the one that
\* did not fit.
LEMMA BeginPush ==
    ASSUME Inv, NEW p \in Producers, at[p] \in {"push", "queue"}, pc[p] = "idle",
           pc' = [pc EXCEPT ![p] = "push"],
           count' \in [Producers -> 0..MaxPush], count'[p] >= count[p], count'[p] > 0,
           \A q \in Producers : q # p => count'[q] = count[q],
           t' = [t EXCEPT ![p] = <<p, count'[p]>>],
           at' = [at EXCEPT ![p] = "queue"],
           ~Sits(<<p, count'[p]>>),
           UNCHANGED <<slot, readIdx, writeIdx, idx, accepted, popped>>,
           UNCHANGED <<objectVars, workerVars, ownerVars, written>>
    PROVE  Inv'
  <1> USE DEF Inv
  <1>1. /\ p \in Q!Threads /\ Worker # p /\ Worker \in Q!Threads
        /\ \A q \in Q!Threads : q # p => pc'[q] = pc[q] /\ t'[q] = t[q]
        /\ pc'[p] = "push" /\ t'[p] = <<p, count'[p]>>
    BY LogAssumption DEF TypeOK, Q!TypeOK, Q!Threads
  <1>2. at'[p] = "queue" /\ \A q \in Producers : q # p => at'[q] = at[q]
    BY DEF TypeOK
  <1>3. /\ count[p] \in Nat /\ count'[p] \in 1..MaxPush
        /\ \A q \in Producers : q \in Q!Threads
    BY LogAssumption DEF TypeOK, Q!TypeOK, Q!Threads
  <1>4. TypeOK'
    <2>1. <<p, count'[p]>> \in Q!Message
      BY <1>3 DEF Q!Message
    <2>2. Q!TypeOK'
      BY <1>1, <2>1 DEF TypeOK, Q!TypeOK, Q!PushLabel, Q!Threads
    <2> QED BY <2>2 DEF TypeOK, objectVars, workerVars, ownerVars
  <1>5. Pushing'
    BY <1>1, <1>2, <1>3 DEF Pushing, LastMsg
  <1>6. Sitting'
    <2>1. ASSUME NEW q \in Producers, NEW k \in 1..MaxPush, Sits(<<q, k>>)'
          PROVE  Sits(<<q, k>>)
      BY <2>1 DEF Sits, workerVars
    <2> QED BY <1>1, <1>2, <1>3, <2>1 DEF Sitting
  <1>7. OnePlace'
    BY DEF OnePlace, workerVars
  <1>8. Reading'
    BY <1>1 DEF Reading, workerVars
  <1> QED BY <1>4, <1>5, <1>6, <1>7, <1>8

LEMMA PushQueueStep == ASSUME Inv, NEW p \in Producers, push_queue(p) PROVE Inv'
  <1> USE DEF Inv
  <1>1. /\ at[p] = "push" /\ at' = [at EXCEPT ![p] = "queue"]
        /\ pc[p] = "idle" /\ count[p] < MaxPush
        /\ count' = [count EXCEPT ![p] = @ + 1]
        /\ t' = [t EXCEPT ![p] = <<p, count[p] + 1>>]
        /\ pc' = [pc EXCEPT ![p] = "push"]
        /\ UNCHANGED <<slot, readIdx, writeIdx, idx, accepted, popped>>
        /\ UNCHANGED <<objectVars, workerVars, ownerVars, written>>
    BY DEF push_queue, Go, Q!call_push, Q!Goto, Q!shared
  <1>2. count[p] \in Nat /\ count[p] + 1 \in 1..MaxPush
    BY <1>1, LogAssumption DEF TypeOK, Q!TypeOK
  <1>3. count' \in [Producers -> 0..MaxPush] /\ count'[p] = count[p] + 1
        /\ \A q \in Producers : q # p => count'[q] = count[q]
    BY <1>1, <1>2 DEF TypeOK, Q!TypeOK
  <1>4. ~Sits(<<p, count[p] + 1>>)
    BY <1>2 DEF Sitting
  <1>5. /\ count'[p] >= count[p] /\ count'[p] > 0
        /\ t' = [t EXCEPT ![p] = <<p, count'[p]>>] /\ ~Sits(<<p, count'[p]>>)
    BY <1>1, <1>2, <1>3, <1>4
  <1> QED BY <1>1, <1>3, <1>5, BeginPush

LEMMA PushAgainStep == ASSUME Inv, NEW p \in Producers, push_again(p) PROVE Inv'
  <1> USE DEF Inv
  <1>1. /\ at[p] = "queue" /\ pc[p] = "idle" /\ <<p, count[p]>> \notin accepted
        /\ t' = [t EXCEPT ![p] = <<p, count[p]>>]
        /\ pc' = [pc EXCEPT ![p] = "push"]
        /\ UNCHANGED <<slot, readIdx, writeIdx, idx, count, accepted, popped>>
        /\ UNCHANGED <<objectVars, workerVars, ownerVars, at, written>>
    BY DEF push_again, LastMsg
  <1>2. count[p] \in 1..MaxPush /\ count \in [Producers -> 0..MaxPush]
    BY <1>1, LogAssumption DEF Pushing, TypeOK, Q!TypeOK
  <1>3. ~Sits(<<p, count[p]>>)
    BY <1>1, <1>2 DEF Sitting
  <1>4. at' = [at EXCEPT ![p] = "queue"]
    BY <1>1 DEF TypeOK
  <1>5. /\ count' \in [Producers -> 0..MaxPush] /\ count'[p] >= count[p] /\ count'[p] > 0
        /\ \A q \in Producers : q # p => count'[q] = count[q]
        /\ t' = [t EXCEPT ![p] = <<p, count'[p]>>] /\ ~Sits(<<p, count'[p]>>)
    BY <1>1, <1>2, <1>3
  <1>6. /\ at[p] \in {"push", "queue"} /\ pc[p] = "idle"
        /\ pc' = [pc EXCEPT ![p] = "push"]
        /\ UNCHANGED <<slot, readIdx, writeIdx, idx, accepted, popped>>
        /\ UNCHANGED <<objectVars, workerVars, ownerVars, written>>
    BY <1>1
  <1> QED BY <1>4, <1>5, <1>6, BeginPush

\* A step inside push that leaves the slots alone.
LEMMA InPush ==
    ASSUME Inv, NEW p \in Producers, pc[p] # "idle", NEW l \in Q!PushLabel,
           pc' = [pc EXCEPT ![p] = l],
           t' = t \/ (l = "idle" /\ t' = [t EXCEPT ![p] = NULL]),
           idx' = idx \/ \E i \in 0..(Size - 1) : idx' = [idx EXCEPT ![p] = i],
           writeIdx' \in 0..(Size - 1),
           UNCHANGED <<slot, readIdx, count, accepted, popped>>,
           UNCHANGED <<objectVars, workerVars, ownerVars, at, written>>
    PROVE  Inv'
  <1> USE DEF Inv
  <1>1. /\ p \in Q!Threads /\ Worker # p /\ Worker \in Q!Threads
        /\ \A q \in Q!Threads : q # p => pc'[q] = pc[q] /\ t'[q] = t[q] /\ idx'[q] = idx[q]
        /\ pc'[p] = l /\ (l # "idle" => t'[p] = t[p])
        /\ \A q \in Producers : q \in Q!Threads
    BY LogAssumption DEF TypeOK, Q!TypeOK, Q!Threads
  <1>2. TypeOK'
    <2>1. idx' \in [Q!Threads -> 0..(Size - 1)]
      BY <1>1 DEF TypeOK, Q!TypeOK
    <2>2. t' \in [Q!Threads -> Q!Message \cup {NULL}]
      BY <1>1 DEF TypeOK, Q!TypeOK
    <2>3. pc' \in [Q!Threads -> Q!PushLabel \cup Q!PopLabel]
      BY <1>1 DEF TypeOK, Q!TypeOK
    <2>4. \A q \in Producers : pc'[q] \in Q!PushLabel
      BY <1>1 DEF TypeOK, Q!TypeOK
    <2>5. \A c \in {Worker} : pc'[c] \in Q!PopLabel
      BY <1>1 DEF TypeOK, Q!TypeOK
    <2>6. Q!TypeOK'
      BY <2>1, <2>2, <2>3, <2>4, <2>5 DEF TypeOK, Q!TypeOK, Q!Threads, Q!Message
    <2> QED BY <2>6 DEF TypeOK, objectVars, workerVars, ownerVars
  <1>3. Pushing'
    BY <1>1 DEF Pushing, LastMsg
  <1>4. Sitting'
    <2>1. ASSUME NEW q \in Producers, NEW k \in 1..MaxPush, Sits(<<q, k>>)'
          PROVE  Sits(<<q, k>>)
      BY <2>1 DEF Sits, workerVars
    <2> QED BY <1>1, <2>1 DEF Sitting, Pushing
  <1>5. OnePlace'
    BY DEF OnePlace, workerVars
  <1>6. Reading'
    BY <1>1 DEF Reading, workerVars
  <1> QED BY <1>2, <1>3, <1>4, <1>5, <1>6

LEMMA FillStep ==
    ASSUME Inv, NEW p \in Producers, Q!fill(p),
           UNCHANGED <<objectVars, workerVars, ownerVars, at, written>>
    PROVE  Inv'
  <1> USE DEF Inv
  <1> DEFINE m == <<p, count[p]>>  i == idx[p]
  <1>1. /\ pc[p] = "fill" /\ slot[i] = NULL
        /\ slot' = [slot EXCEPT ![i] = t[p]] /\ accepted' = accepted \cup {t[p]}
        /\ t' = [t EXCEPT ![p] = NULL] /\ pc' = [pc EXCEPT ![p] = "idle"]
        /\ UNCHANGED <<readIdx, writeIdx, idx, count, popped>>
    BY DEF Q!fill, Q!Goto
  <1>2. t[p] = m /\ at[p] = "queue" /\ count[p] \in 1..MaxPush /\ m \in Q!Message
    BY <1>1, LogAssumption DEF Pushing, LastMsg, TypeOK, Q!TypeOK, Q!Message
  <1>3. ~Sits(m)
    BY <1>1, <1>2 DEF Sitting
  <1>4. m # NULL
    BY <1>2, LogAssumption DEF Q!Message
  <1>5. /\ i \in 0..(Size - 1) /\ slot'[i] = m
        /\ \A j \in 0..(Size - 1) : j # i => slot'[j] = slot[j]
    BY <1>1, <1>2 DEF TypeOK, Q!TypeOK, Q!Threads
  <1>6. /\ Worker # p /\ Worker \in Q!Threads
        /\ \A q \in Q!Threads : q # p => pc'[q] = pc[q] /\ t'[q] = t[q]
        /\ pc'[p] = "idle" /\ \A q \in Producers : q \in Q!Threads
    BY <1>1, LogAssumption DEF TypeOK, Q!TypeOK, Q!Threads
  <1>7. TypeOK'
    <2>1. Q!TypeOK'
      BY <1>1, <1>2, <1>6 DEF TypeOK, Q!TypeOK, Q!Threads, Q!PushLabel
    <2> QED BY <2>1 DEF TypeOK, objectVars, workerVars, ownerVars
  <1>8. Pushing'
    BY <1>1, <1>6 DEF Pushing, LastMsg
  <1>9. Sitting'
    <2>1. ASSUME NEW q \in Producers, NEW k \in 1..MaxPush, Sits(<<q, k>>)'
          PROVE  Sits(<<q, k>>) \/ (q = p /\ k = count[p])
      BY <2>1, <1>5 DEF Sits, workerVars
    <2>2. m \in accepted'
      BY <1>1, <1>2
    <2> QED BY <1>1, <1>2, <1>6, <2>1, <2>2 DEF Sitting
  <1> HIDE DEF m
  <1>10. OnePlace'
    <2>1. am # m /\ \A j \in 1..Len(written) : written[j] # m
      BY <1>3 DEF Sits
    <2>2. \A j \in 0..(Size - 1) : slot[j] # m
      BY <1>3 DEF Sits
    <2> QED BY <1>4, <1>5, <2>1, <2>2 DEF OnePlace, workerVars
  <1>11. Reading'
    <2>1. idx[Worker] \in 0..(Size - 1)
      BY <1>6 DEF TypeOK, Q!TypeOK
    <2> QED BY <1>1, <1>4, <1>5, <1>6, <2>1 DEF Reading, workerVars
  <1> QED BY <1>7, <1>8, <1>9, <1>10, <1>11

LEMMA RealIndex == ASSUME NEW i \in 0..(Size - 1) PROVE Q!real_index(i + 1) \in 0..(Size - 1)
  <1>1. Size \in Nat /\ Size > 0
    BY LogAssumption
  <1> QED BY <1>1 DEF Q!real_index

LEMMA QueueStep == ASSUME Inv, NEW p \in Producers, queue_step(p) PROVE Inv'
  <1>1. UNCHANGED <<objectVars, workerVars, ownerVars, at, written>>
    BY DEF queue_step
  <1>2. idx[p] \in 0..(Size - 1) /\ writeIdx \in 0..(Size - 1)
    BY DEF Inv, TypeOK, Q!TypeOK, Q!Threads
  <1>3. CASE Q!load_write(p)
    BY <1>1, <1>2, <1>3, InPush DEF Q!load_write, Q!Goto, Q!shared, Q!history, Q!PushLabel
  <1>4. CASE Q!test_full(p)
    BY <1>1, <1>2, <1>4, InPush DEF Q!test_full, Q!Goto, Q!shared, Q!history, Q!PushLabel
  <1>5. CASE Q!claim_write(p)
    BY <1>1, <1>2, <1>5, InPush, RealIndex DEF Q!claim_write, Q!Goto, Q!PushLabel
  <1>6. CASE Q!fill(p)
    BY <1>1, <1>6, FillStep
  <1> QED BY <1>3, <1>4, <1>5, <1>6 DEF queue_step, Q!push

-----------------------------------------------------------------------------
\* A step of pop that leaves the slots alone, or the call of it.
LEMMA InPop ==
    ASSUME Inv, NEW l \in Q!PopLabel,
           pc' = [pc EXCEPT ![Worker] = l],
           idx' = idx \/ \E i \in 0..(Size - 1) : idx' = [idx EXCEPT ![Worker] = i],
           readIdx' \in 0..(Size - 1),
           t' = t \/ (l = "clear" /\ t' = [t EXCEPT ![Worker] = slot[idx[Worker]]]),
           l \in {"load", "clear"} => slot[idx[Worker]] # NULL /\ idx' = idx,
           l = "clear" => t'[Worker] = slot[idx[Worker]],
           worker' \in {"pop", "test"}, seen' \in {seen, accepted},
           UNCHANGED <<slot, writeIdx, count, accepted, popped, am>>,
           UNCHANGED <<objectVars, ownerVars, at, written>>
    PROVE  Inv'
  <1> USE DEF Inv
  <1>1. /\ Worker \in Q!Threads
        /\ \A q \in Producers : /\ q \in Q!Threads /\ q # Worker
                                /\ pc'[q] = pc[q] /\ t'[q] = t[q]
        /\ pc'[Worker] = l
    BY LogAssumption DEF TypeOK, Q!TypeOK, Q!Threads
  <1>2. idx[Worker] \in 0..(Size - 1) /\ slot[idx[Worker]] \in Q!Message \cup {NULL}
    BY <1>1 DEF TypeOK, Q!TypeOK
  <1>3. TypeOK'
    <2>1. idx' \in [Q!Threads -> 0..(Size - 1)]
      BY <1>1 DEF TypeOK, Q!TypeOK
    <2>2. t' \in [Q!Threads -> Q!Message \cup {NULL}]
      BY <1>1, <1>2 DEF TypeOK, Q!TypeOK
    <2>3. pc' \in [Q!Threads -> Q!PushLabel \cup Q!PopLabel]
      BY <1>1 DEF TypeOK, Q!TypeOK
    <2>4. \A q \in Producers : pc'[q] \in Q!PushLabel
      BY <1>1 DEF TypeOK, Q!TypeOK
    <2>5. Q!TypeOK'
      BY <1>1, <2>1, <2>2, <2>3, <2>4 DEF TypeOK, Q!TypeOK, Q!Threads, Q!Message
    <2>6. seen' \subseteq Q!Message
      BY DEF TypeOK, Q!TypeOK
    <2> QED BY <2>5, <2>6 DEF TypeOK, objectVars, ownerVars
  <1>4. Pushing'
    BY <1>1 DEF Pushing, LastMsg
  <1>5. Sitting'
    <2>1. ASSUME NEW q \in Producers, NEW k \in 1..MaxPush, Sits(<<q, k>>)'
          PROVE  Sits(<<q, k>>)
      BY <2>1 DEF Sits
    <2> QED BY <1>1, <2>1 DEF Sitting
  <1>6. OnePlace'
    BY DEF OnePlace
  <1>7. Reading'
    BY <1>1 DEF Reading
  <1> QED BY <1>3, <1>4, <1>5, <1>6, <1>7

\* m_queue[readIdx].store(NULL), after which the message is the log thread's.
LEMMA ClearStep == ASSUME Inv, pop_step, Q!clear(Worker) PROVE Inv'
  <1> USE DEF Inv
  <1> DEFINE i == idx[Worker]  m == slot[i]
  <1>1. /\ pc[Worker] = "clear" /\ slot' = [slot EXCEPT ![i] = NULL]
        /\ popped' = Append(popped, t[Worker])
        /\ t' = [t EXCEPT ![Worker] = NULL] /\ pc' = [pc EXCEPT ![Worker] = "idle"]
        /\ UNCHANGED <<readIdx, writeIdx, idx, count, accepted, lapped>>
        /\ UNCHANGED <<objectVars, ownerVars, at, written>>
        /\ worker' \in {"test", "pop"} /\ seen' \in {seen, accepted}
        /\ am' = IF popped' # popped THEN t[Worker] ELSE am
    BY DEF pop_step, Q!clear, Q!Goto
  <1>2. /\ Worker \in Q!Threads
        /\ \A q \in Producers : /\ q \in Q!Threads /\ q # Worker
                                /\ pc'[q] = pc[q] /\ t'[q] = t[q]
        /\ pc'[Worker] = "idle"
    BY <1>1, LogAssumption DEF TypeOK, Q!TypeOK, Q!Threads
  <1>3. i \in 0..(Size - 1) /\ m \in Q!Message /\ t[Worker] = m /\ m # NULL
    BY <1>1, <1>2 DEF TypeOK, Q!TypeOK, Reading
  <1>4. popped' \in Seq(Q!Message) /\ am' = m
    <2>1. popped \in Seq(Q!Message) /\ Append(popped, m) \in Seq(Q!Message)
          /\ Len(Append(popped, m)) = Len(popped) + 1 /\ Len(popped) \in Nat
      BY <1>3, Appended DEF TypeOK, Q!TypeOK
    <2>2. Append(popped, m) # popped
      BY <2>1
    <2> QED BY <1>1, <1>3, <2>1, <2>2
  <1>5. slot'[i] = NULL /\ \A j \in 0..(Size - 1) : j # i => slot'[j] = slot[j]
    BY <1>1, <1>3 DEF TypeOK, Q!TypeOK
  <1> HIDE DEF m
  <1>6. TypeOK'
    <2>1. slot' \in [0..(Size - 1) -> Q!Message \cup {NULL}]
      BY <1>1, <1>3 DEF TypeOK, Q!TypeOK
    <2>2. t' \in [Q!Threads -> Q!Message \cup {NULL}]
      BY <1>1, <1>2 DEF TypeOK, Q!TypeOK
    <2>3. pc' \in [Q!Threads -> Q!PushLabel \cup Q!PopLabel]
      BY <1>1, <1>2 DEF TypeOK, Q!TypeOK, Q!PopLabel
    <2>4. \A q \in Producers : pc'[q] \in Q!PushLabel
      BY <1>2 DEF TypeOK, Q!TypeOK
    <2>5. pc'[Worker] \in Q!PopLabel
      BY <1>2 DEF Q!PopLabel
    <2>6. Q!TypeOK'
      BY <1>1, <1>4, <2>1, <2>2, <2>3, <2>4, <2>5 DEF TypeOK, Q!TypeOK, Q!Threads, Q!Message
    <2>7. seen' \subseteq Q!Message
      BY <1>1 DEF TypeOK, Q!TypeOK
    <2> QED BY <1>1, <1>3, <1>4, <2>6, <2>7 DEF TypeOK, objectVars, ownerVars
  <1>7. Pushing'
    BY <1>1, <1>2 DEF Pushing, LastMsg
  <1>8. Sitting'
    <2>1. ASSUME NEW q \in Producers, NEW k \in 1..MaxPush, Sits(<<q, k>>)'
          PROVE  Sits(<<q, k>>)
      <3>1. <<q, k>> # NULL
        BY LogAssumption
      <3> QED BY <2>1, <1>1, <1>3, <1>4, <1>5, <3>1 DEF Sits, m
    <2> QED BY <1>1, <1>2, <2>1 DEF Sitting
  <1>9. OnePlace'
    <2>1. \A j \in 0..(Size - 1) : slot'[j] = NULL \/ (slot'[j] = slot[j] /\ slot[j] # m)
      BY <1>3, <1>5 DEF OnePlace, m
    <2>2. \A j \in 1..Len(written) : written[j] # m /\ written[j] # NULL
      <3>1. \A j \in 1..Len(written) : written[j] \in Q!Message
        BY DEF TypeOK
      <3>2. NULL \notin Q!Message
        BY LogAssumption DEF Q!Message
      <3>3. \A j \in 1..Len(written) : written[j] # m
        BY <1>3 DEF OnePlace, m
      <3> QED BY <3>1, <3>2, <3>3
    <2> QED BY <1>1, <1>4, <2>1, <2>2 DEF OnePlace
  <1>10. Reading'
    BY <1>1, <1>2 DEF Reading
  <1> QED BY <1>6, <1>7, <1>8, <1>9, <1>10

LEMMA CallPopStep == ASSUME Inv, call_pop PROVE Inv'
  BY InPop DEF call_pop, Q!call_pop, Q!Goto, Q!shared, Q!history, Q!PopLabel, Inv, TypeOK, Q!TypeOK

LEMMA PopStep == ASSUME Inv, pop_step PROVE Inv'
  <1> USE DEF Inv
  <1>1. CASE Q!clear(Worker)
    BY <1>1, ClearStep
  <1>2. CASE ~Q!clear(Worker)
    <2>1. /\ worker' \in {"pop", "test"} /\ seen' \in {seen, accepted}
          /\ UNCHANGED <<objectVars, ownerVars, at, written>>
          /\ popped' = popped => am' = am
      BY DEF pop_step
    <2>2. /\ idx[Worker] \in 0..(Size - 1) /\ readIdx \in 0..(Size - 1)
          /\ Worker \in Q!Threads /\ t \in [Q!Threads -> Q!Message \cup {NULL}]
      BY DEF TypeOK, Q!TypeOK, Q!Threads
    <2>3. CASE Q!load_read(Worker)
      BY <2>1, <2>2, <2>3, InPop DEF Q!load_read, Q!Goto, Q!shared, Q!history, Q!PopLabel
    <2>4. CASE Q!test_empty(Worker)
      BY <2>1, <2>2, <2>4, InPop DEF Q!test_empty, Q!Goto, Q!shared, Q!history, Q!PopLabel
    <2>5. CASE Q!claim_read(Worker)
      BY <2>1, <2>2, <2>5, InPop, RealIndex DEF Q!claim_read, Q!Goto, Q!history, Q!PopLabel
    <2>6. CASE Q!wait(Worker)
      BY <2>1, <2>2, <2>6, InPop DEF Q!wait, Q!Goto, Q!shared, Q!history, Q!PopLabel
    <2>7. CASE Q!load(Worker)
      BY <2>1, <2>2, <2>7, InPop DEF Q!load, Q!Goto, Q!shared, Q!history, Q!PopLabel, Reading
    <2> QED BY <1>2, <2>3, <2>4, <2>5, <2>6, <2>7 DEF pop_step, Q!pop
  <1> QED BY <1>1, <1>2

\* The message goes from the log thread to the channels.
LEMMA WriteStep == ASSUME Inv, write PROVE Inv'
  <1> USE DEF Inv
  <1>1. /\ UNCHANGED <<queueVars, objectVars, seen, ownerVars, at>>
        /\ worker' = "loop" /\ written' = Append(written, am) /\ am' = NULL
        /\ am \in Q!Message
    BY DEF write, Reading, TypeOK
  <1>2. /\ written \in Seq(Q!Message) /\ written' \in Seq(Q!Message) /\ Len(written) \in Nat
        /\ written'[Len(written) + 1] = am
        /\ \A j \in 1..Len(written') :
              j = Len(written) + 1 \/ (j \in 1..Len(written) /\ written'[j] = written[j])
    BY <1>1, Appended DEF TypeOK
  <1>3. TypeOK'
    BY <1>1, <1>2, QueueSame DEF TypeOK, objectVars, ownerVars
  <1>4. Pushing'
    BY <1>1 DEF Pushing, LastMsg, queueVars
  <1>5. Sitting'
    <2>1. ASSUME NEW q \in Producers, NEW k \in 1..MaxPush, Sits(<<q, k>>)'
          PROVE  Sits(<<q, k>>)
      <3>1. <<q, k>> # NULL
        BY LogAssumption
      <3> QED BY <2>1, <1>1, <1>2, <3>1 DEF Sits, queueVars
    <2> QED BY <1>1, <2>1 DEF Sitting, queueVars
  <1>6. OnePlace'
    <2>1. \A j \in 1..Len(written') : written'[j] # NULL
      BY <1>2, LogAssumption DEF Q!Message
    <2> QED BY <1>1, <1>2, <2>1 DEF OnePlace, queueVars
  <1>7. Reading'
    BY <1>1 DEF Reading, queueVars
  <1> QED BY <1>3, <1>4, <1>5, <1>6, <1>7

-----------------------------------------------------------------------------
LEMMA InvNext == Inv /\ [Next]_vars => Inv'
  <1> SUFFICES ASSUME Inv, [Next]_vars PROVE Inv'
    OBVIOUS
  <1>1. ASSUME NEW p \in Producers, log(p) \/ producer(p) PROVE Inv'
    BY <1>1, LogSteps, CountSteps, PushQueueStep, PushAgainStep, QueueStep DEF producer
  <1>2. ASSUME log_thread PROVE Inv'
    BY <1>2, WorkerSteps, CallPopStep, PopStep, WriteStep DEF log_thread
  <1>3. ASSUME init_async \/ run \/ set_release \/ releasing PROVE Inv'
    BY <1>3, OwnerSteps
  <1>4. ASSUME UNCHANGED vars PROVE Inv'
    <2>1. TypeOK'
      BY <1>4, QueueSame DEF Inv, TypeOK, vars, objectVars, workerVars, ownerVars
    <2> QED BY <1>4, <2>1, QuietStep DEF vars, workerVars, Inv, Reading
  <1> QED BY <1>1, <1>2, <1>3, <1>4 DEF Next

\* For any number of logging threads, slots and messages and either policy, no
\* message is written twice, wherever the owner is in init_async or release
\* (AsyncThread.cpp:35-112, LoggerMgr.cpp:35-76).
THEOREM LogWrittenOnce == Spec => []WrittenOnce
  <1>1. Inv => WrittenOnce
    BY DEF Inv, OnePlace, WrittenOnce, TypeOK, IsInjective
  <1> QED BY <1>1, InvInit, InvNext, PTL DEF Spec

-----------------------------------------------------------------------------
\* Order.  The places of the messages in the queue are those of AsyncQueue_proofs.
QP == INSTANCE AsyncQueue_proofs WITH Consumers <- {Worker}

Placed == lapped \/ (QP!Places /\ QP!InOrder)

LEMMA QueueBounds == QP!QueueAssumption
  BY LogAssumption DEF QP!QueueAssumption, QP!Message

\* What AsyncQueue_proofs proves is about the queue that the logger uses.
LEMMA SameQueue ==
    /\ \A p \in Producers :
          Q!call_push(p) \/ Q!push(p) => QP!call_push(p) \/ QP!push(p)
    /\ Q!call_pop(Worker) \/ Q!pop(Worker) => QP!call_pop(Worker) \/ QP!pop(Worker)
  <1>1. \A p \in Producers : Q!call_push(p) => QP!call_push(p)
    BY DEF Q!call_push, QP!call_push, Q!Goto, QP!Goto, Q!shared, QP!shared
  <1>2. \A p \in Producers : Q!load_write(p) => QP!load_write(p)
    BY DEF Q!load_write, QP!load_write, Q!Goto, QP!Goto, Q!shared, QP!shared,
           Q!history, QP!history
  <1>3. \A p \in Producers : Q!test_full(p) => QP!test_full(p)
    BY DEF Q!test_full, QP!test_full, Q!Goto, QP!Goto, Q!shared, QP!shared,
           Q!history, QP!history, Q!real_index, QP!real_index
  <1>4. \A p \in Producers : Q!claim_write(p) => QP!claim_write(p)
    BY DEF Q!claim_write, QP!claim_write, Q!Goto, QP!Goto, Q!real_index, QP!real_index
  <1>5. \A p \in Producers : Q!fill(p) => QP!fill(p)
    BY DEF Q!fill, QP!fill, Q!Goto, QP!Goto
  <1>6. Q!call_pop(Worker) => QP!call_pop(Worker)
    BY DEF Q!call_pop, QP!call_pop, Q!Goto, QP!Goto, Q!shared, QP!shared,
           Q!history, QP!history
  <1>7. Q!load_read(Worker) => QP!load_read(Worker)
    BY DEF Q!load_read, QP!load_read, Q!Goto, QP!Goto, Q!shared, QP!shared,
           Q!history, QP!history
  <1>8. Q!test_empty(Worker) => QP!test_empty(Worker)
    BY DEF Q!test_empty, QP!test_empty, Q!Goto, QP!Goto, Q!shared, QP!shared,
           Q!history, QP!history
  <1>9. Q!claim_read(Worker) => QP!claim_read(Worker)
    BY DEF Q!claim_read, QP!claim_read, Q!Goto, QP!Goto, Q!history, QP!history,
           Q!real_index, QP!real_index
  <1>10. Q!wait(Worker) => QP!wait(Worker)
    BY DEF Q!wait, QP!wait, Q!Goto, QP!Goto, Q!shared, QP!shared, Q!history, QP!history
  <1>11. Q!load(Worker) => QP!load(Worker)
    BY DEF Q!load, QP!load, Q!Goto, QP!Goto, Q!shared, QP!shared, Q!history, QP!history
  <1>12. Q!clear(Worker) => QP!clear(Worker)
    BY DEF Q!clear, QP!clear, Q!Goto, QP!Goto
  <1> QED BY <1>1, <1>2, <1>3, <1>4, <1>5, <1>6, <1>7, <1>8, <1>9, <1>10, <1>11, <1>12
          DEF Q!push, QP!push, Q!pop, QP!pop

LEMMA SameTypes ==
    /\ TypeOK => QP!TypeOK
    /\ TypeOK' => QP!TypeOK'
    /\ QP!Message = Q!Message /\ QP!Threads = Q!Threads /\ QP!Slots = 0..(Size - 1)
  <1>1. QP!Message = Q!Message /\ QP!Threads = Q!Threads /\ QP!Slots = 0..(Size - 1)
        /\ QP!PushLabel = Q!PushLabel /\ QP!PopLabel = Q!PopLabel
    BY DEF QP!Message, Q!Message, QP!Threads, Q!Threads, QP!Slots, QP!PushLabel,
           Q!PushLabel, QP!PopLabel, Q!PopLabel
  <1>2. TypeOK => QP!TypeOK
    BY <1>1 DEF TypeOK, Q!TypeOK, QP!TypeOK
  <1>3. TypeOK' => QP!TypeOK'
    BY <1>1 DEF TypeOK, Q!TypeOK, QP!TypeOK
  <1> QED BY <1>1, <1>2, <1>3

\* The message in a producer's hands is later than its others, wherever they are.
LEMMA HandsNewest ==
    ASSUME Inv
    PROVE  /\ QP!Newest /\ QP!Holds
           /\ \A p \in Producers : pc[p] # "idle" =>
                 /\ am # NULL /\ am[1] = p => am[2] < t[p][2]
                 /\ \A j \in 1..Len(written) : written[j][1] = p => written[j][2] < t[p][2]
  <1> USE DEF Inv
  <1>1. ASSUME NEW p \in Producers, pc[p] # "idle"
        PROVE  /\ t[p] \in Q!Message /\ t[p][1] = p
               /\ \A m \in Q!Message : Sits(m) /\ m[1] = p => m[2] < t[p][2]
    <2>1. t[p] = <<p, count[p]>> /\ at[p] = "queue" /\ count[p] \in 1..MaxPush
      BY <1>1, LogAssumption DEF Pushing, LastMsg, TypeOK, Q!TypeOK
    <2>2. t[p] \in Q!Message /\ t[p][1] = p /\ t[p][2] = count[p]
      BY <2>1 DEF Q!Message
    <2>3. ASSUME NEW m \in Q!Message, Sits(m), m[1] = p PROVE m[2] < t[p][2]
      <3>1. m[2] \in 1..MaxPush /\ m = <<p, m[2]>>
        BY <2>3 DEF Q!Message
      <3>2. m[2] <= count[p] /\ m[2] # count[p]
        BY <1>1, <2>1, <2>3, <3>1 DEF Sitting
      <3> QED BY <2>1, <2>2, <3>1, <3>2, LogAssumption
    <2> QED BY <2>2, <2>3
  <1>2. /\ \A i \in 0..(Size - 1) : slot[i] # NULL => slot[i] \in Q!Message /\ Sits(slot[i])
        /\ am # NULL => am \in Q!Message /\ Sits(am)
        /\ \A j \in 1..Len(written) : written[j] \in Q!Message /\ Sits(written[j])
    <2>0. /\ slot \in [0..(Size - 1) -> Q!Message \cup {NULL}]
          /\ am \in Q!Message \cup {NULL} /\ written \in Seq(Q!Message)
      BY DEF TypeOK, Q!TypeOK
    <2>1. /\ \A i \in 0..(Size - 1) : slot[i] # NULL => slot[i] \in Q!Message
          /\ am # NULL => am \in Q!Message
          /\ \A j \in 1..Len(written) : written[j] \in Q!Message
      BY <2>0
    <2>2. /\ \A i \in 0..(Size - 1) : Sits(slot[i])
          /\ Sits(am)
          /\ \A j \in 1..Len(written) : Sits(written[j])
      BY DEF Sits
    <2> QED BY <2>1, <2>2
  <1>3. QP!Newest
    BY <1>1, <1>2, SameTypes DEF QP!Newest
  <1>4. QP!Holds
    BY DEF QP!Holds, Reading
  <1> QED BY <1>1, <1>2, <1>3, <1>4

\* A step moves no message in the queue, or is one that AsyncQueue_proofs knows.
LEMMA PlacedQuiet ==
    ASSUME Placed, ~lapped', UNCHANGED <<slot, readIdx, writeIdx, pc, idx, t, lapped>>
    PROVE  /\ ~lapped /\ QP!Places /\ QP!Places' /\ QP!InOrder /\ QP!InOrder'
           /\ \A i, m : QP!Carries(i, m)' => QP!Carries(i, m)
  <1>1. ~lapped /\ QP!Places /\ QP!InOrder
    BY DEF Placed
  <1>2. \A i, m : QP!Carries(i, m)' <=> QP!Carries(i, m)
    BY DEF QP!Carries, QP!Fills
  <1>3. \A i : QP!Dist(i)' = QP!Dist(i) /\ QP!Rank(i)' = QP!Rank(i)
    BY DEF QP!Dist, QP!Rank
  <1>4. QP!InOrder'
    BY <1>1, <1>2, <1>3 DEF QP!InOrder
  <1>5. QP!Places'
    BY <1>1 DEF QP!Places, QP!Fills, QP!Reads, QP!Read, QP!Claimed, QP!Dist
  <1> QED BY <1>1, <1>2, <1>4, <1>5

\* Where a message is in the queue after a step, it was before, unless its producer
\* has just claimed a slot for it.
NothingElse ==
    \A i \in QP!Slots, m \in Q!Message : QP!Carries(i, m)' =>
        \/ QP!Carries(i, m)
        \/ \E p \in Producers : pc[p] # "idle" /\ m = t[p]

LEMMA PlacedPush ==
    ASSUME Inv, Inv', Placed, ~lapped', NEW p \in Producers,
           push_queue(p) \/ push_again(p) \/ queue_step(p)
    PROVE  ~lapped /\ QP!Places' /\ QP!InOrder' /\ NothingElse
  <1>1. QP!TypeOK /\ QP!TypeOK' /\ QP!Newest
    BY SameTypes, HandsNewest DEF Inv
  <1>2. CASE push_queue(p) \/ queue_step(p)
    <2>1. QP!call_push(p) \/ QP!push(p)
      BY <1>2, SameQueue DEF push_queue, queue_step
    <2>2. ~lapped
      <3>1. CASE QP!claim_write(p)
        <4>1. lapped' = lapped \/ lapped' = (lapped \/ QP!real_index(idx[p] + 1) = readIdx)
          BY <3>1 DEF QP!claim_write
        <4> QED BY <4>1
      <3>2. CASE QP!call_push(p) \/ QP!load_write(p) \/ QP!test_full(p) \/ QP!fill(p)
        BY <3>2 DEF QP!call_push, QP!load_write, QP!test_full, QP!fill, QP!history
      <3> QED BY <2>1, <3>1, <3>2 DEF QP!push
    <2>3. QP!Places /\ QP!InOrder
      BY <2>2 DEF Placed
    <2> QED BY <1>1, <2>1, <2>2, <2>3, QueueBounds, SameTypes, QP!PushPlaces DEF NothingElse
  <1>3. CASE push_again(p)
    <2>1. /\ pc[p] = "idle" /\ t' = [t EXCEPT ![p] = LastMsg(p)]
          /\ pc' = [pc EXCEPT ![p] = "push"]
          /\ UNCHANGED <<slot, readIdx, writeIdx, idx, lapped>>
      BY <1>3 DEF push_again
    <2>2. ~lapped /\ QP!Places /\ QP!InOrder
      BY <2>1 DEF Placed
    <2>3. /\ \A x \in QP!Threads : x # p => t'[x] = t[x] /\ idx'[x] = idx[x]
          /\ UNCHANGED QP!shared
      BY <1>1, <2>1 DEF QP!TypeOK, QP!shared
    <2>4. /\ QP!Places' /\ QP!InOrder'
          /\ \A i \in QP!Slots : \A m : QP!Carries(i, m)' => QP!Carries(i, m)
      BY <1>1, <2>1, <2>2, <2>3, QueueBounds, QP!PlacesPush
    <2> QED BY <2>2, <2>4 DEF NothingElse
  <1> QED BY <1>2, <1>3

LEMMA PlacedPop ==
    ASSUME Inv, Inv', Placed, ~lapped', Q!call_pop(Worker) \/ Q!pop(Worker)
    PROVE  /\ ~lapped /\ QP!Places' /\ QP!InOrder' /\ NothingElse
           /\ \/ popped' = popped
              \/ /\ popped' = Append(popped, t[Worker]) /\ t[Worker] \in Q!Message
                 /\ \E k \in QP!Slots : QP!Carries(k, t[Worker])
                 /\ \A i \in QP!Slots, m \in Q!Message :
                       QP!Carries(i, m)' /\ m[1] = t[Worker][1] => t[Worker][2] < m[2]
  <1>1. QP!TypeOK /\ QP!TypeOK' /\ QP!Holds
    BY SameTypes, HandsNewest DEF Inv
  <1>2. QP!call_pop(Worker) \/ QP!pop(Worker)
    BY SameQueue
  <1>3. ~lapped
    BY <1>2 DEF QP!call_pop, QP!pop, QP!load_read, QP!test_empty, QP!claim_read, QP!wait,
                QP!load, QP!clear, QP!history
  <1>4. QP!Places /\ QP!InOrder
    BY <1>3 DEF Placed
  <1>5. Worker \in {Worker} /\ \A d \in {Worker} : d = Worker
    OBVIOUS
  <1>6. /\ QP!Places' /\ QP!InOrder'
        /\ \A i \in QP!Slots, m \in QP!Message : QP!Carries(i, m)' => QP!Carries(i, m)
        /\ \/ popped' = popped
           \/ /\ popped' = Append(popped, t[Worker]) /\ t[Worker] \in QP!Message
              /\ \E k \in QP!Slots : QP!Carries(k, t[Worker])
              /\ \A i \in QP!Slots, m \in QP!Message :
                    QP!Carries(i, m)' /\ m[1] = t[Worker][1] => t[Worker][2] < m[2]
    BY <1>1, <1>2, <1>4, <1>5, QueueBounds, QP!PopPlaces
  <1> QED BY <1>3, <1>6, SameTypes DEF NothingElse

-----------------------------------------------------------------------------
\* The log thread will not call pop any more.
Ended ==
    \/ worker = "gone"
    \/ worker = "none" /\ at[Owner] \notin {"init_async", "run"}

\* What the owner has done so far, and what it can tell of the log thread by that.
Life ==
    /\ at[Owner] \in {"run", "join", "pthread_join", "delete"} => thread
    /\ joined # "no" /\ at[Owner] # "delete" => ~thread
    /\ at[Owner] = "delete" => joined # "no"
    /\ joined \in {"none", "gone"} => Ended
    /\ ~thread => at[Owner] = "init_async" \/ joined # "no"
    /\ at[Owner] \in {"init_async", "run"} => worker = "none" /\ joined = "no"
    /\ at[Owner] = "init_async" =>
          /\ ~thread
          /\ \A i \in 0..(Size - 1) : slot[i] = NULL
          /\ \A p \in Producers : pc[p] = "idle" /\ at[p] \notin {"push", "queue"}
    /\ worker # "pop" => pc[Worker] = "idle"
    /\ worker \notin {"test", "write"} => am = NULL

LEMMA LifeInit == Init => Life
  BY LogAssumption DEF Init, Q!Init, Q!Threads, Life

LEMMA LifeStep == Inv /\ Life /\ [Next]_vars => Life'
  <1> SUFFICES ASSUME Inv, Life, [Next]_vars PROVE Life'
    OBVIOUS
  <1>0. /\ Owner \in Producers /\ Worker \notin Producers
        /\ at \in [Producers -> {"out", "channel", "push", "queue", "init_async", "run",
                                 "join", "pthread_join", "delete"}]
        /\ pc \in [Q!Threads -> Q!PushLabel \cup Q!PopLabel]
        /\ Worker \in Q!Threads /\ \A p \in Producers : p \in Q!Threads
    BY LogAssumption DEF Inv, TypeOK, Q!TypeOK, Q!Threads
  <1>1. ASSUME NEW p \in Producers,
               log(p) \/ async_channel(p) \/ push_done(p) \/ push_discard(p) \/
               do_channel(p) \/ push_released(p)
        PROVE  Life'
    <2>1. /\ UNCHANGED <<slot, pc, workerVars, ownerVars>>
          /\ \E to \in {"out", "channel", "push"} :
                (to = "push" => thread) /\ at' = [at EXCEPT ![p] = to]
          /\ at[p] \in {"out", "channel", "push", "queue"}
      BY <1>1 DEF log, async_channel, push_done, push_discard, do_channel, push_released, Go,
                  queueVars
    <2>2. UNCHANGED <<worker, am, joined, thread>>
      BY <2>1 DEF workerVars, ownerVars
    <2>3. /\ \A q \in Producers : q # p => at'[q] = at[q]
          /\ at'[p] \in {"out", "channel", "push"} /\ (at'[p] = "push" => thread)
          /\ Owner # p => at'[Owner] = at[Owner]
      <3>1. PICK to \in {"out", "channel", "push"} :
                (to = "push" => thread) /\ at' = [at EXCEPT ![p] = to]
        BY <2>1
      <3>2. at'[p] = to /\ \A q \in Producers : q # p => at'[q] = at[q]
        BY <1>0, <3>1
      <3> QED BY <1>0, <3>1, <3>2
    <2>4. /\ Ended' <=> Ended
          /\ at[Owner] \in {"init_async", "run", "join", "pthread_join", "delete"} =>
                at'[Owner] = at[Owner]
          /\ at'[Owner] \in {"init_async", "run", "join", "pthread_join", "delete"} =>
                at'[Owner] = at[Owner]
      BY <2>1, <2>2, <2>3 DEF Ended
    <2>5. at'[Owner] = "init_async" =>
             /\ ~thread'
             /\ \A i \in 0..(Size - 1) : slot'[i] = NULL
             /\ \A q \in Producers : pc'[q] = "idle" /\ at'[q] \notin {"push", "queue"}
      BY <2>1, <2>2, <2>3, <2>4 DEF Life
    <2> QED BY <2>1, <2>2, <2>4, <2>5 DEF Life
  <1>2. ASSUME NEW p \in Producers, push_queue(p) \/ push_again(p) \/ queue_step(p)
        PROVE  Life'
    <2>1. /\ UNCHANGED <<thread, joined, worker, am>> /\ at[p] \in {"push", "queue"}
          /\ at' = [at EXCEPT ![p] = "queue"]
          /\ \E l : pc' = [pc EXCEPT ![p] = l]
      BY <1>0, <1>2 DEF push_queue, push_again, queue_step, Go, workerVars, ownerVars, Q!call_push,
            Q!push, Q!load_write, Q!test_full, Q!claim_write, Q!fill, Q!Goto
    <2>2. at[Owner] # "init_async"
      BY <2>1 DEF Life
    <2>3. /\ pc'[Worker] = pc[Worker]
          /\ at'[Owner] = at[Owner] \/ (Owner = p /\ at'[Owner] = "queue")
      BY <1>0, <2>1
    <2>4. /\ Ended' <=> Ended
          /\ at'[Owner] # "init_async"
          /\ at'[Owner] \in {"run", "join", "pthread_join", "delete"} => at'[Owner] = at[Owner]
          /\ at[Owner] = "delete" => at'[Owner] = at[Owner]
      BY <2>1, <2>2, <2>3 DEF Ended
    <2> QED BY <2>1, <2>2, <2>3, <2>4 DEF Life
  <1>3. ASSUME start \/ detach \/ test_release \/ exit PROVE Life'
    <2>1. /\ UNCHANGED <<thread, joined, am, at, slot, pc>>
          /\ worker \notin {"none", "gone", "pop"} /\ worker' \notin {"none", "pop"}
          /\ worker \notin {"test", "write"} \/ am = NULL \/ worker' = "write"
      BY <1>3 DEF start, detach, test_release, exit, ownerVars, queueVars
    <2> QED BY <2>1 DEF Life, Ended
  <1>4. ASSUME call_pop \/ pop_step \/ write PROVE Life'
    <2>1. /\ UNCHANGED <<thread, joined, at>>
          /\ worker \notin {"none", "gone"} /\ worker' \notin {"none", "gone"}
          /\ worker' # "pop" => pc'[Worker] = "idle"
          /\ worker' \notin {"test", "write"} => am' = NULL
      <3>1. CASE call_pop
        BY <3>1 DEF call_pop, ownerVars, Life
      <3>2. CASE write
        BY <3>2 DEF write, ownerVars, Life, queueVars
      <3>3. CASE pop_step
        <4>1. /\ UNCHANGED <<thread, joined, at>> /\ worker = "pop"
              /\ worker' = (IF pc'[Worker] = "idle" THEN "test" ELSE "pop")
              /\ am' = (IF popped' # popped THEN t[Worker] ELSE am)
          BY <3>3 DEF pop_step, ownerVars
        <4>2. popped' # popped => pc'[Worker] = "idle"
          BY <1>0, <3>3 DEF pop_step, Q!pop, Q!load_read, Q!test_empty, Q!claim_read, Q!wait,
                       Q!load, Q!clear, Q!Goto, Q!history
        <4> QED BY <4>1, <4>2 DEF Life
      <3> QED BY <1>4, <3>1, <3>2, <3>3
    <2> QED BY <2>1 DEF Life, Ended
  <1>5. ASSUME init_async \/ run \/ set_release \/ releasing PROVE Life'
    <2>1. UNCHANGED <<slot, pc, am>>
      BY <1>5 DEF init_async, run, set_release, releasing, join_not_running, join_detached,
                  join_wait, join_return, delete, queueVars, workerVars
    <2>2. CASE init_async
      <3>1. thread' = TRUE /\ at'[Owner] = "run" /\ worker' = worker /\ joined' = joined
            /\ at[Owner] = "init_async"
        BY <1>0, <2>2 DEF init_async, Go, workerVars
      <3> QED BY <2>1, <3>1 DEF Life, Ended
    <2>3. CASE run
      <3>1. /\ thread' = thread /\ at'[Owner] = "out" /\ at[Owner] = "run" /\ joined' = joined
            /\ worker' \in {"created", "none"}
        BY <1>0, <2>3 DEF run, Go, ownerVars
      <3> QED BY <2>1, <3>1 DEF Life, Ended
    <2>4. CASE set_release \/ join_wait
      <3>1. /\ thread' = thread /\ joined' = joined /\ worker' = worker
            /\ thread \/ at[Owner] = "join"
            /\ at[Owner] \in {"out", "join"} /\ at'[Owner] \in {"join", "pthread_join"}
        BY <1>0, <2>4 DEF set_release, join_wait, Go, workerVars, ownerVars
      <3> QED BY <2>1, <3>1 DEF Life, Ended
    <2>5. CASE join_not_running \/ join_detached \/ join_return
      <3>1. /\ thread' = thread /\ joined' = worker /\ worker' = worker
            /\ at[Owner] \in {"join", "pthread_join"} /\ at'[Owner] = "delete"
        BY <1>0, <2>5 DEF join_not_running, join_detached, join_return, Go, workerVars
      <3>2. worker # "no"
        BY DEF Inv, TypeOK
      <3> QED BY <2>1, <3>1, <3>2 DEF Life, Ended
    <2>6. CASE delete
      <3>1. /\ thread' = FALSE /\ joined' = joined /\ worker' = worker
            /\ at[Owner] = "delete" /\ at'[Owner] = "out"
        BY <1>0, <2>6 DEF delete, Go, workerVars
      <3> QED BY <2>1, <3>1 DEF Life, Ended
    <2> QED BY <1>5, <2>2, <2>3, <2>4, <2>5, <2>6 DEF releasing
  <1>6. CASE UNCHANGED vars
    BY <1>6 DEF vars, queueVars, workerVars, ownerVars, Life, Ended
  <1> QED BY <1>1, <1>2, <1>3, <1>4, <1>5, <1>6 DEF Next, producer, log_thread

-----------------------------------------------------------------------------
\* What push has accepted is in the queue, with the log thread or in the channels.
Everywhere == \A m \in accepted : Sits(m)

\* The log thread has seen the queue empty.
SawNothing == (worker = "test" /\ am = NULL) \/ worker \in {"exit", "gone"}

Emptied == lapped \/ (SawNothing => \A m \in seen : \E j \in 1..Len(written) : written[j] = m)

\* The steps on which the slots, am and the channels keep what they have.
LEMMA EverywhereQuiet ==
    ASSUME Everywhere, UNCHANGED <<slot, am, written, accepted>>
    PROVE  Everywhere'
  BY DEF Everywhere, Sits

\* What the channels have been given stays there.
LEMMA WrittenGrows ==
    ASSUME Inv, NEW e \in Q!Message, written' = Append(written, e)
    PROVE  /\ Len(written) \in Nat /\ Len(written') = Len(written) + 1
           /\ written'[Len(written) + 1] = e
           /\ \A j \in 1..Len(written) : written'[j] = written[j] /\ j \in 1..Len(written')
           /\ \A j \in 1..Len(written') : j \in 1..Len(written) \/ j = Len(written) + 1
           /\ Len(written) + 1 \in 1..Len(written')
  <1>1. written \in Seq(Q!Message)
    BY DEF Inv, TypeOK
  <1> QED BY <1>1

LEMMA EverywhereStep == Inv /\ Life /\ Everywhere /\ [Next]_vars => Everywhere'
  <1> SUFFICES ASSUME Inv, Life, Everywhere, [Next]_vars PROVE Everywhere'
    OBVIOUS
  <1>1. ASSUME NEW p \in Producers,
               log(p) \/ async_channel(p) \/ push_done(p) \/ push_discard(p) \/
               push_released(p) \/ push_queue(p) \/ push_again(p)
        PROVE  Everywhere'
    BY <1>1, EverywhereQuiet DEF log, async_channel, push_done, push_discard, push_released,
           push_queue, push_again, Q!call_push, Q!shared, queueVars, workerVars
  <1>2. ASSUME NEW p \in Producers, do_channel(p) PROVE Everywhere'
    <2>1. /\ UNCHANGED <<slot, am, accepted>> /\ at[p] = "channel"
          /\ written' = Append(written, <<p, count[p] + 1>>)
      BY <1>2 DEF do_channel, workerVars, Go
    <2>2. <<p, count[p] + 1>> \in Q!Message
      <3>1. count[p] \in 0..MaxPush /\ count[p] < MaxPush /\ MaxPush \in Nat
        BY <2>1, LogAssumption DEF Inv, Pushing, TypeOK, Q!TypeOK
      <3> QED BY <3>1 DEF Q!Message
    <2> QED BY <2>1, <2>2, WrittenGrows DEF Everywhere, Sits
  <1>3. ASSUME NEW p \in Producers, queue_step(p) PROVE Everywhere'
    <2>1. UNCHANGED <<am, written>>
      BY <1>3 DEF queue_step, workerVars
    <2>2. CASE Q!fill(p)
      <3>1. /\ idx[p] \in 0..(Size - 1) /\ slot[idx[p]] = NULL
            /\ slot' = [slot EXCEPT ![idx[p]] = t[p]]
            /\ accepted' = accepted \cup {t[p]}
            /\ slot \in [0..(Size - 1) -> Q!Message \cup {NULL}]
            /\ accepted \subseteq Q!Message /\ NULL \notin Q!Message
        BY <2>2, LogAssumption DEF Q!fill, Inv, TypeOK, Q!TypeOK, Q!Threads, Q!Message
      <3>2. /\ slot'[idx[p]] = t[p]
            /\ \A i \in 0..(Size - 1) : slot[i] # NULL => slot'[i] = slot[i]
        BY <3>1
      <3>3. ASSUME NEW m \in accepted' PROVE Sits(m)'
        <4>1. CASE m = t[p]
          BY <3>1, <3>2, <4>1 DEF Sits
        <4>2. CASE m \in accepted
          BY <2>1, <3>1, <3>2, <4>2 DEF Sits, Everywhere
        <4> QED BY <3>1, <4>1, <4>2
      <3> QED BY <3>3 DEF Everywhere
    <2>3. CASE ~Q!fill(p)
      <3>1. UNCHANGED <<slot, accepted>>
        BY <1>3, <2>3 DEF queue_step, Q!push, Q!load_write, Q!test_full, Q!claim_write,
                          Q!shared, Q!history
      <3> QED BY <2>1, <3>1, EverywhereQuiet
    <2> QED BY <2>2, <2>3
  <1>4. ASSUME pop_step PROVE Everywhere'
    <2>1. UNCHANGED written /\ am = NULL /\ accepted \subseteq Q!Message /\ NULL \notin Q!Message
      BY <1>4, LogAssumption DEF pop_step, Life, Inv, TypeOK, Q!TypeOK, Q!Message
    <2>2. CASE Q!clear(Worker)
      <3>1. /\ idx[Worker] \in 0..(Size - 1)
            /\ slot' = [slot EXCEPT ![idx[Worker]] = NULL] /\ t[Worker] = slot[idx[Worker]]
            /\ popped' = Append(popped, t[Worker]) /\ accepted' = accepted
            /\ slot \in [0..(Size - 1) -> Q!Message \cup {NULL}]
            /\ popped \in Seq(Q!Message)
        BY <2>2, LogAssumption DEF Q!clear, Inv, TypeOK, Q!TypeOK, Q!Threads, Reading
      <3>2. popped' # popped
        <4>1. Len(popped') = Len(popped) + 1 /\ Len(popped) \in Nat
          BY <3>1
        <4> QED BY <4>1
      <3>3. am' = slot[idx[Worker]]
        BY <1>4, <3>1, <3>2 DEF pop_step
      <3>4. \A i \in 0..(Size - 1) : slot'[i] = slot[i] \/ i = idx[Worker]
        BY <3>1
      <3>5. ASSUME NEW m \in accepted PROVE Sits(m)'
        <4>1. m # NULL /\ Sits(m)
          BY <2>1 DEF Everywhere
        <4> QED BY <2>1, <3>3, <3>4, <4>1 DEF Sits
      <3> QED BY <3>1, <3>5 DEF Everywhere
    <2>3. CASE ~Q!clear(Worker)
      <3>1. UNCHANGED <<slot, accepted, popped>>
        BY <1>4, <2>3 DEF pop_step, Q!pop, Q!load_read, Q!test_empty, Q!claim_read, Q!wait,
                          Q!load, Q!shared, Q!history
      <3>2. am' = am
        BY <1>4, <3>1 DEF pop_step
      <3> QED BY <2>1, <3>1, <3>2, EverywhereQuiet
    <2> QED BY <2>2, <2>3
  <1>5. ASSUME write PROVE Everywhere'
    <2>1. /\ UNCHANGED <<slot, accepted>> /\ am \in Q!Message
          /\ written' = Append(written, am)
      BY <1>5 DEF write, queueVars, Inv, Reading, TypeOK
    <2>2. accepted \subseteq Q!Message
      BY DEF Inv, TypeOK, Q!TypeOK
    <2> QED BY <2>1, <2>2, WrittenGrows DEF Everywhere, Sits
  <1>6. ASSUME start \/ detach \/ call_pop \/ test_release \/ exit PROVE Everywhere'
    BY <1>6, EverywhereQuiet DEF start, detach, call_pop, test_release, exit, Q!call_pop,
             Q!shared, Q!history, queueVars
  <1>7. ASSUME init_async \/ run \/ set_release \/ releasing PROVE Everywhere'
    BY <1>7, EverywhereQuiet DEF init_async, run, set_release, releasing, join_not_running,
             join_detached, join_wait, join_return, delete, queueVars, workerVars
  <1>8. ASSUME UNCHANGED vars PROVE Everywhere'
    BY <1>8, EverywhereQuiet DEF vars, queueVars, workerVars
  <1> QED BY <1>1, <1>2, <1>3, <1>4, <1>5, <1>6, <1>7, <1>8 DEF Next, producer, log_thread

\* When pop finds the queue empty, no slot holds a message any more.
LEMMA NothingLeft ==
    ASSUME Inv, Placed, ~lapped, Q!test_empty(Worker), pc'[Worker] = "idle"
    PROVE  \A i \in 0..(Size - 1) : slot[i] = NULL
  <1>1. pc[Worker] = "test_empty" /\ writeIdx = idx[Worker]
    <2>1. Worker \in Q!Threads /\ pc \in [Q!Threads -> Q!PushLabel \cup Q!PopLabel]
      BY DEF Inv, TypeOK, Q!TypeOK, Q!Threads
    <2> QED BY <2>1 DEF Q!test_empty, Q!Goto
  <1>2. QP!Places
    BY DEF Placed
  <1>3. idx[Worker] = readIdx /\ \A i : ~QP!Read(i)
    BY <1>1, <1>2 DEF QP!Places, QP!Read, QP!Reads
  <1>4. \A i \in QP!Slots : ~QP!Claimed(i)
    <2>1. \A i \in QP!Slots : QP!Dist(i) \in 0..(Size - 1) /\ QP!Dist(writeIdx) = 0
      BY <1>1, <1>3, SameTypes, QueueBounds, QP!DistRange DEF Inv
    <2> QED BY <2>1 DEF QP!Claimed
  <1> QED BY <1>2, <1>3, <1>4, SameTypes DEF QP!Places

LEMMA EmptiedKept ==
    ASSUME Inv, Emptied, lapped => lapped',
           UNCHANGED seen, SawNothing' => SawNothing,
           written' = written \/ \E e \in Q!Message : written' = Append(written, e)
    PROVE  Emptied'
  <1> SUFFICES ASSUME ~lapped', SawNothing', NEW m \in seen
               PROVE  \E j \in 1..Len(written') : written'[j] = m
    BY DEF Emptied
  <1>1. PICK j \in 1..Len(written) : written[j] = m
    BY DEF Emptied
  <1>2. CASE written' = written
    BY <1>1, <1>2
  <1>3. ASSUME NEW e \in Q!Message, written' = Append(written, e)
        PROVE  \E k \in 1..Len(written') : written'[k] = m
    BY <1>1, <1>3, WrittenGrows
  <1> QED BY <1>2, <1>3

LEMMA EmptiedStep ==
    Inv /\ Life /\ Everywhere /\ Placed /\ Emptied /\ [Next]_vars => Emptied'
  <1> SUFFICES ASSUME Inv, Life, Everywhere, Placed, Emptied, [Next]_vars PROVE Emptied'
    OBVIOUS
  <1>1. ASSUME NEW p \in Producers, log(p) \/ producer(p) PROVE Emptied'
    <2>1. UNCHANGED <<seen, worker, am>>
      BY <1>1 DEF log, producer, do_channel, async_channel, push_released, push_queue, queue_step,
                  push_done, push_again, push_discard, workerVars
    <2>2. lapped => lapped'
      <3>1. CASE queue_step(p)
        BY <3>1 DEF queue_step, Q!push, Q!load_write, Q!test_full, Q!claim_write, Q!fill, Q!history
      <3>2. CASE ~queue_step(p)
        <4>1. lapped' = lapped
          BY <1>1, <3>2 DEF log, producer, do_channel, async_channel, push_released, push_queue,
                  push_done, push_again, push_discard, queueVars, Q!call_push
        <4> QED BY <4>1
      <3> QED BY <3>1, <3>2
    <2>3. written' = written \/ \E e \in Q!Message : written' = Append(written, e)
      <3>1. CASE do_channel(p)
        <4>1. <<p, count[p] + 1>> \in Q!Message
          <5>1. count[p] \in 0..MaxPush /\ count[p] < MaxPush /\ MaxPush \in Nat
            BY <3>1, LogAssumption DEF do_channel, Go, Inv, Pushing, TypeOK, Q!TypeOK
          <5> QED BY <5>1 DEF Q!Message
        <4> QED BY <3>1, <4>1 DEF do_channel
      <3>2. CASE ~do_channel(p)
        BY <1>1, <3>2 DEF log, producer, async_channel, push_released, push_queue, queue_step,
                  push_done, push_again, push_discard
      <3> QED BY <3>1, <3>2
    <2> QED BY <2>1, <2>2, <2>3, EmptiedKept DEF SawNothing
  <1>2. ASSUME start \/ detach \/ call_pop \/ test_release \/ exit PROVE Emptied'
    <2>1. UNCHANGED <<seen, am, lapped, written>>
      BY <1>2 DEF start, detach, call_pop, test_release, exit, queueVars, Q!call_pop, Q!history
    <2>2. SawNothing' => SawNothing
      BY <1>2, <2>1 DEF start, detach, call_pop, test_release, exit, SawNothing
    <2> QED BY <2>1, <2>2, EmptiedKept
  <1>3. ASSUME pop_step PROVE Emptied'
    <2>1. /\ worker = "pop" /\ am = NULL /\ written' = written
          /\ worker' = (IF pc'[Worker] = "idle" THEN "test" ELSE "pop")
          /\ seen' = (IF pc'[Worker] = "idle" THEN accepted ELSE seen)
          /\ am' = (IF popped' # popped THEN t[Worker] ELSE am)
      BY <1>3 DEF pop_step, Life
    <2>2. CASE ~SawNothing'
      BY <2>2 DEF Emptied
    <2>3. CASE SawNothing'
      <3>1. pc'[Worker] = "idle" /\ am' = NULL
        BY <2>1, <2>3 DEF SawNothing
      <3>2. ~Q!clear(Worker)
        <4> SUFFICES ASSUME Q!clear(Worker) PROVE FALSE
          OBVIOUS
        <4>1. /\ t[Worker] # NULL /\ popped' = Append(popped, t[Worker])
              /\ popped \in Seq(Q!Message) /\ t[Worker] \in Q!Message
          BY LogAssumption DEF Q!clear, Inv, Reading, TypeOK, Q!TypeOK, Q!Threads
        <4>2. Len(popped') = Len(popped) + 1 /\ Len(popped) \in Nat
          BY <4>1
        <4>3. popped' # popped
          BY <4>2
        <4> QED BY <2>1, <3>1, <4>1, <4>3
      <3>3. Q!test_empty(Worker)
        <4>1. Worker \in Q!Threads /\ pc \in [Q!Threads -> Q!PushLabel \cup Q!PopLabel]
          BY DEF Inv, TypeOK, Q!TypeOK, Q!Threads
        <4> QED BY <1>3, <3>1, <3>2, <4>1 DEF pop_step, Q!pop, Q!load_read, Q!claim_read, Q!wait,
                                              Q!load, Q!Goto
      <3>4. lapped' = lapped /\ accepted' = accepted
        BY <3>3 DEF Q!test_empty, Q!history
      <3>5. lapped \/ \A i \in 0..(Size - 1) : slot[i] = NULL
        BY <3>1, <3>3, NothingLeft
      <3>6. NULL \notin accepted
        BY LogAssumption DEF Inv, TypeOK, Q!TypeOK, Q!Message
      <3>7. lapped \/ \A m \in accepted : \E j \in 1..Len(written) : written[j] = m
        BY <2>1, <3>5, <3>6 DEF Everywhere, Sits
      <3> QED BY <2>1, <3>1, <3>4, <3>7 DEF Emptied
    <2> QED BY <2>2, <2>3
  <1>4. ASSUME write PROVE Emptied'
    <2>1. worker' = "loop"
      BY <1>4 DEF write
    <2> QED BY <2>1 DEF Emptied, SawNothing
  <1>5. ASSUME init_async \/ run \/ set_release \/ releasing PROVE Emptied'
    <2>1. UNCHANGED <<seen, am, lapped, written>>
      BY <1>5 DEF init_async, run, set_release, releasing, join_not_running, join_detached,
             join_wait, join_return, delete, queueVars, workerVars
    <2>2. worker' = worker \/ worker' \in {"created", "none"}
      BY <1>5 DEF init_async, run, set_release, releasing, join_not_running, join_detached,
             join_wait, join_return, delete, workerVars
    <2>3. SawNothing' => SawNothing
      BY <2>1, <2>2 DEF SawNothing
    <2> QED BY <2>1, <2>3, EmptiedKept
  <1>6. ASSUME UNCHANGED vars PROVE Emptied'
    <2>1. UNCHANGED <<seen, am, lapped, written, worker>>
      BY <1>6 DEF vars, queueVars, workerVars
    <2> QED BY <2>1, EmptiedKept DEF SawNothing
  <1> QED BY <1>1, <1>2, <1>3, <1>4, <1>5, <1>6 DEF Next, log_thread

LEMMA PlacedStep ==
    Inv /\ Inv' /\ Placed /\ [Next]_vars => Placed'
  <1> SUFFICES ASSUME Inv, Inv', Placed, [Next]_vars, ~lapped'
               PROVE  QP!Places' /\ QP!InOrder'
    BY DEF Placed
  <1>1. ASSUME NEW p \in Producers, push_queue(p) \/ push_again(p) \/ queue_step(p)
        PROVE  QP!Places' /\ QP!InOrder'
    BY <1>1, PlacedPush
  <1>2. ASSUME call_pop \/ pop_step
        PROVE  QP!Places' /\ QP!InOrder'
    BY <1>2, PlacedPop DEF call_pop, pop_step
  <1>3. ASSUME \/ \E p \in Producers : \/ log(p) \/ async_channel(p) \/ push_done(p)
                                       \/ push_discard(p) \/ do_channel(p) \/ push_released(p)
               \/ start \/ detach \/ test_release \/ write \/ exit
               \/ init_async \/ run \/ set_release \/ releasing
               \/ UNCHANGED vars
        PROVE  QP!Places' /\ QP!InOrder'
    <2>1. UNCHANGED <<slot, readIdx, writeIdx, pc, idx, t, lapped>>
      BY <1>3 DEF log, async_channel, push_done, push_discard, do_channel, push_released,
             start, detach, test_release, write, exit, init_async, run, set_release, releasing,
             join_not_running, join_detached, join_wait, join_return, delete, vars, queueVars
    <2> QED BY <2>1, PlacedQuiet
  <1> QED BY <1>1, <1>2, <1>3 DEF Next, producer, log_thread

\* When the log thread leaves its loop it has written all that had been accepted when it
\* last called pop, unless a stale claim has made a full queue look empty: wherever the
\* producers are in push and the owner in release (AsyncThread.cpp:39-44).
THEOREM LogDrainedToLastPop == Spec => []DrainedToLastPop
  <1> DEFINE All == Inv /\ Life /\ Placed /\ Everywhere /\ Emptied
  <1>1. Init => All
    <2> SUFFICES ASSUME Init PROVE Placed /\ Everywhere /\ Emptied
      BY InvInit, LifeInit
    <2>1. QP!Init
      BY DEF Init, Q!Init, QP!Init, Q!Threads, QP!Threads
    <2>2. Placed
      BY <2>1, QueueBounds, QP!OrderInit DEF Placed, QP!OrderInv
    <2>3. Everywhere /\ Emptied
      BY DEF Init, Q!Init, Everywhere, Emptied, SawNothing
    <2> QED BY <2>2, <2>3
  <1>2. All /\ [Next]_vars => All'
    BY InvNext, LifeStep, PlacedStep, EverywhereStep, EmptiedStep
  <1>3. All => DrainedToLastPop
    <2> SUFFICES ASSUME All, worker \in {"exit", "gone"}, ~lapped PROVE seen \subseteq Range(written)
      BY DEF DrainedToLastPop
    <2>1. \A m \in seen : \E j \in 1..Len(written) : written[j] = m
      BY DEF Emptied, SawNothing
    <2>2. DOMAIN written = 1..Len(written)
      BY DEF Inv, TypeOK
    <2> QED BY <2>1, <2>2 DEF Range
  <1> QED BY <1>1, <1>2, <1>3, PTL DEF Spec

-----------------------------------------------------------------------------
\* What the channels and the log thread have comes before what is in the queue.
HandedFirst ==
    /\ \A j \in 1..Len(written) :
          am # NULL /\ written[j][1] = am[1] => written[j][2] < am[2]
    /\ \A i \in QP!Slots, m \in Q!Message : QP!Carries(i, m) =>
          /\ am # NULL /\ am[1] = m[1] => am[2] < m[2]
          /\ \A j \in 1..Len(written) : written[j][1] = m[1] => written[j][2] < m[2]

WrittenInOrder ==
    \A i, j \in 1..Len(written) :
        i < j /\ written[i][1] = written[j][1] => written[i][2] < written[j][2]

\* Once the log thread has ended it does not matter what is left in the queue, and
\* whoever logs may write.
Handed == lapped \/ Abandoned \/ (WrittenInOrder /\ (Ended \/ HandedFirst))

\* A message that goes to the channels after all others of its thread.
LEMMA InOrderAppended ==
    ASSUME Inv, WrittenInOrder, NEW e \in Q!Message, written' = Append(written, e),
           \A j \in 1..Len(written) : written[j][1] = e[1] => written[j][2] < e[2]
    PROVE  WrittenInOrder'
  <1> DEFINE n == Len(written)
  <1>1. /\ n \in Nat /\ Len(written') = n + 1 /\ written'[n + 1] = e
        /\ \A j \in 1..n : written'[j] = written[j]
    BY WrittenGrows
  <1> SUFFICES ASSUME NEW i \in 1..(n + 1), NEW j \in 1..(n + 1), i < j,
                      written'[i][1] = written'[j][1]
               PROVE  written'[i][2] < written'[j][2]
    BY <1>1 DEF WrittenInOrder
  <1>2. i \in 1..n /\ written'[i] = written[i]
    BY <1>1
  <1>3. CASE j \in 1..n
    BY <1>1, <1>2, <1>3 DEF WrittenInOrder
  <1>4. CASE j = n + 1
    BY <1>1, <1>2, <1>4
  <1> QED BY <1>1, <1>3, <1>4

\* A step on which nothing leaves the queue, or is written.
LEMMA HandedQuiet ==
    ASSUME Inv, HandedFirst, NothingElse, UNCHANGED <<am, written>>
    PROVE  HandedFirst'
  <1> SUFFICES ASSUME NEW i \in QP!Slots, NEW m \in Q!Message, QP!Carries(i, m)'
               PROVE  /\ am # NULL /\ am[1] = m[1] => am[2] < m[2]
                      /\ \A j \in 1..Len(written) : written[j][1] = m[1] => written[j][2] < m[2]
    BY DEF HandedFirst
  <1>1. CASE QP!Carries(i, m)
    BY <1>1 DEF HandedFirst
  <1>2. ASSUME NEW p \in Producers, pc[p] # "idle", m = t[p]
        PROVE  /\ am # NULL /\ am[1] = m[1] => am[2] < m[2]
               /\ \A j \in 1..Len(written) : written[j][1] = m[1] => written[j][2] < m[2]
    BY <1>2, HandsNewest, SameTypes DEF QP!Newest
  <1> QED BY <1>1, <1>2 DEF NothingElse

LEMMA HandedPop ==
    ASSUME Inv, Life, HandedFirst, NothingElse, pop_step,
           popped' = Append(popped, t[Worker]), t[Worker] \in Q!Message,
           \E k \in QP!Slots : QP!Carries(k, t[Worker]),
           \A i \in QP!Slots, m \in Q!Message :
               QP!Carries(i, m)' /\ m[1] = t[Worker][1] => t[Worker][2] < m[2]
    PROVE  HandedFirst'
  <1>1. am = NULL /\ written' = written /\ am' = t[Worker]
    <2>1. Len(popped') = Len(popped) + 1 /\ Len(popped) \in Nat
      BY DEF Inv, TypeOK, Q!TypeOK
    <2>2. popped' # popped
      BY <2>1
    <2> QED BY <2>2 DEF pop_step, Life
  <1>2. \A j \in 1..Len(written) :
           written[j][1] = t[Worker][1] => written[j][2] < t[Worker][2]
    BY DEF HandedFirst
  <1>3. ASSUME NEW i \in QP!Slots, NEW m \in Q!Message, QP!Carries(i, m)'
        PROVE  \A j \in 1..Len(written) : written[j][1] = m[1] => written[j][2] < m[2]
    <2>1. CASE QP!Carries(i, m)
      BY <2>1 DEF HandedFirst
    <2>2. ASSUME NEW p \in Producers, pc[p] # "idle", m = t[p]
          PROVE  \A j \in 1..Len(written) : written[j][1] = m[1] => written[j][2] < m[2]
      BY <2>2, HandsNewest, SameTypes DEF QP!Newest
    <2> QED BY <1>3, <2>1, <2>2 DEF NothingElse
  <1> QED BY <1>1, <1>2, <1>3 DEF HandedFirst

\* join has returned, and has found the log thread ended, forever.
LEMMA EndedStays == Inv /\ Life /\ [Next]_vars => (Ended => Ended') /\ (Abandoned => Abandoned')
  <1> SUFFICES ASSUME Inv, Life, [Next]_vars
               PROVE  (Ended => Ended') /\ (Abandoned => Abandoned')
    OBVIOUS
  <1>0. Owner \in Producers /\ at \in [Producers -> {"out", "channel", "push", "queue",
                     "init_async", "run", "join", "pthread_join", "delete"}]
    BY LogAssumption DEF Inv, TypeOK
  <1>1. ASSUME NEW p \in Producers, log(p) \/ producer(p)
        PROVE  (Ended => Ended') /\ (Abandoned => Abandoned')
    <2>1. /\ UNCHANGED <<worker, joined>>
          /\ at' = at \/ \E to \in {"out", "channel", "push", "queue"} : at' = [at EXCEPT ![p] = to]
      BY <1>1 DEF log, producer, do_channel, async_channel, push_released, push_queue, queue_step,
                  push_done, push_again, push_discard, workerVars, ownerVars, Go
    <2> QED BY <1>0, <2>1 DEF Ended, Abandoned
  <1>2. ASSUME log_thread
        PROVE  (Ended => Ended') /\ (Abandoned => Abandoned')
    <2>1. joined' = joined /\ ~Ended
      BY <1>2 DEF log_thread, start, detach, call_pop, pop_step, test_release, write, exit,
                  ownerVars, Ended
    <2> QED BY <2>1 DEF Abandoned
  <1>3. ASSUME init_async \/ run \/ set_release \/ releasing
        PROVE  (Ended => Ended') /\ (Abandoned => Abandoned')
    <2>1. joined' = joined \/ joined = "no"
      BY <1>3 DEF init_async, run, set_release, releasing, join_not_running, join_detached,
             join_wait, join_return, delete, ownerVars, Life, Go
    <2>2. /\ worker' = worker \/ at[Owner] = "run"
          /\ at'[Owner] = "run" => at[Owner] = "init_async"
          /\ at'[Owner] # "init_async"
      BY <1>0, <1>3 DEF init_async, run, set_release, releasing, join_not_running, join_detached,
             join_wait, join_return, delete, workerVars, Go
    <2> QED BY <2>1, <2>2 DEF Ended, Abandoned, Life
  <1>4. ASSUME UNCHANGED vars
        PROVE  (Ended => Ended') /\ (Abandoned => Abandoned')
    BY <1>4 DEF vars, workerVars, ownerVars, Ended, Abandoned
  <1> QED BY <1>1, <1>2, <1>3, <1>4 DEF Next

LEMMA HandedStep ==
    Inv /\ Inv' /\ Life /\ Placed /\ Handed /\ [Next]_vars => Handed'
  <1> SUFFICES ASSUME Inv, Inv', Life, Placed, Handed, [Next]_vars, ~lapped', ~Abandoned'
               PROVE  WrittenInOrder' /\ (Ended' \/ HandedFirst')
    BY DEF Handed
  <1>0. (Ended => Ended') /\ ~Abandoned
    BY EndedStays
  <1>1. ASSUME NEW p \in Producers, push_queue(p) \/ push_again(p) \/ queue_step(p)
        PROVE  WrittenInOrder' /\ (Ended' \/ HandedFirst')
    <2>1. ~lapped /\ NothingElse /\ UNCHANGED <<am, written>>
      BY <1>1, PlacedPush DEF push_queue, push_again, queue_step, workerVars
    <2>2. WrittenInOrder /\ (Ended \/ HandedFirst)
      BY <1>0, <2>1 DEF Handed
    <2>3. WrittenInOrder'
      BY <2>1, <2>2 DEF WrittenInOrder
    <2> QED BY <1>0, <2>1, <2>2, <2>3, HandedQuiet
  <1>2. ASSUME call_pop \/ pop_step
        PROVE  WrittenInOrder' /\ (Ended' \/ HandedFirst')
    <2>1. /\ ~lapped /\ NothingElse /\ written' = written /\ ~Ended
          /\ popped' = popped => am' = am
      BY <1>2, PlacedPop DEF call_pop, pop_step, Ended
    <2>2. WrittenInOrder /\ HandedFirst
      BY <1>0, <2>1 DEF Handed
    <2>3. WrittenInOrder'
      BY <2>1, <2>2 DEF WrittenInOrder
    <2>4. CASE popped' = popped
      BY <2>1, <2>2, <2>3, <2>4, HandedQuiet
    <2>5. CASE popped' # popped
      <3>1. pop_step
        BY <1>2, <2>5 DEF call_pop, Q!call_pop, Q!history
      <3> QED BY <1>2, <2>1, <2>2, <2>3, <2>5, <3>1, PlacedPop, HandedPop DEF pop_step
    <2> QED BY <2>4, <2>5
  <1>3. ASSUME \/ \E p \in Producers : \/ log(p) \/ async_channel(p) \/ push_done(p)
                                       \/ push_discard(p) \/ push_released(p)
               \/ start \/ detach \/ test_release \/ exit
               \/ init_async \/ run \/ set_release \/ releasing
               \/ UNCHANGED vars
        PROVE  WrittenInOrder' /\ (Ended' \/ HandedFirst')
    <2>1. UNCHANGED <<slot, readIdx, writeIdx, pc, idx, t, lapped, am, written>>
      BY <1>3 DEF log, async_channel, push_done, push_discard, push_released,
             start, detach, test_release, exit, init_async, run, set_release, releasing,
             join_not_running, join_detached, join_wait, join_return, delete, vars, queueVars,
             workerVars
    <2>2. ~lapped /\ NothingElse
      BY <2>1, PlacedQuiet DEF NothingElse
    <2>3. WrittenInOrder /\ (Ended \/ HandedFirst)
      BY <1>0, <2>2 DEF Handed
    <2>4. WrittenInOrder'
      BY <2>1, <2>3 DEF WrittenInOrder
    <2> QED BY <1>0, <2>1, <2>2, <2>3, <2>4, HandedQuiet
  <1>4. ASSUME write
        PROVE  WrittenInOrder' /\ (Ended' \/ HandedFirst')
    <2>1. /\ UNCHANGED <<slot, readIdx, writeIdx, pc, idx, t, lapped>>
          /\ am \in Q!Message /\ am' = NULL /\ written' = Append(written, am) /\ ~Ended
          /\ am # NULL
      BY <1>4 DEF write, queueVars, Ended, Inv, TypeOK, Reading
    <2>2. ~lapped /\ \A i, m : QP!Carries(i, m)' => QP!Carries(i, m)
      BY <2>1, PlacedQuiet
    <2>3. WrittenInOrder /\ HandedFirst
      BY <1>0, <2>1, <2>2 DEF Handed
    <2>4. WrittenInOrder'
      BY <2>1, <2>3, InOrderAppended DEF HandedFirst
    <2>5. HandedFirst'
      <3> SUFFICES ASSUME NEW i \in QP!Slots, NEW m \in Q!Message, QP!Carries(i, m)',
                          NEW j \in 1..Len(written'), written'[j][1] = m[1]
                   PROVE  written'[j][2] < m[2]
        BY <2>1 DEF HandedFirst
      <3>1. QP!Carries(i, m)
        BY <2>2
      <3>2. CASE j \in 1..Len(written)
        BY <2>1, <2>3, <3>1, <3>2, WrittenGrows DEF HandedFirst
      <3>3. CASE j = Len(written) + 1
        BY <2>1, <2>3, <3>1, <3>3, WrittenGrows DEF HandedFirst
      <3> QED BY <2>1, <3>2, <3>3, WrittenGrows
    <2> QED BY <2>4, <2>5
  <1>5. ASSUME NEW p \in Producers, do_channel(p)
        PROVE  WrittenInOrder' /\ (Ended' \/ HandedFirst')
    <2> DEFINE e == <<p, count[p] + 1>>
    <2>1. /\ UNCHANGED <<slot, readIdx, writeIdx, pc, idx, t, lapped, am, worker>>
          /\ at[p] = "channel" /\ written' = Append(written, e) /\ ~thread
      BY <1>5 DEF do_channel, workerVars, Go
    <2>2. count[p] \in 0..MaxPush /\ count[p] < MaxPush /\ MaxPush \in Nat
      BY <2>1, LogAssumption DEF Inv, Pushing, TypeOK, Q!TypeOK
    <2>3. e \in Q!Message /\ e[1] = p /\ e[2] = count[p] + 1
      BY <2>2 DEF Q!Message
    <2>4. \A j \in 1..Len(written) : written[j][1] = p => written[j][2] <= count[p]
      <3> SUFFICES ASSUME NEW j \in 1..Len(written), written[j][1] = p
                   PROVE  written[j][2] <= count[p]
        OBVIOUS
      <3>1. written \in Seq(Q!Message)
        BY DEF Inv, TypeOK
      <3>2. written[j] \in Q!Message
        BY <3>1
      <3>3. written[j][2] \in 1..MaxPush /\ written[j] = <<p, written[j][2]>>
        BY <3>2 DEF Q!Message
      <3>4. Sits(<<p, written[j][2]>>)
        BY <3>3 DEF Sits
      <3> QED BY <3>3, <3>4 DEF Inv, Sitting
    <2>5. \A j \in 1..Len(written) : written[j][1] = e[1] => written[j][2] < e[2]
      <3> SUFFICES ASSUME NEW j \in 1..Len(written), written[j][1] = p
                   PROVE  written[j][2] < count[p] + 1
        BY <2>3
      <3>1. written \in Seq(Q!Message)
        BY DEF Inv, TypeOK
      <3>2. written[j][2] \in 1..MaxPush
        BY <3>1 DEF Q!Message
      <3> QED BY <2>2, <2>4, <3>2
    <2> HIDE DEF e
    <2>6. ~lapped
      BY <2>1
    <2>7. WrittenInOrder /\ (Ended \/ HandedFirst)
      BY <1>0, <2>6 DEF Handed
    <2>8. WrittenInOrder'
      BY <2>1, <2>3, <2>5, <2>7, InOrderAppended
    <2>9. CASE at[Owner] = "init_async"
      <3>1. am' = NULL /\ \A i \in 0..(Size - 1) : slot'[i] = NULL
        BY <2>1, <2>9 DEF Life
      <3>2. \A q \in Producers : \A i : ~QP!Fills(q, i)'
        BY <2>1, <2>9 DEF Life, QP!Fills
      <3>3. NULL \notin Q!Message
        BY LogAssumption DEF Q!Message
      <3>4. \A i \in QP!Slots, m \in Q!Message : ~QP!Carries(i, m)'
        BY <3>1, <3>2, <3>3, SameTypes DEF QP!Carries
      <3>5. HandedFirst'
        BY <3>1, <3>4 DEF HandedFirst
      <3> QED BY <2>8, <3>5
    <2>10. CASE at[Owner] # "init_async"
      <3>1. Ended
        BY <1>0, <2>1, <2>10 DEF Life, Abandoned
      <3> QED BY <1>0, <2>8, <3>1
    <2> QED BY <2>9, <2>10
  <1> QED BY <1>1, <1>2, <1>3, <1>4, <1>5 DEF Next, producer, log_thread

\* What one thread logs is written in the order in which it logged it, by the log thread,
\* by the thread itself before init_async and after release, and across both changes;
\* unless the queue has lapped or join has left the log thread running
\* (AsyncThread.cpp:35-112, LoggerMgr.cpp:35-76).
THEOREM LogOrderKept == Spec => []OrderKept
  <1> DEFINE All == Inv /\ Life /\ Placed /\ Handed
  <1>1. Init => All
    <2> SUFFICES ASSUME Init PROVE Placed /\ Handed
      BY InvInit, LifeInit
    <2>1. QP!Init
      BY DEF Init, Q!Init, QP!Init, Q!Threads, QP!Threads
    <2>2. QP!Places /\ QP!InOrder
      BY <2>1, QueueBounds, QP!OrderInit DEF QP!OrderInv, QP!Init
    <2>3. \A i \in QP!Slots, m \in Q!Message : ~QP!Carries(i, m)
      BY LogAssumption DEF Init, Q!Init, QP!Carries, QP!Fills, QP!Slots, Q!Message, Q!Threads
    <2>4. Handed
      BY <2>3 DEF Init, Handed, WrittenInOrder, HandedFirst
    <2> QED BY <2>2, <2>4 DEF Placed
  <1>2. All /\ [Next]_vars => All'
    BY InvNext, LifeStep, PlacedStep, HandedStep
  <1>3. All => OrderKept
    BY DEF Handed, WrittenInOrder, OrderKept
  <1> QED BY <1>1, <1>2, <1>3, PTL DEF Spec
=============================================================================
