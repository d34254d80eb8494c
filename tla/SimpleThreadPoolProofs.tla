----------------------- MODULE SimpleThreadPoolProofs -----------------------
(***************************************************************************)
(* Proofs about SimpleThreadPool, for every set of workers and every       *)
(* number of tasks.                                                        *)
(*                                                                         *)
(* The invariant adds to the properties where each accepted task is, in    *)
(* the queue, with a worker or finished, and what the threads' places say  *)
(* of stop and of the queue: a worker returns only from an empty queue of  *)
(* a stopped pool, to which nothing is added any more.                     *)
(***************************************************************************)
EXTENDS SimpleThreadPool, SequenceTheorems, TLAPS

Task == 1..MaxTasks

ElementsOf(s) == {s[i] : i \in 1..Len(s)}

Increasing(s) == \A i \in 2..Len(s) : s[i] > s[i - 1]

(* Workers inside a task, some of them inside its call of enqueue(). *)
Busy == {w \in Workers : pc[w] \in {"running", "notify"}}

NothingDropped ==
  accepted = finished \cup {task[w] : w \in Busy} \cup ElementsOf(tasks)

Places ==
  /\ pc[Owner] \in {"free", "notify", "stopping", "joining", "gone"}
  /\ \A w \in Workers : pc[w] \in {"wanted", "asleep", "running", "notify", "returned"}
  /\ stop <=> pc[Owner] \in {"stopping", "joining", "gone"}
  /\ \A w \in Workers : pc[w] = "returned" => stop /\ tasks = <<>>
  /\ pc[Owner] = "gone" => AllReturned

IInv ==
  /\ TypeOK
  /\ TasksRunOnceInOrder
  /\ NothingDropped
  /\ Places
  /\ NoLostWakeup

----------------------------------------------------------------------------
(* Lemmas about sequences. *)

LEMMA AppendBehind ==
  ASSUME NEW S, NEW s \in Seq(S), NEW t \in Seq(S), NEW e \in S
  PROVE  s \o Append(t, e) = Append(s \o t, e)
<1>1. Append(t, e) = t \o <<e>> /\ <<e>> \in Seq(S) /\ s \o t \in Seq(S)
  BY AppendIsConcat, ConcatProperties
<1>2. Append(s \o t, e) = (s \o t) \o <<e>>
  BY <1>1, AppendIsConcat
<1> QED
  BY <1>1, <1>2, ConcatAssociative

(* Moving the head of one sequence to the end of another in front of it. *)
LEMMA MoveHead ==
  ASSUME NEW S, NEW s \in Seq(S), NEW t \in Seq(S), t # <<>>
  PROVE  Append(s, Head(t)) \o Tail(t) = s \o t
<1>1. /\ Head(t) \in S /\ Tail(t) \in Seq(S) /\ <<Head(t)>> \in Seq(S)
      /\ Append(s, Head(t)) = s \o <<Head(t)>>
  BY HeadTailProperties, AppendIsConcat
<1>2. Append(s, Head(t)) \o Tail(t) = s \o (<<Head(t)>> \o Tail(t))
  BY <1>1, ConcatAssociative
<1>3. <<Head(t)>> \o Tail(t) = t
  <2> DEFINE u == <<Head(t)>> \o Tail(t)
  <2>1. Len(t) \in Nat /\ Len(t) >= 1 /\ Head(t) = t[1]
    BY EmptySeq, LenProperties
  <2>2. /\ Len(Tail(t)) = Len(t) - 1
        /\ \A i \in 1..Len(Tail(t)) : Tail(t)[i] = t[i + 1]
    BY HeadTailProperties
  <2>3. /\ u \in Seq(S) /\ Len(u) = 1 + Len(Tail(t))
        /\ \A i \in 1..(1 + Len(Tail(t))) :
             u[i] = IF i <= 1 THEN Head(t) ELSE Tail(t)[i - 1]
    <3>1. Len(<<Head(t)>>) = 1 /\ <<Head(t)>>[1] = Head(t)
      OBVIOUS
    <3> QED
      BY <1>1, <2>1, <2>2, <3>1, ConcatProperties
  <2>4. Len(u) = Len(t)
    BY <2>1, <2>2, <2>3
  <2>5. \A i \in 1..Len(u) : u[i] = t[i]
    <3> SUFFICES ASSUME NEW i \in 1..Len(u) PROVE u[i] = t[i]
      OBVIOUS
    <3>1. CASE i = 1
      BY <2>1, <2>2, <2>3, <3>1
    <3>2. CASE i > 1
      <4>1. i - 1 \in 1..Len(Tail(t)) /\ (i - 1) + 1 = i
        BY <2>1, <2>2, <2>4, <3>2
      <4>2. u[i] = Tail(t)[i - 1]
        BY <2>1, <2>2, <2>3, <3>2
      <4> QED
        BY <2>2, <4>1, <4>2
    <3> QED
      BY <2>1, <2>4, <3>1, <3>2
  <2> HIDE DEF u
  <2>6. u = t
    BY <2>3, <2>4, <2>5, SeqEqual
  <2> QED
    BY <2>6 DEF u
<1> QED
  BY <1>2, <1>3

LEMMA ElementsAppend ==
  ASSUME NEW S, NEW s \in Seq(S), NEW e \in S
  PROVE  ElementsOf(Append(s, e)) = ElementsOf(s) \cup {e}
<1>1. /\ Len(s) \in Nat /\ Len(Append(s, e)) = Len(s) + 1
      /\ \A i \in 1..Len(s) : Append(s, e)[i] = s[i]
      /\ Append(s, e)[Len(s) + 1] = e
  BY AppendProperties, LenProperties
<1> QED
  BY <1>1 DEF ElementsOf

LEMMA ElementsHeadTail ==
  ASSUME NEW S, NEW s \in Seq(S), s # <<>>
  PROVE  ElementsOf(s) = {Head(s)} \cup ElementsOf(Tail(s))
<1>1. /\ Len(s) \in Nat /\ Len(s) >= 1 /\ Head(s) = s[1]
      /\ Len(Tail(s)) = Len(s) - 1
      /\ \A i \in 1..Len(Tail(s)) : Tail(s)[i] = s[i + 1]
  BY EmptySeq, LenProperties, HeadTailProperties
<1>2. ASSUME NEW x \in ElementsOf(s) PROVE x \in {Head(s)} \cup ElementsOf(Tail(s))
  <2>1. PICK i \in 1..Len(s) : x = s[i]
    BY DEF ElementsOf
  <2>2. CASE i = 1
    BY <1>1, <2>1, <2>2
  <2>3. CASE i > 1
    <3>1. i - 1 \in 1..Len(Tail(s)) /\ (i - 1) + 1 = i
      BY <1>1, <2>3
    <3>2. Tail(s)[i - 1] = s[i]
      BY <1>1, <3>1
    <3> QED
      BY <2>1, <3>1, <3>2 DEF ElementsOf
  <2> QED
    BY <1>1, <2>2, <2>3
<1>3. Head(s) \in ElementsOf(s)
  BY <1>1 DEF ElementsOf
<1>4. ASSUME NEW x \in ElementsOf(Tail(s)) PROVE x \in ElementsOf(s)
  <2>1. PICK i \in 1..Len(Tail(s)) : x = Tail(s)[i]
    BY <1>4 DEF ElementsOf
  <2>2. i + 1 \in 1..Len(s) /\ x = s[i + 1]
    BY <1>1, <2>1
  <2> QED
    BY <2>2 DEF ElementsOf
<1> QED
  BY <1>2, <1>3, <1>4

(* A sequence stays increasing with an element above all of it behind. *)
LEMMA IncreasingAppend ==
  ASSUME NEW s \in Seq(Task), NEW e \in Task, Increasing(s),
         \A x \in ElementsOf(s) : x < e
  PROVE  Increasing(Append(s, e))
<1>1. /\ Len(s) \in Nat /\ Len(Append(s, e)) = Len(s) + 1
      /\ \A i \in 1..Len(s) : Append(s, e)[i] = s[i]
      /\ Append(s, e)[Len(s) + 1] = e
  BY AppendProperties, LenProperties
<1> SUFFICES ASSUME NEW i \in 2..(Len(s) + 1)
             PROVE  Append(s, e)[i] > Append(s, e)[i - 1]
  BY <1>1 DEF Increasing
<1>2. CASE i = Len(s) + 1
  <2>1. i - 1 \in 1..Len(s) /\ Append(s, e)[i - 1] = s[i - 1]
    BY <1>1, <1>2
  <2>2. s[i - 1] < e /\ s[i - 1] \in Task
    BY <2>1, ElementOfSeq DEF ElementsOf
  <2> QED
    BY <1>1, <1>2, <2>1, <2>2 DEF Task
<1>3. CASE i <= Len(s)
  <2>1. i \in 2..Len(s) /\ i \in 1..Len(s) /\ i - 1 \in 1..Len(s)
    BY <1>1, <1>3
  <2> QED
    BY <1>1, <2>1 DEF Increasing
<1> QED
  BY <1>1, <1>2, <1>3

----------------------------------------------------------------------------

LEMMA InitIInv == Init => IInv
<1> SUFFICES ASSUME Init PROVE IInv
  OBVIOUS
<1> USE SimpleThreadPoolAssumption
<1>1. TypeOK
  <2>1. <<>> \in Seq(1..MaxTasks)
    OBVIOUS
  <2>2. \A w \in Workers : pc[w] = "wanted"
    BY DEF Init, Threads
  <2>3. waiting = {w \in Workers : pc[w] = "asleep"}
    BY <2>2 DEF Init
  <2>4. pc \in [Threads -> {"free", "notify", "stopping", "joining", "gone",
                           "wanted", "asleep", "running", "returned"}]
    BY DEF Init
  <2>5. task \in [Workers -> 0..MaxTasks] /\ calls \in 0..MaxTasks
    BY DEF Init
  <2> QED
    BY <2>1, <2>3, <2>4, <2>5 DEF Init, TypeOK
<1>2. TasksRunOnceInOrder
  <2>1. started \o tasks = <<>> /\ Len(<<>>) = 0
    BY DEF Init
  <2> QED
    BY <2>1 DEF Init, TasksRunOnceInOrder
<1>3. NothingDropped
  <2>1. Busy = {}
    BY DEF Init, Busy, Threads
  <2>2. ElementsOf(tasks) = {}
    <3>1. tasks = <<>> /\ Len(<<>>) = 0 /\ 1..0 = {}
      BY DEF Init
    <3> QED
      BY <3>1 DEF ElementsOf
  <2> QED
    BY <2>1, <2>2 DEF Init, NothingDropped
<1>4. Places
  BY DEF Init, Places, Threads
<1>5. NoLostWakeup
  BY DEF Init, NoLostWakeup
<1> QED
  BY <1>1, <1>2, <1>3, <1>4, <1>5 DEF IInv

(* What the queue and the history look like, in the words of the lemmas. *)
LEMMA OrderOfTasks ==
  ASSUME TypeOK
  PROVE  /\ TasksRunOnceInOrder <=> /\ ElementsOf(started \o tasks) = accepted
                                   /\ Increasing(started \o tasks)
         /\ tasks \in Seq(Task) /\ started \in Seq(Task)
         /\ started \o tasks \in Seq(Task)
<1>1. tasks \in Seq(Task) /\ started \in Seq(Task)
  BY DEF TypeOK, Task
<1>2. started \o tasks \in Seq(Task)
  BY <1>1, ConcatProperties
<1> QED
  BY <1>1, <1>2 DEF TasksRunOnceInOrder, ElementsOf, Increasing

LEMMA EnqueueIInv ==
  ASSUME IInv, NEW t \in Threads, Enqueue(t)
  PROVE  IInv'
<1> USE SimpleThreadPoolAssumption
<1>1. /\ calls' = calls + 1 /\ calls \in Nat /\ calls + 1 \in Task
      /\ ~stop /\ stop' = stop /\ waiting' = waiting /\ task' = task
      /\ tasks' = Append(tasks, calls + 1) /\ accepted' = accepted \cup {calls + 1}
      /\ pc' = [pc EXCEPT ![t] = "notify"]
      /\ started' = started /\ finished' = finished
      /\ CanCall(t)
  BY DEF Enqueue, IInv, TypeOK, Task
<1>2. /\ tasks \in Seq(Task) /\ started \in Seq(Task)
      /\ ElementsOf(started \o tasks) = accepted /\ Increasing(started \o tasks)
      /\ started \o tasks \in Seq(Task)
  BY OrderOfTasks DEF IInv
<1>3. tasks' \in Seq(Task) /\ tasks' # <<>>
  BY <1>1, <1>2, AppendProperties
<1>4. t \in Workers => pc[t] = "running"
  BY <1>1 DEF CanCall
<1>5. pc' \in [Threads -> {"free", "notify", "stopping", "joining", "gone",
                          "wanted", "asleep", "running", "returned"}]
  BY <1>1 DEF IInv, TypeOK
<1>6. TypeOK'
  <2>1. waiting' = {w \in Workers : pc'[w] = "asleep"}
    BY <1>1, <1>4 DEF IInv, TypeOK, Threads
  <2>2. accepted' \subseteq 1..calls' /\ finished' \subseteq accepted' /\ calls' \in 0..MaxTasks
    BY <1>1 DEF IInv, TypeOK, Task
  <2> QED
    BY <1>1, <1>2, <1>3, <1>5, <2>1, <2>2 DEF IInv, TypeOK, Task
<1>7. TasksRunOnceInOrder'
  <2>1. started' \o tasks' = Append(started \o tasks, calls + 1)
    BY <1>1, <1>2, AppendBehind
  <2>2. ElementsOf(Append(started \o tasks, calls + 1)) = accepted'
    <3>1. ElementsOf(Append(started \o tasks, calls + 1))
            = ElementsOf(started \o tasks) \cup {calls + 1}
      BY <1>1, <1>2, ElementsAppend
    <3> QED
      BY <1>1, <1>2, <3>1
  <2>3. \A x \in ElementsOf(started \o tasks) : x < calls + 1
    <3>1. accepted \subseteq 1..calls
      BY DEF IInv, TypeOK
    <3>2. \A x \in 1..calls : x < calls + 1
      BY <1>1
    <3> QED
      BY <1>2, <3>1, <3>2
  <2>4. Increasing(started' \o tasks')
    BY <1>1, <1>2, <2>1, <2>3, IncreasingAppend
  <2> QED
    BY <2>1, <2>2, <2>4 DEF TasksRunOnceInOrder, ElementsOf, Increasing
<1>8. NothingDropped'
  <2>1. ElementsOf(tasks') = ElementsOf(tasks) \cup {calls + 1}
    BY <1>1, <1>2, ElementsAppend
  <2>2. Busy' = Busy
    BY <1>1, <1>4 DEF Busy, IInv, TypeOK, Threads
  <2>3. {task'[w] : w \in Busy'} = {task[w] : w \in Busy}
    BY <1>1, <2>2
  <2>4. ElementsOf(tasks)' = ElementsOf(tasks')
    BY DEF ElementsOf
  <2> QED
    BY <1>1, <2>1, <2>3, <2>4 DEF IInv, NothingDropped
<1>9. Places'
  <2>1. \A w \in Workers : pc[w] # "returned"
    BY <1>1 DEF IInv, Places
  <2>2. pc[Owner] \in {"free", "notify"}
    BY <1>1 DEF IInv, Places
  <2>3. pc'[Owner] \in {"free", "notify"}
        /\ \A w \in Workers : pc'[w] \in {"wanted", "asleep", "running", "notify"}
    BY <1>1, <2>1, <2>2 DEF IInv, TypeOK, Places, Threads
  <2> QED
    BY <1>1, <2>3 DEF Places
<1>10. NoLostWakeup'
  BY <1>1 DEF IInv, TypeOK, NoLostWakeup
<1> QED
  BY <1>6, <1>7, <1>8, <1>9, <1>10 DEF IInv

LEMMA TakeTaskIInv ==
  ASSUME IInv, NEW w \in Workers, TakeTask(w)
  PROVE  IInv'
<1> USE SimpleThreadPoolAssumption
<1>1. /\ tasks \in Seq(Task) /\ started \in Seq(Task)
      /\ ElementsOf(started \o tasks) = accepted /\ Increasing(started \o tasks)
      /\ started \o tasks \in Seq(Task)
  BY OrderOfTasks DEF IInv
<1>2. /\ pc[w] = "wanted" /\ tasks # <<>>
      /\ task' = [task EXCEPT ![w] = Head(tasks)] /\ task'[w] = Head(tasks)
      /\ tasks' = Tail(tasks) /\ started' = Append(started, Head(tasks))
      /\ pc' = [pc EXCEPT ![w] = "running"]
      /\ stop' = stop /\ waiting' = waiting /\ calls' = calls
      /\ accepted' = accepted /\ finished' = finished
  BY DEF TakeTask, MayGoOn, NothingLeft, NextTask, IInv, TypeOK
<1>3. Head(tasks) \in Task /\ tasks' \in Seq(Task) /\ started' \in Seq(Task)
  BY <1>1, <1>2, HeadTailProperties, AppendProperties
<1>4. pc' \in [Threads -> {"free", "notify", "stopping", "joining", "gone",
                          "wanted", "asleep", "running", "returned"}]
  BY <1>2 DEF IInv, TypeOK
<1>5. TypeOK'
  <2>1. waiting' = {v \in Workers : pc'[v] = "asleep"}
    BY <1>2 DEF IInv, TypeOK, Threads
  <2>2. task' \in [Workers -> 0..MaxTasks]
    BY <1>2, <1>3 DEF IInv, TypeOK, Task
  <2> QED
    BY <1>2, <1>3, <1>4, <2>1, <2>2 DEF IInv, TypeOK, Task
<1>6. TasksRunOnceInOrder'
  <2>1. started' \o tasks' = started \o tasks
    BY <1>1, <1>2, MoveHead
  <2> QED
    BY <1>2, <2>1 DEF IInv, TasksRunOnceInOrder
<1>7. NothingDropped'
  <2>1. ElementsOf(tasks) = {Head(tasks)} \cup ElementsOf(tasks')
    BY <1>1, <1>2, ElementsHeadTail
  <2>2. Busy' = Busy \cup {w} /\ w \notin Busy
    BY <1>2 DEF Busy, IInv, TypeOK, Threads
  <2>3. {task'[v] : v \in Busy'} = {task[v] : v \in Busy} \cup {Head(tasks)}
    <3>1. \A v \in Busy : task'[v] = task[v]
      BY <1>2, <2>2 DEF Busy, IInv, TypeOK
    <3> QED
      BY <1>2, <2>2, <3>1
  <2>4. ElementsOf(tasks)' = ElementsOf(tasks')
    BY DEF ElementsOf
  <2> QED
    BY <1>2, <2>1, <2>3, <2>4 DEF IInv, NothingDropped
<1>8. Places'
  <2>1. \A v \in Workers : pc[v] # "returned"
    BY <1>2 DEF IInv, Places
  <2>2. pc'[Owner] = pc[Owner]
        /\ \A v \in Workers : pc'[v] \in {"wanted", "asleep", "running", "notify"}
    BY <1>2, <2>1 DEF IInv, TypeOK, Places, Threads
  <2>3. pc[Owner] # "gone"
    BY <2>1 DEF IInv, Places, AllReturned
  <2> QED
    BY <1>2, <2>2, <2>3 DEF IInv, Places
<1>9. NoLostWakeup'
  <2>1. w \notin waiting'
    BY <1>2 DEF IInv, TypeOK
  <2> QED
    BY <2>1 DEF NoLostWakeup
<1> QED
  BY <1>5, <1>6, <1>7, <1>8, <1>9 DEF IInv

LEMMA FinishTaskIInv ==
  ASSUME IInv, NEW w \in Workers, FinishTask(w)
  PROVE  IInv'
<1> USE SimpleThreadPoolAssumption
<1>1. /\ pc[w] = "running" /\ pc' = [pc EXCEPT ![w] = "wanted"]
      /\ finished' = finished \cup {task[w]}
      /\ tasks' = tasks /\ stop' = stop /\ waiting' = waiting /\ task' = task
      /\ calls' = calls /\ accepted' = accepted /\ started' = started
  BY DEF FinishTask
<1>2. Busy = Busy' \cup {w}
  BY <1>1 DEF Busy, IInv, TypeOK, Threads
<1>3. {task[v] : v \in Busy} = {task[v] : v \in Busy'} \cup {task[w]}
  BY <1>2
<1>4. NothingDropped'
  <2>1. ElementsOf(tasks)' = ElementsOf(tasks) /\ {task'[v] : v \in Busy'} = {task[v] : v \in Busy'}
    BY <1>1 DEF ElementsOf
  <2> QED
    BY <1>1, <1>3, <2>1 DEF IInv, NothingDropped
<1>5. TypeOK'
  <2>1. waiting' = {v \in Workers : pc'[v] = "asleep"}
    BY <1>1 DEF IInv, TypeOK, Threads
  <2>2. pc' \in [Threads -> {"free", "notify", "stopping", "joining", "gone",
                            "wanted", "asleep", "running", "returned"}]
    BY <1>1 DEF IInv, TypeOK
  <2>3. finished' \subseteq accepted'
    BY <1>1, <1>3 DEF IInv, TypeOK, NothingDropped
  <2> QED
    BY <1>1, <2>1, <2>2, <2>3 DEF IInv, TypeOK
<1>6. TasksRunOnceInOrder'
  BY <1>1 DEF IInv, TasksRunOnceInOrder
<1>7. Places'
  <2>1. pc'[Owner] = pc[Owner] /\ pc[w] # "returned" /\ pc'[w] = "wanted"
    BY <1>1 DEF IInv, TypeOK, Threads
  <2>2. \A v \in Workers : v # w => pc'[v] = pc[v]
    BY <1>1 DEF IInv, TypeOK, Threads
  <2>3. pc[Owner] # "gone"
    BY <2>1 DEF IInv, Places, AllReturned
  <2> QED
    BY <1>1, <2>1, <2>2, <2>3 DEF IInv, Places
<1>8. NoLostWakeup'
  BY <1>1 DEF IInv, TypeOK, NoLostWakeup
<1> QED
  BY <1>4, <1>5, <1>6, <1>7, <1>8 DEF IInv

(* A step that leaves the tasks alone, and starts and ends none. *)
LEMMA SameTasks ==
  ASSUME IInv, UNCHANGED <<tasks, task, calls, accepted, started, finished>>, Busy' = Busy
  PROVE  TasksRunOnceInOrder' /\ NothingDropped'
<1>1. ElementsOf(tasks)' = ElementsOf(tasks) /\ {task'[w] : w \in Busy'} = {task[w] : w \in Busy}
  BY DEF ElementsOf
<1> QED
  BY <1>1 DEF IInv, TasksRunOnceInOrder, NothingDropped

LEMMA NotifyOneIInv ==
  ASSUME IInv, NEW t \in Threads, NotifyOne(t)
  PROVE  IInv'
<1> USE SimpleThreadPoolAssumption
<1>1. /\ pc[t] = "notify" /\ stop' = stop
      /\ UNCHANGED <<tasks, task, calls, accepted, started, finished>>
  BY DEF NotifyOne
<1>2. \E woken \in SUBSET waiting :
        /\ waiting' = waiting \ woken
        /\ waiting = {} \/ woken # {}
        /\ pc' = [v \in Threads |-> IF v = t THEN Resume(t)
                                   ELSE IF v \in woken THEN "wanted" ELSE pc[v]]
  <2>1. CASE waiting = {} /\ pc' = [pc EXCEPT ![t] = Resume(t)] /\ UNCHANGED waiting
    <3>1. pc' = [v \in Threads |-> IF v = t THEN Resume(t)
                                  ELSE IF v \in {} THEN "wanted" ELSE pc[v]]
      BY <2>1 DEF IInv, TypeOK
    <3>2. {} \in SUBSET waiting /\ waiting' = waiting \ {} /\ waiting = {}
      BY <2>1
    <3> QED
      BY <3>1, <3>2, Zenon
  <2>2. ASSUME NEW w \in waiting, waiting' = waiting \ {w},
               pc' = [pc EXCEPT ![t] = Resume(t), ![w] = "wanted"]
        PROVE  <1>2
    <3>1. w # t /\ w \in Threads
      BY <1>1, <2>2 DEF IInv, TypeOK, Threads
    <3>2. pc' = [v \in Threads |-> IF v = t THEN Resume(t)
                                  ELSE IF v \in {w} THEN "wanted" ELSE pc[v]]
      BY <2>2, <3>1 DEF IInv, TypeOK
    <3> QED
      BY <2>2, <3>2
  <2> QED
    BY <2>1, <2>2 DEF NotifyOne
<1>3. PICK woken \in SUBSET waiting :
        /\ waiting' = waiting \ woken
        /\ waiting = {} \/ woken # {}
        /\ pc' = [v \in Threads |-> IF v = t THEN Resume(t)
                                   ELSE IF v \in woken THEN "wanted" ELSE pc[v]]
  BY <1>2
<1>4. /\ t \notin waiting /\ \A v \in woken : v \in Workers /\ pc[v] = "asleep"
      /\ Resume(t) = IF t = Owner THEN "free" ELSE "running"
  BY <1>1 DEF IInv, TypeOK, Resume
<1>5. Busy' = Busy
  BY <1>1, <1>3, <1>4 DEF Busy, IInv, TypeOK, Threads
<1>6. TypeOK'
  <2>1. pc' \in [Threads -> {"free", "notify", "stopping", "joining", "gone",
                            "wanted", "asleep", "running", "returned"}]
    BY <1>3, <1>4 DEF IInv, TypeOK
  <2>2. waiting' = {v \in Workers : pc'[v] = "asleep"}
    BY <1>3, <1>4 DEF IInv, TypeOK, Threads
  <2> QED
    BY <1>1, <2>1, <2>2 DEF IInv, TypeOK
<1>7. Places'
  <2>1. pc'[Owner] = (IF t = Owner THEN "free" ELSE pc[Owner])
    BY <1>3, <1>4 DEF Threads
  <2>2. \A v \in Workers : pc'[v] \in {"wanted", "running"} \/ pc'[v] = pc[v]
    BY <1>3, <1>4 DEF Threads
  <2>3. \A v \in Workers : pc[v] = "returned" => pc'[v] = "returned"
    BY <1>1, <1>3, <1>4 DEF Threads
  <2> QED
    BY <1>1, <2>1, <2>2, <2>3 DEF IInv, Places, AllReturned
<1>8. NoLostWakeup'
  BY <1>3 DEF IInv, TypeOK, NoLostWakeup
<1> QED
  BY <1>1, <1>5, <1>6, <1>7, <1>8, SameTasks DEF IInv

(* A worker falls asleep, only when nothing is queued, or wakes up by itself. *)
LEMMA SleepIInv ==
  ASSUME IInv, NEW w \in Workers, Sleep(w) \/ WakesUpByItself(w)
  PROVE  IInv'
<1> USE SimpleThreadPoolAssumption
<1>1. /\ UNCHANGED <<tasks, task, calls, accepted, started, finished>> /\ stop' = stop
      /\ pc[w] \in {"wanted", "asleep"}
      /\ \/ /\ pc' = [pc EXCEPT ![w] = "asleep"] /\ waiting' = waiting \cup {w}
            /\ tasks = <<>>
         \/ pc' = [pc EXCEPT ![w] = "wanted"] /\ waiting' = waiting \ {w}
  BY DEF Sleep, WakesUpByItself, MayGoOn, IInv, TypeOK
<1>2. w # Owner /\ w \in Threads
  BY DEF Threads
<1>3. Busy' = Busy
  BY <1>1 DEF Busy, IInv, TypeOK, Threads
<1>4. TypeOK'
  <2>1. pc' \in [Threads -> {"free", "notify", "stopping", "joining", "gone",
                            "wanted", "asleep", "running", "returned"}]
    BY <1>1 DEF IInv, TypeOK
  <2>2. waiting' = {v \in Workers : pc'[v] = "asleep"}
    BY <1>1, <1>2 DEF IInv, TypeOK, Threads
  <2> QED
    BY <1>1, <2>1, <2>2 DEF IInv, TypeOK
<1>5. Places'
  <2>1. pc'[Owner] = pc[Owner] /\ pc'[w] \in {"wanted", "asleep"} /\ pc[w] # "returned"
    BY <1>1, <1>2 DEF IInv, TypeOK, Threads
  <2>2. \A v \in Workers : v # w => pc'[v] = pc[v]
    BY <1>1 DEF IInv, TypeOK, Threads
  <2>3. pc[Owner] # "gone"
    BY <2>1 DEF IInv, Places, AllReturned
  <2> QED
    BY <1>1, <2>1, <2>2, <2>3 DEF IInv, Places
<1>6. NoLostWakeup'
  BY <1>1 DEF IInv, TypeOK, NoLostWakeup
<1> QED
  BY <1>1, <1>3, <1>4, <1>5, <1>6, SameTasks DEF IInv

LEMMA ReturnIInv ==
  ASSUME IInv, NEW w \in Workers, Return(w)
  PROVE  IInv'
<1> USE SimpleThreadPoolAssumption
<1>1. /\ UNCHANGED <<tasks, task, calls, accepted, started, finished>> /\ stop' = stop
      /\ pc[w] = "wanted" /\ pc' = [pc EXCEPT ![w] = "returned"] /\ waiting' = waiting
      /\ stop /\ tasks = <<>>
  BY DEF Return, NothingLeft
<1>2. w # Owner /\ w \in Threads
  BY DEF Threads
<1>3. Busy' = Busy
  BY <1>1 DEF Busy, IInv, TypeOK, Threads
<1>4. TypeOK'
  <2>1. pc' \in [Threads -> {"free", "notify", "stopping", "joining", "gone",
                            "wanted", "asleep", "running", "returned"}]
    BY <1>1 DEF IInv, TypeOK
  <2>2. waiting' = {v \in Workers : pc'[v] = "asleep"}
    BY <1>1, <1>2 DEF IInv, TypeOK, Threads
  <2> QED
    BY <1>1, <2>1, <2>2 DEF IInv, TypeOK
<1>5. Places'
  <2>1. pc'[Owner] = pc[Owner] /\ pc'[w] = "returned"
    BY <1>1, <1>2 DEF IInv, TypeOK, Threads
  <2>2. \A v \in Workers : v # w => pc'[v] = pc[v]
    BY <1>1 DEF IInv, TypeOK, Threads
  <2>3. pc[Owner] # "gone"
    BY <1>1 DEF IInv, Places, AllReturned
  <2> QED
    BY <1>1, <2>1, <2>2, <2>3 DEF IInv, Places
<1>6. NoLostWakeup'
  BY <1>1 DEF NoLostWakeup
<1> QED
  BY <1>1, <1>3, <1>4, <1>5, <1>6, SameTasks DEF IInv

(* SetStop and Join move the owner alone. *)
LEMMA OwnerIInv ==
  ASSUME IInv, SetStop \/ Join
  PROVE  IInv'
<1> USE SimpleThreadPoolAssumption
<1>1. /\ UNCHANGED <<tasks, task, calls, accepted, started, finished>> /\ waiting' = waiting
      /\ \/ pc[Owner] = "free" /\ pc' = [pc EXCEPT ![Owner] = "stopping"] /\ stop' = TRUE
         \/ /\ pc[Owner] = "joining" /\ pc' = [pc EXCEPT ![Owner] = "gone"] /\ stop' = stop
            /\ AllReturned
  BY DEF SetStop, Join
<1>2. \A w \in Workers : pc'[w] = pc[w]
  BY <1>1 DEF IInv, TypeOK, Threads
<1>3. Busy' = Busy
  BY <1>2 DEF Busy
<1>4. TypeOK'
  <2>1. pc' \in [Threads -> {"free", "notify", "stopping", "joining", "gone",
                            "wanted", "asleep", "running", "returned"}]
    BY <1>1 DEF IInv, TypeOK
  <2>2. waiting' = {v \in Workers : pc'[v] = "asleep"}
    BY <1>1, <1>2 DEF IInv, TypeOK
  <2> QED
    BY <1>1, <2>1, <2>2 DEF IInv, TypeOK
<1>5. Places'
  <2>1. \/ pc[Owner] = "free" /\ pc'[Owner] = "stopping" /\ stop' = TRUE
        \/ pc[Owner] = "joining" /\ pc'[Owner] = "gone" /\ stop' = stop /\ AllReturned
    BY <1>1 DEF IInv, TypeOK, Threads
  <2> QED
    BY <1>1, <1>2, <2>1 DEF IInv, Places, AllReturned
<1>6. NoLostWakeup'
  <2> SUFFICES ASSUME tasks' # <<>>, waiting' = Workers
               PROVE  \E t \in Threads : pc'[t] \in {"notify", "stopping"}
    BY DEF NoLostWakeup
  <2>1. CASE SetStop
    BY <2>1 DEF SetStop, IInv, TypeOK, Threads
  <2>2. CASE Join
    BY <1>1, <2>2 DEF Join, AllReturned, IInv, TypeOK
  <2> QED
    BY <2>1, <2>2
<1> QED
  BY <1>1, <1>3, <1>4, <1>5, <1>6, SameTasks DEF IInv

LEMMA NotifyAllIInv == IInv /\ NotifyAll => IInv'
<1> SUFFICES ASSUME IInv, NotifyAll PROVE IInv'
  OBVIOUS
<1> USE SimpleThreadPoolAssumption
<1>1. /\ UNCHANGED <<tasks, task, calls, accepted, started, finished>> /\ stop' = stop
      /\ pc[Owner] = "stopping" /\ waiting' = {}
      /\ pc' = [t \in Threads |-> IF t = Owner THEN "joining"
                                 ELSE IF t \in waiting THEN "wanted" ELSE pc[t]]
  BY DEF NotifyAll, WokenAtStop
<1>2. Busy' = Busy
  BY <1>1 DEF Busy, IInv, TypeOK, Threads
<1>3. TypeOK'
  <2>1. pc' \in [Threads -> {"free", "notify", "stopping", "joining", "gone",
                            "wanted", "asleep", "running", "returned"}]
    BY <1>1 DEF IInv, TypeOK
  <2>2. waiting' = {v \in Workers : pc'[v] = "asleep"}
    BY <1>1 DEF IInv, TypeOK, Threads
  <2> QED
    BY <1>1, <2>1, <2>2 DEF IInv, TypeOK
<1>4. Places'
  <2>1. pc'[Owner] = "joining"
    BY <1>1 DEF Threads
  <2>2. \A v \in Workers : pc'[v] = "wanted" \/ pc'[v] = pc[v]
    BY <1>1 DEF Threads
  <2> QED
    BY <1>1, <2>1, <2>2 DEF IInv, Places
<1>5. NoLostWakeup'
  BY <1>1 DEF NoLostWakeup
<1> QED
  BY <1>1, <1>2, <1>3, <1>4, <1>5, SameTasks DEF IInv

(* An enqueue() that throws, and a stuttering step, change only calls. *)
LEMMA NothingIInv ==
  ASSUME IInv, (\E t \in Threads : EnqueueThrows(t)) \/ UNCHANGED vars
  PROVE  IInv'
<1>1. /\ UNCHANGED <<tasks, stop, waiting, pc, task, accepted, started, finished>>
      /\ calls' \in 0..MaxTasks /\ calls' >= calls
  BY SimpleThreadPoolAssumption DEF EnqueueThrows, vars, IInv, TypeOK
<1>2. TypeOK'
  BY <1>1, SimpleThreadPoolAssumption DEF IInv, TypeOK
<1>3. NothingDropped'
  BY <1>1 DEF IInv, NothingDropped, Busy, ElementsOf
<1> QED
  BY <1>1, <1>2, <1>3
  DEF IInv, TasksRunOnceInOrder, Places, AllReturned, NoLostWakeup

LEMMA NextIInv == IInv /\ [Next]_vars => IInv'
BY EnqueueIInv, TakeTaskIInv, FinishTaskIInv, NotifyOneIInv, SleepIInv, ReturnIInv, OwnerIInv,
   NotifyAllIInv, NothingIInv
DEF Next, Worker, Destructor

THEOREM PoolInductive == Spec => []IInv
BY InitIInv, NextIInv, PTL DEF Spec

(* No worker waits that is not listed as waiting, and nothing is finished   *)
(* that was not accepted, for any number of workers and tasks.              *)
THEOREM PoolTypeCorrect == Spec => []TypeOK
<1>1. IInv => TypeOK
  BY DEF IInv
<1> QED
  BY <1>1, PoolInductive, PTL

(* Every accepted task is taken once, in the order of the enqueue() calls. *)
THEOREM PoolKeepsOrder == Spec => []TasksRunOnceInOrder
<1>1. IInv => TasksRunOnceInOrder
  BY DEF IInv
<1> QED
  BY <1>1, PoolInductive, PTL

(* When ~simple_thread_pool() has returned, every accepted task has run. *)
THEOREM PoolDrains == Spec => []DestructorDrains
<1>1. IInv => DestructorDrains
  <2> SUFFICES ASSUME IInv, pc[Owner] = "gone" PROVE finished = accepted
    BY DEF DestructorDrains
  <2>1. AllReturned
    BY DEF IInv, Places
  <2>2. Busy = {}
    BY <2>1 DEF Busy, AllReturned
  <2>3. tasks = <<>>
    BY <2>1, SimpleThreadPoolAssumption DEF AllReturned, IInv, Places
  <2>4. ElementsOf(tasks) = {}
    <3>1. Len(<<>>) = 0 /\ 1..0 = {}
      OBVIOUS
    <3> QED
      BY <2>3, <3>1 DEF ElementsOf
  <2> QED
    BY <2>2, <2>4 DEF IInv, NothingDropped
<1> QED
  BY <1>1, PoolInductive, PTL

(* No wake-up is lost between enqueue()'s unlock and its notify_one(). *)
THEOREM PoolLosesNoWakeup == Spec => []NoLostWakeup
<1>1. IInv => NoLostWakeup
  BY DEF IInv
<1> QED
  BY <1>1, PoolInductive, PTL
=============================================================================
