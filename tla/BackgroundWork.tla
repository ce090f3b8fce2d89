--------------------------- MODULE BackgroundWork ---------------------------
(***************************************************************************)
(* The background thread of class env (db/env.h): Schedule puts a work     *)
(* item into bg_queue and posts a semaphore; a detached thread, started by *)
(* the first call, waits for the semaphore, takes an item and runs it.     *)
(*                                                                         *)
(* Any number of threads call Schedule.  The flag that tells whether the   *)
(* background thread was started is read and written without the mutex, so *)
(* callers that meet there start several.  The thread that runs an item    *)
(* holds bg_queue_mutex while it does.                                     *)
(***************************************************************************)
EXTENDS Integers, FiniteSets, Sequences, SequencesExt

CONSTANTS
  Caller,      \* the threads that call Schedule
  Worker,      \* the background threads that may be started
  Item,        \* the work items; each is scheduled at most once
  Reschedules, \* the items whose function calls Schedule itself
  SemStarts,   \* what the semaphore, which nothing initialises, may start at
  Nobody       \* the holder of a free mutex

ASSUME WorkAssumption ==
  /\ Caller \cap Worker = {} /\ IsFiniteSet(Worker)
  /\ Nobody \notin Caller \cup Worker \cup Item
  /\ Reschedules \subseteq Item
  /\ SemStarts \subseteq Nat

Thread == Caller \cup Worker

VARIABLES
  pc,       \* where each thread is
  mutex,    \* the holder of bg_queue_mutex
  queue,    \* bg_queue
  sem,      \* the value of bg_queue_semaphore
  semStart, \* the value it happened to start at
  started,  \* is_background_thread_started
  item,     \* the item each thread is scheduling or running, or Nobody
  pushed,   \* every item pushed, in order
  done,     \* the items whose function has returned, in order
  failed    \* the calls that have failed: of "sem_wait", of std::thread's constructor

vars == <<pc, mutex, queue, sem, semStart, started, item, pushed, done, failed>>

Init ==
  /\ pc = [t \in Thread |-> IF t \in Caller THEN "idle" ELSE "unborn"]
  /\ mutex = Nobody
  /\ queue = <<>>
  /\ semStart \in SemStarts
  /\ sem = semStart
  /\ started = FALSE
  /\ item = [t \in Thread |-> Nobody]
  /\ pushed = <<>>
  /\ done = <<>>
  /\ failed = {}

Goto(t, there) == pc' = [pc EXCEPT ![t] = there]

-----------------------------------------------------------------------------
(* Schedule, called by thread c.                                           *)

Call(c, i) ==
  /\ pc[c] = "idle"
  /\ i \notin ToSet(pushed)
  /\ \A t \in Thread : item[t] # i
  /\ item' = [item EXCEPT ![c] = i]
  /\ Goto(c, "lock")
  /\ UNCHANGED <<mutex, queue, sem, semStart, started, pushed, done, failed>>

\* Nobody sees the queue while the mutex is held: lock and push are one step.
Push(c) ==
  /\ pc[c] = "lock"
  /\ mutex = Nobody
  /\ mutex' = c
  /\ queue' = Append(queue, item[c])
  /\ pushed' = Append(pushed, item[c])
  /\ Goto(c, "post")
  /\ UNCHANGED <<sem, semStart, started, item, done, failed>>

\* Mistakes: an item is announced twice, or not at all.
PostTwice(c) ==
  /\ pc[c] = "post"
  /\ sem' = sem + 2
  /\ Goto(c, "unlock")
  /\ UNCHANGED <<mutex, queue, semStart, started, item, pushed, done, failed>>

PostLost(c) ==
  /\ pc[c] = "post"
  /\ Goto(c, "unlock")
  /\ UNCHANGED <<mutex, queue, sem, semStart, started, item, pushed, done, failed>>

\* The semaphore is posted with the mutex still held.
Post(c) ==
  /\ pc[c] = "post"
  /\ sem' = sem + 1
  /\ Goto(c, "unlock")
  /\ UNCHANGED <<mutex, queue, semStart, started, item, pushed, done, failed>>

Unlock(c) ==
  /\ pc[c] = "unlock"
  /\ mutex' = Nobody
  /\ item' = [item EXCEPT ![c] = Nobody]
  /\ Goto(c, "test")
  /\ UNCHANGED <<queue, sem, semStart, started, pushed, done, failed>>

\* Mistake: the test is the wrong way round.
TestStartedInverted(c) ==
  /\ pc[c] = "test"
  /\ Goto(c, IF started THEN "set" ELSE "idle")
  /\ UNCHANGED <<mutex, queue, sem, semStart, started, item, pushed, done, failed>>

TestStarted(c) ==
  /\ pc[c] = "test"
  /\ Goto(c, IF started THEN "idle" ELSE "set")
  /\ UNCHANGED <<mutex, queue, sem, semStart, started, item, pushed, done, failed>>

SetStarted(c) ==
  /\ pc[c] = "set"
  /\ started' = TRUE
  /\ Goto(c, "spawn")
  /\ UNCHANGED <<mutex, queue, sem, semStart, item, pushed, done, failed>>

Spawn(c, w) ==
  /\ pc[c] = "spawn"
  /\ pc[w] = "unborn"
  /\ pc' = [pc EXCEPT ![c] = "idle", ![w] = "wait"]
  /\ UNCHANGED <<mutex, queue, sem, semStart, started, item, pushed, done, failed>>

\* The constructor of std::thread throws, out of Schedule: the flag stays set, and
\* nobody will try again.
SpawnFails(c) ==
  /\ pc[c] = "spawn"
  /\ failed' = failed \cup {"thread"}
  /\ Goto(c, "idle")
  /\ UNCHANGED <<mutex, queue, sem, semStart, started, item, pushed, done>>

-----------------------------------------------------------------------------
(* BackgroundThreadMain, in thread w.                                      *)

\* Mistake: the thread does not wait.
SemWaitUnguarded(w) ==
  /\ pc[w] = "wait"
  /\ sem' = sem - 1
  /\ Goto(w, "woken")
  /\ UNCHANGED <<mutex, queue, semStart, started, item, pushed, done, failed>>

SemWait(w) ==
  /\ pc[w] = "wait"
  /\ sem > 0
  /\ sem' = sem - 1
  /\ Goto(w, "woken")
  /\ UNCHANGED <<mutex, queue, semStart, started, item, pushed, done, failed>>

\* sem_wait fails, interrupted by a signal, say.  Nobody looks at its result: the
\* thread goes on as if it had been given a token.
SemWaitFails(w) ==
  /\ pc[w] = "wait"
  /\ failed' = failed \cup {"sem_wait"}
  /\ Goto(w, "woken")
  /\ UNCHANGED <<mutex, queue, sem, semStart, started, item, pushed, done>>

\* Mistake: the item pushed last is taken first.
TakeLast(w) ==
  /\ pc[w] = "woken"
  /\ mutex = Nobody
  /\ queue # <<>>
  /\ mutex' = w
  /\ item' = [item EXCEPT ![w] = queue[Len(queue)]]
  /\ queue' = SubSeq(queue, 1, Len(queue) - 1)
  /\ Goto(w, "run")
  /\ UNCHANGED <<sem, semStart, started, pushed, done, failed>>

\* The lock_guard is taken before the queue is looked at ...
Take(w) ==
  /\ pc[w] = "woken"
  /\ mutex = Nobody
  /\ queue # <<>>
  /\ mutex' = w
  /\ item' = [item EXCEPT ![w] = Head(queue)]
  /\ queue' = Tail(queue)
  /\ Goto(w, "run")
  /\ UNCHANGED <<sem, semStart, started, pushed, done, failed>>

\* ... and front() of an empty queue is undefined: the thread is lost.
TakeFromEmpty(w) ==
  /\ pc[w] = "woken"
  /\ mutex = Nobody
  /\ queue = <<>>
  /\ mutex' = w
  /\ Goto(w, "undefined")
  /\ UNCHANGED <<queue, sem, semStart, started, item, pushed, done, failed>>

\* Mistake: the mutex is not released.
ReturnLocked(w) ==
  /\ pc[w] = "run"
  /\ item[w] \notin Reschedules
  /\ done' = Append(done, item[w])
  /\ item' = [item EXCEPT ![w] = Nobody]
  /\ Goto(w, "wait")
  /\ UNCHANGED <<mutex, queue, sem, semStart, started, pushed, failed>>

\* The function returns; the lock_guard goes out of scope.
Return(w) ==
  /\ pc[w] = "run"
  /\ item[w] \notin Reschedules
  /\ done' = Append(done, item[w])
  /\ item' = [item EXCEPT ![w] = Nobody]
  /\ mutex' = Nobody
  /\ Goto(w, "wait")
  /\ UNCHANGED <<queue, sem, semStart, started, pushed, failed>>

\* The function calls Schedule, which locks the mutex its own thread holds: a
\* std::mutex is not recursive, the call never comes back.
Relock(w) ==
  /\ pc[w] = "run"
  /\ item[w] \in Reschedules
  /\ Goto(w, "relock")
  /\ UNCHANGED <<mutex, queue, sem, semStart, started, item, pushed, done, failed>>

-----------------------------------------------------------------------------
ScheduleStep(c) ==
  \/ Push(c) \/ Post(c) \/ Unlock(c) \/ TestStarted(c) \/ SetStarted(c)
  \/ \E w \in Worker : Spawn(c, w)

WorkerStep(w) ==
  SemWait(w) \/ Take(w) \/ Return(w) \/ Relock(w) \/ TakeFromEmpty(w)

Next ==
  \/ \E c \in Caller : ScheduleStep(c) \/ SpawnFails(c) \/ \E i \in Item : Call(c, i)
  \/ \E w \in Worker : WorkerStep(w) \/ SemWaitFails(w)

Spec == Init /\ [][Next]_vars

\* Every thread that can run does, the mutex and the semaphore let somebody
\* pass again and again, and the functions return.  No call has to fail.
FairSpec ==
  /\ Spec
  /\ \A c \in Caller : SF_vars(ScheduleStep(c))
  /\ \A w \in Worker : SF_vars(WorkerStep(w))

-----------------------------------------------------------------------------
TypeOK ==
  /\ pc \in [Thread -> {"idle", "lock", "post", "unlock", "test", "set", "spawn",
                        "unborn", "wait", "woken", "run", "relock", "undefined"}]
  /\ mutex \in Thread \cup {Nobody}
  /\ queue \in Seq(Item)
  /\ sem \in Nat /\ semStart \in Nat
  /\ started \in BOOLEAN
  /\ item \in [Thread -> Item \cup {Nobody}]
  /\ pushed \in Seq(Item)
  /\ done \in Seq(Item)
  /\ failed \subseteq {"sem_wait", "thread"}

\* What the thread that holds the mutex is running, as a sequence.
Running ==
  IF mutex \in Worker /\ item[mutex] # Nobody THEN <<item[mutex]>> ELSE <<>>

\* The items run one at a time and in the order in which they were scheduled,
\* none twice and none lost, however many background threads there are.
RunInOrder == done \o Running \o queue = pushed

\* A background thread that was woken finds an item, provided the semaphore
\* happened to start at 0 and no sem_wait has failed: for each token there is an
\* item in the queue, whichever thread consumed the one before it.
NeverTakesFromEmpty ==
  semStart = 0 /\ "sem_wait" \notin failed => \A w \in Worker : pc[w] # "undefined"

\* Once the first call of Schedule has returned there is a thread to do the
\* work: a caller that finds the flag set relies on somebody else's thread.  It
\* does so in vain when that thread could not be created.
SomeoneIsWorking ==
  (\A c \in Caller : pc[c] = "idle") /\ pushed # <<>> /\ "thread" \notin failed =>
    \E w \in Worker : pc[w] # "unborn"

\* A background thread is lost: in an item that reschedules, or in the front()
\* of an empty queue.  It keeps the mutex.
WorkerLost == \E w \in Worker : pc[w] \in {"relock", "undefined"}

\* No background thread was ever started, the creation of one having failed.
NobodyStarted == "thread" \in failed /\ \A w \in Worker : pc[w] = "unborn"

\* Every scheduled item is run to its end, unless a background thread is lost or
\* none could be created.
EveryItemRuns ==
  \A i \in Item :
    i \in ToSet(pushed) ~> i \in ToSet(done) \/ WorkerLost \/ NobodyStarted

\* Every call of Schedule returns, although it may have to wait for a whole
\* work item: it is delayed, but only by a lost thread stopped.
ScheduleReturns ==
  \A c \in Caller : pc[c] = "lock" ~> pc[c] = "idle" \/ WorkerLost

=============================================================================
