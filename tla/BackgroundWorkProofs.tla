------------------------ MODULE BackgroundWorkProofs ------------------------
(***************************************************************************)
(* Proofs about BackgroundWork, for any number of callers, of background   *)
(* threads and of items: the order in which the items run, and the tokens  *)
(* of the semaphore.                                                       *)
(***************************************************************************)
EXTENDS BackgroundWork, FiniteSetTheorems, TLAPS

\* Where each kind of thread can be, and who holds the mutex there.
CallerPlaces == {"idle", "lock", "post", "unlock", "test", "set", "spawn"}
WorkerPlaces == {"unborn", "wait", "woken", "run", "relock", "undefined"}
Holding      == {"post", "unlock", "run", "relock", "undefined"}

Places ==
  /\ \A c \in Caller : pc[c] \in CallerPlaces
  /\ \A w \in Worker : pc[w] \in WorkerPlaces
  /\ \A t \in Thread : mutex = t <=> pc[t] \in Holding
  /\ \A c \in Caller : pc[c] \in {"lock", "post", "unlock"} => item[c] \in Item
  /\ \A w \in Worker : item[w] # Nobody <=> pc[w] \in {"run", "relock"}

\* The threads that took a token and have not taken the item yet.
Woken == {w \in Worker : pc[w] = "woken"}

\* The item that is in the queue without having a token yet.
Unannounced == IF \E c \in Caller : pc[c] = "post" THEN 1 ELSE 0

Tokens ==
  semStart = 0 /\ "sem_wait" \notin failed =>
    /\ Len(queue) = sem + Cardinality(Woken) + Unannounced
    /\ NeverTakesFromEmpty

\* Between its push and the test of the flag, a caller has yet to look after a
\* thread for its item.
Minding == {"post", "unlock", "test", "set"}

\* Once the flag is set there is a thread, a caller about to start one, or one that
\* failed to; before
\* it is set, a caller that has pushed is still on its way to the flag.
Startup ==
  /\ started => \/ \E w \in Worker : pc[w] # "unborn"
                \/ \E c \in Caller : pc[c] = "spawn"
                \/ "thread" \in failed
  /\ pushed # <<>> => started \/ \E c \in Caller : pc[c] \in Minding

IInv == TypeOK /\ Places /\ RunInOrder /\ Tokens /\ Startup

LEMMA WokenIsFinite ==
  IsFiniteSet(Woken) /\ Cardinality(Woken) \in Nat
BY WorkAssumption, FS_Subset, FS_CardinalityType DEF Woken

LEMMA InitEstablishesIInv == Init => IInv
<1> SUFFICES ASSUME Init PROVE IInv
  OBVIOUS
<1>1. TypeOK
  <2>1. pc \in [Thread -> {"idle", "lock", "post", "unlock", "test", "set", "spawn",
                          "unborn", "wait", "woken", "run", "relock", "undefined"}]
    BY DEF Init
  <2>2. item \in [Thread -> Item \cup {Nobody}]
    BY DEF Init
  <2>3. semStart \in Nat /\ sem = semStart
    BY WorkAssumption DEF Init
  <2>4. queue = <<>> /\ pushed = <<>> /\ done = <<>> /\ started = FALSE /\ mutex = Nobody
    BY DEF Init
  <2>5. mutex \in Thread \cup {Nobody} /\ sem \in Nat /\ started \in BOOLEAN
    BY <2>3, <2>4
  <2>6. queue \in Seq(Item) /\ pushed \in Seq(Item) /\ done \in Seq(Item)
    BY <2>4
  <2>7. failed \subseteq {"sem_wait", "thread"}
    BY DEF Init
  <2> QED BY <2>1, <2>2, <2>3, <2>5, <2>6, <2>7, Zenon DEF TypeOK
<1>2. Places
  BY WorkAssumption DEF Init, Places, Thread, CallerPlaces, WorkerPlaces, Holding
<1>3. RunInOrder
  BY WorkAssumption DEF Init, RunInOrder, Running
<1>4. Woken = {} /\ Unannounced = 0 /\ NeverTakesFromEmpty
  BY WorkAssumption DEF Init, Woken, Unannounced, NeverTakesFromEmpty, Thread
<1>5. Tokens
  BY <1>4, FS_EmptySet DEF Tokens, Init
<1>6. Startup
  BY DEF Init, Startup
<1> QED BY <1>1, <1>2, <1>3, <1>5, <1>6 DEF IInv

\* The part of the invariant that every step keeps in the same way: who is
\* where.
LEMMA PlacesStep == TypeOK /\ Places /\ Next => TypeOK' /\ Places'
<1> SUFFICES ASSUME TypeOK, Places, Next PROVE TypeOK' /\ Places'
  OBVIOUS
<1> USE WorkAssumption DEF TypeOK, Places, Thread, CallerPlaces, WorkerPlaces, Holding, Goto
<1>1. ASSUME NEW c \in Caller, NEW i \in Item, Call(c, i) PROVE TypeOK' /\ Places'
  BY <1>1 DEF Call
<1>2. ASSUME NEW c \in Caller, Push(c) PROVE TypeOK' /\ Places'
  BY <1>2 DEF Push
<1>3. ASSUME NEW c \in Caller, Post(c) PROVE TypeOK' /\ Places'
  BY <1>3 DEF Post
<1>4. ASSUME NEW c \in Caller, Unlock(c) PROVE TypeOK' /\ Places'
  BY <1>4 DEF Unlock
<1>5. ASSUME NEW c \in Caller, TestStarted(c) PROVE TypeOK' /\ Places'
  BY <1>5 DEF TestStarted
<1>6. ASSUME NEW c \in Caller, SetStarted(c) PROVE TypeOK' /\ Places'
  BY <1>6 DEF SetStarted
<1>7. ASSUME NEW c \in Caller, NEW w \in Worker, Spawn(c, w) PROVE TypeOK' /\ Places'
  BY <1>7 DEF Spawn
<1>8. ASSUME NEW w \in Worker, SemWait(w) PROVE TypeOK' /\ Places'
  BY <1>8 DEF SemWait
<1>9. ASSUME NEW w \in Worker, Take(w) PROVE TypeOK' /\ Places'
  BY <1>9 DEF Take
<1>10. ASSUME NEW w \in Worker, Return(w) PROVE TypeOK' /\ Places'
  BY <1>10 DEF Return
<1>11. ASSUME NEW w \in Worker, Relock(w) PROVE TypeOK' /\ Places'
  BY <1>11 DEF Relock
<1>12. ASSUME NEW w \in Worker, TakeFromEmpty(w) PROVE TypeOK' /\ Places'
  BY <1>12 DEF TakeFromEmpty
<1>13. ASSUME NEW c \in Caller, SpawnFails(c) PROVE TypeOK' /\ Places'
  BY <1>13 DEF SpawnFails
<1>14. ASSUME NEW w \in Worker, SemWaitFails(w) PROVE TypeOK' /\ Places'
  BY <1>14 DEF SemWaitFails
<1> QED BY <1>1, <1>2, <1>3, <1>4, <1>5, <1>6, <1>7, <1>8, <1>9, <1>10, <1>11, <1>12, <1>13,
           <1>14
        DEF Next, ScheduleStep, WorkerStep

-----------------------------------------------------------------------------
(* The order of the items.                                                 *)

LEMMA PushedLast ==
  ASSUME NEW d \in Seq(Item), NEW q \in Seq(Item), NEW p, NEW x \in Item,
         d \o <<>> \o q = p
  PROVE  d \o <<>> \o Append(q, x) = Append(p, x)
<1>1. d \o <<>> = d
  BY SMT
<1>2. d \o Append(q, x) = Append(d \o q, x)
  BY SMT
<1> QED BY <1>1, <1>2

LEMMA HeadRuns ==
  ASSUME NEW d \in Seq(Item), NEW q \in Seq(Item), q # <<>>
  PROVE  d \o <<Head(q)>> \o Tail(q) = d \o <<>> \o q
BY SMT

LEMMA RunningIsDone ==
  ASSUME NEW d \in Seq(Item), NEW q \in Seq(Item), NEW x \in Item
  PROVE  Append(d, x) \o <<>> \o q = d \o <<x>> \o q
BY SMT

\* Only Push, Take and Return disturb what is running or waiting.
LEMMA OrderStep == TypeOK /\ Places /\ RunInOrder /\ Next => RunInOrder'
<1> SUFFICES ASSUME TypeOK, Places, RunInOrder, Next PROVE RunInOrder'
  OBVIOUS
<1> USE WorkAssumption DEF Thread, CallerPlaces, WorkerPlaces, Holding
<1>0. done \in Seq(Item) /\ queue \in Seq(Item) /\ done \o Running \o queue = pushed
  BY DEF TypeOK, RunInOrder
<1>q. ASSUME Running' = Running, UNCHANGED <<done, queue, pushed>> PROVE RunInOrder'
  BY <1>q DEF RunInOrder
<1>1. ASSUME NEW c \in Caller, NEW i \in Item, Call(c, i) PROVE RunInOrder'
  <2>1. Running' = Running
    BY <1>1 DEF Call, Running, TypeOK
  <2> QED BY <1>1, <2>1, <1>q DEF Call
<1>2. ASSUME NEW c \in Caller, Push(c) PROVE RunInOrder'
  <2>1. Running = <<>> /\ Running' = <<>>
    BY <1>2 DEF Push, Running
  <2>2. item[c] \in Item
    BY <1>2 DEF Push, Places
  <2>a. done \o <<>> \o queue = pushed
    BY <1>0, <2>1
  <2>3. done \o <<>> \o Append(queue, item[c]) = Append(pushed, item[c])
    BY <1>0, <2>a, <2>2, PushedLast
  <2> QED BY <1>2, <2>1, <2>3 DEF Push, RunInOrder
<1>3. ASSUME NEW c \in Caller, Post(c) PROVE RunInOrder'
  <2>1. Running' = Running
    BY <1>3 DEF Post, Running
  <2> QED BY <1>3, <2>1, <1>q DEF Post
<1>4. ASSUME NEW c \in Caller, Unlock(c) PROVE RunInOrder'
  <2>1. mutex = c
    BY <1>4 DEF Unlock, Places
  <2>2. Running' = Running
    BY <1>4, <2>1 DEF Unlock, Running
  <2> QED BY <1>4, <2>2, <1>q DEF Unlock
<1>5. ASSUME NEW c \in Caller, TestStarted(c) PROVE RunInOrder'
  <2>1. Running' = Running
    BY <1>5 DEF TestStarted, Running
  <2> QED BY <1>5, <2>1, <1>q DEF TestStarted
<1>6. ASSUME NEW c \in Caller, SetStarted(c) PROVE RunInOrder'
  <2>1. Running' = Running
    BY <1>6 DEF SetStarted, Running
  <2> QED BY <1>6, <2>1, <1>q DEF SetStarted
<1>7. ASSUME NEW c \in Caller, NEW w \in Worker, Spawn(c, w) PROVE RunInOrder'
  <2>1. Running' = Running
    BY <1>7 DEF Spawn, Running
  <2> QED BY <1>7, <2>1, <1>q DEF Spawn
<1>8. ASSUME NEW w \in Worker, SemWait(w) PROVE RunInOrder'
  <2>1. Running' = Running
    BY <1>8 DEF SemWait, Running
  <2> QED BY <1>8, <2>1, <1>q DEF SemWait
<1>9. ASSUME NEW w \in Worker, Take(w) PROVE RunInOrder'
  <2>1. Head(queue) \in Item /\ item'[w] = Head(queue) /\ mutex' = w
    BY <1>9, <1>0 DEF Take, TypeOK
  <2>2. Running = <<>> /\ Running' = <<Head(queue)>>
    BY <1>9, <2>1 DEF Take, Running
  <2>3. done \o <<Head(queue)>> \o Tail(queue) = done \o <<>> \o queue
    BY <1>0, <1>9, HeadRuns DEF Take
  <2> QED BY <1>9, <1>0, <2>2, <2>3 DEF Take, RunInOrder
<1>10. ASSUME NEW w \in Worker, Return(w) PROVE RunInOrder'
  <2>1. mutex = w /\ item[w] \in Item
    BY <1>10 DEF Return, Places, TypeOK
  <2>2. Running = <<item[w]>> /\ Running' = <<>>
    BY <1>10, <2>1 DEF Return, Running
  <2>3. Append(done, item[w]) \o <<>> \o queue = done \o <<item[w]>> \o queue
    BY <1>0, <2>1, RunningIsDone
  <2> QED BY <1>10, <1>0, <2>2, <2>3 DEF Return, RunInOrder
<1>11. ASSUME NEW w \in Worker, Relock(w) PROVE RunInOrder'
  <2>1. Running' = Running
    BY <1>11 DEF Relock, Running
  <2> QED BY <1>11, <2>1, <1>q DEF Relock
<1>12. ASSUME NEW w \in Worker, TakeFromEmpty(w) PROVE RunInOrder'
  <2>1. item[w] = Nobody
    BY <1>12 DEF TakeFromEmpty, Places
  <2>2. Running' = <<>> /\ Running = <<>>
    BY <1>12, <2>1 DEF TakeFromEmpty, Running
  <2> QED BY <1>12, <2>2, <1>q DEF TakeFromEmpty
<1>13. ASSUME NEW c \in Caller, SpawnFails(c) PROVE RunInOrder'
  <2>1. Running' = Running
    BY <1>13 DEF SpawnFails, Running
  <2> QED BY <1>13, <2>1, <1>q DEF SpawnFails
<1>14. ASSUME NEW w \in Worker, SemWaitFails(w) PROVE RunInOrder'
  <2>1. Running' = Running
    BY <1>14 DEF SemWaitFails, Running
  <2> QED BY <1>14, <2>1, <1>q DEF SemWaitFails
<1> QED BY <1>1, <1>2, <1>3, <1>4, <1>5, <1>6, <1>7, <1>8, <1>9, <1>10, <1>11, <1>12, <1>13,
           <1>14
        DEF Next, ScheduleStep, WorkerStep

-----------------------------------------------------------------------------
(* The tokens of the semaphore.                                            *)

\* A thread that was woken can lock the mutex only between two announcements,
\* and then finds an item.
LEMMA WokenFindsAnItem ==
  ASSUME TypeOK, Places, Tokens, semStart = 0, "sem_wait" \notin failed, mutex = Nobody,
         NEW w \in Worker, pc[w] = "woken"
  PROVE  queue # <<>>
<1>1. Len(queue) = sem + Cardinality(Woken) + Unannounced /\ sem \in Nat
  BY DEF Tokens, TypeOK
<1>2. Unannounced \in Nat
  BY DEF Unannounced
<1>3. Cardinality(Woken) \in Nat /\ Cardinality(Woken) # 0
  BY WokenIsFinite, FS_EmptySet DEF Woken
<1>4. Len(queue) # 0
  BY <1>1, <1>2, <1>3
<1> QED BY <1>4

\* The steps that neither take nor give a token, nor touch the queue.
LEMMA TokensUntouched ==
  ASSUME Tokens, UNCHANGED <<queue, sem, semStart>>, failed \subseteq failed',
         Woken' = Woken, Unannounced' = Unannounced,
         \A w \in Worker : pc'[w] = "undefined" => pc[w] = "undefined"
  PROVE  Tokens'
BY DEF Tokens, NeverTakesFromEmpty

LEMMA TokensStep == TypeOK /\ Places /\ Tokens /\ Next => Tokens'
<1> SUFFICES ASSUME TypeOK, Places, Tokens, Next PROVE Tokens'
  OBVIOUS
<1>t. /\ pc \in [Thread -> CallerPlaces \cup WorkerPlaces]
      /\ queue \in Seq(Item) /\ sem \in Nat
      /\ Woken \in SUBSET Worker /\ IsFiniteSet(Woken) /\ Cardinality(Woken) \in Nat
  BY WokenIsFinite DEF TypeOK, CallerPlaces, WorkerPlaces, Woken
<1> USE WorkAssumption DEF Thread, CallerPlaces, WorkerPlaces, Holding, Goto
<1>1. ASSUME NEW c \in Caller, NEW i \in Item, Call(c, i) PROVE Tokens'
  <2>1. Woken' = Woken /\ Unannounced' = Unannounced
    BY <1>1, <1>t DEF Call, Woken, Unannounced
  <2> QED BY <1>1, <1>t, <2>1, TokensUntouched DEF Call
<1>2. ASSUME NEW c \in Caller, Push(c) PROVE Tokens'
  <2>1. Woken' = Woken
    BY <1>2, <1>t DEF Push, Woken
  <2>2. Unannounced = 0 /\ Unannounced' = 1
    BY <1>2, <1>t DEF Push, Unannounced, Places
  <2>3. Len(queue') = Len(queue) + 1 /\ sem' = sem /\ semStart' = semStart /\ failed' = failed
    BY <1>2, <1>t DEF Push, Places
  <2>4. NeverTakesFromEmpty => NeverTakesFromEmpty'
    BY <1>2, <1>t DEF Push, NeverTakesFromEmpty
  <2> QED BY <1>t, <2>1, <2>2, <2>3, <2>4 DEF Tokens
<1>3. ASSUME NEW c \in Caller, Post(c) PROVE Tokens'
  <2>1. Woken' = Woken
    BY <1>3, <1>t DEF Post, Woken
  <2>2. \A d \in Caller : pc[d] = "post" => d = c
    BY <1>3 DEF Post, Places
  <2>3. Unannounced = 1 /\ Unannounced' = 0
    BY <1>3, <1>t, <2>2 DEF Post, Unannounced
  <2>4. queue' = queue /\ sem' = sem + 1 /\ semStart' = semStart /\ failed' = failed
    BY <1>3 DEF Post
  <2>5. NeverTakesFromEmpty => NeverTakesFromEmpty'
    BY <1>3, <1>t DEF Post, NeverTakesFromEmpty
  <2> QED BY <1>t, <2>1, <2>3, <2>4, <2>5 DEF Tokens
<1>4. ASSUME NEW c \in Caller, Unlock(c) PROVE Tokens'
  <2>1. Woken' = Woken /\ Unannounced' = Unannounced
    BY <1>4, <1>t DEF Unlock, Woken, Unannounced
  <2> QED BY <1>4, <1>t, <2>1, TokensUntouched DEF Unlock
<1>5. ASSUME NEW c \in Caller, TestStarted(c) PROVE Tokens'
  <2>1. Woken' = Woken /\ Unannounced' = Unannounced
    BY <1>5, <1>t DEF TestStarted, Woken, Unannounced
  <2> QED BY <1>5, <1>t, <2>1, TokensUntouched DEF TestStarted
<1>6. ASSUME NEW c \in Caller, SetStarted(c) PROVE Tokens'
  <2>1. Woken' = Woken /\ Unannounced' = Unannounced
    BY <1>6, <1>t DEF SetStarted, Woken, Unannounced
  <2> QED BY <1>6, <1>t, <2>1, TokensUntouched DEF SetStarted
<1>7. ASSUME NEW c \in Caller, NEW w \in Worker, Spawn(c, w) PROVE Tokens'
  <2>1. Woken' = Woken /\ Unannounced' = Unannounced
    BY <1>7, <1>t DEF Spawn, Woken, Unannounced
  <2> QED BY <1>7, <1>t, <2>1, TokensUntouched DEF Spawn
<1>8. ASSUME NEW w \in Worker, SemWait(w) PROVE Tokens'
  <2>1. Woken' = Woken \cup {w} /\ w \notin Woken
    BY <1>8, <1>t DEF SemWait, Woken
  <2>2. Cardinality(Woken') = Cardinality(Woken) + 1
    BY <1>t, <2>1, FS_AddElement
  <2>3. Unannounced' = Unannounced
    BY <1>8, <1>t DEF SemWait, Unannounced
  <2>4. queue' = queue /\ sem' = sem - 1 /\ semStart' = semStart /\ failed' = failed
    BY <1>8 DEF SemWait
  <2>5. NeverTakesFromEmpty => NeverTakesFromEmpty'
    BY <1>8, <1>t DEF SemWait, NeverTakesFromEmpty
  <2>6. Unannounced \in Nat
    BY DEF Unannounced
  <2> QED BY <1>t, <2>2, <2>3, <2>4, <2>5, <2>6 DEF Tokens
<1>9. ASSUME NEW w \in Worker, Take(w) PROVE Tokens'
  <2>1. Woken' = Woken \ {w} /\ w \in Woken
    BY <1>9, <1>t DEF Take, Woken
  <2>2. Cardinality(Woken') = Cardinality(Woken) - 1
    BY <1>t, <2>1, FS_RemoveElement
  <2>3. Unannounced' = Unannounced
    BY <1>9, <1>t DEF Take, Unannounced
  <2>4. Len(queue') = Len(queue) - 1 /\ sem' = sem /\ semStart' = semStart /\ failed' = failed
    BY <1>9, <1>t DEF Take
  <2>5. NeverTakesFromEmpty => NeverTakesFromEmpty'
    BY <1>9, <1>t DEF Take, NeverTakesFromEmpty
  <2>6. Unannounced \in Nat
    BY DEF Unannounced
  <2> DEFINE q == Len(queue)
             c == Cardinality(Woken)
  <2>7. semStart = 0 /\ "sem_wait" \notin failed => q - 1 = sem + (c - 1) + Unannounced
    <3>1. semStart = 0 /\ "sem_wait" \notin failed => q = sem + c + Unannounced
      BY DEF Tokens
    <3>2. q \in Nat /\ c \in Nat /\ sem \in Nat /\ Unannounced \in Nat
      BY <1>t, <2>6
    <3> HIDE DEF q, c
    <3> QED BY <3>1, <3>2
  <2> QED BY <2>2, <2>3, <2>4, <2>5, <2>7 DEF Tokens
<1>10. ASSUME NEW w \in Worker, Return(w) PROVE Tokens'
  <2>1. Woken' = Woken /\ Unannounced' = Unannounced
    BY <1>10, <1>t DEF Return, Woken, Unannounced
  <2> QED BY <1>10, <1>t, <2>1, TokensUntouched DEF Return
<1>11. ASSUME NEW w \in Worker, Relock(w) PROVE Tokens'
  <2>1. Woken' = Woken /\ Unannounced' = Unannounced
    BY <1>11, <1>t DEF Relock, Woken, Unannounced
  <2> QED BY <1>11, <1>t, <2>1, TokensUntouched DEF Relock
<1>12. ASSUME NEW w \in Worker, TakeFromEmpty(w) PROVE Tokens'
  <2>1. semStart # 0 \/ "sem_wait" \in failed
    BY <1>12, WokenFindsAnItem DEF TakeFromEmpty
  <2> QED BY <1>12, <2>1 DEF TakeFromEmpty, Tokens
<1>13. ASSUME NEW c \in Caller, SpawnFails(c) PROVE Tokens'
  <2>1. Woken' = Woken /\ Unannounced' = Unannounced
    BY <1>13, <1>t DEF SpawnFails, Woken, Unannounced
  <2> QED BY <1>13, <1>t, <2>1, TokensUntouched DEF SpawnFails
<1>14. ASSUME NEW w \in Worker, SemWaitFails(w) PROVE Tokens'
  BY <1>14 DEF SemWaitFails, Tokens
<1> QED BY <1>1, <1>2, <1>3, <1>4, <1>5, <1>6, <1>7, <1>8, <1>9, <1>10, <1>11, <1>12, <1>13,
           <1>14
        DEF Next, ScheduleStep, WorkerStep

-----------------------------------------------------------------------------
(* The start of a background thread.                                       *)

\* No thread goes back to where it was before its start.
LEMMA NoThreadIsUnborn ==
  ASSUME TypeOK, Places, Next, NEW w \in Worker, pc[w] # "unborn"
  PROVE  pc'[w] # "unborn"
BY WorkAssumption, SMTT(30) DEF TypeOK, Places, Thread, Next, ScheduleStep, WorkerStep, Goto,
     Call, Push, Post, Unlock, TestStarted, SetStarted, Spawn, SemWait, Take, Return,
     Relock, TakeFromEmpty, SpawnFails, SemWaitFails, CallerPlaces, WorkerPlaces

\* A step that leaves the flag, the items and every caller that matters alone.
LEMMA StartupUntouched ==
  ASSUME TypeOK, Places, Startup, Next, UNCHANGED <<started, pushed>>, failed \subseteq failed',
         \A c \in Caller : pc[c] = "spawn" => pc'[c] = "spawn",
         \A c \in Caller : pc[c] \in Minding => pc'[c] \in Minding
  PROVE  Startup'
<1>1. \A w \in Worker : pc[w] # "unborn" => pc'[w] # "unborn"
  BY NoThreadIsUnborn
<1> QED BY <1>1 DEF Startup

LEMMA StartupStep == TypeOK /\ Places /\ Startup /\ Next => Startup'
<1> SUFFICES ASSUME TypeOK, Places, Startup, Next PROVE Startup'
  OBVIOUS
<1>t. /\ pc \in [Thread -> CallerPlaces \cup WorkerPlaces]
      /\ \A w \in Worker : pc[w] # "unborn" => pc'[w] # "unborn"
  BY NoThreadIsUnborn DEF TypeOK, CallerPlaces, WorkerPlaces
<1> USE WorkAssumption DEF Thread, Goto, Minding
<1>1. ASSUME NEW c \in Caller, NEW i \in Item, Call(c, i) PROVE Startup'
  BY <1>1, <1>t, StartupUntouched DEF Call
<1>2. ASSUME NEW c \in Caller, Push(c) PROVE Startup'
  <2>1. pc'[c] = "post" /\ started' = started /\ failed' = failed
    BY <1>2, <1>t DEF Push
  <2>2. \A d \in Caller : pc[d] = "spawn" => pc'[d] = "spawn"
    BY <1>2, <1>t DEF Push
  <2> QED BY <1>t, <2>1, <2>2 DEF Startup
<1>3. ASSUME NEW c \in Caller, Post(c) PROVE Startup'
  BY <1>3, <1>t, StartupUntouched DEF Post
<1>4. ASSUME NEW c \in Caller, Unlock(c) PROVE Startup'
  BY <1>4, <1>t, StartupUntouched DEF Unlock
<1>5. ASSUME NEW c \in Caller, TestStarted(c) PROVE Startup'
  <2>1. CASE started
    BY <1>5, <2>1, <1>t DEF TestStarted, Startup
  <2>2. CASE ~started
    BY <1>5, <2>2, <1>t, StartupUntouched DEF TestStarted
  <2> QED BY <2>1, <2>2
<1>6. ASSUME NEW c \in Caller, SetStarted(c) PROVE Startup'
  BY <1>6, <1>t DEF SetStarted, Startup
<1>7. ASSUME NEW c \in Caller, NEW w \in Worker, Spawn(c, w) PROVE Startup'
  <2>1. pc'[w] # "unborn"
    BY <1>7, <1>t DEF Spawn
  <2>2. \A d \in Caller : pc[d] \in Minding => pc'[d] \in Minding
    BY <1>7, <1>t DEF Spawn
  <2> QED BY <1>7, <2>1, <2>2 DEF Spawn, Startup
<1>8. ASSUME NEW w \in Worker, WorkerStep(w) \/ SemWaitFails(w) PROVE Startup'
  <2>1. \A d \in Caller : pc'[d] = pc[d]
    BY <1>8, <1>t DEF WorkerStep, SemWait, Take, Return, Relock, TakeFromEmpty, SemWaitFails
  <2>2. UNCHANGED <<started, pushed>> /\ failed \subseteq failed'
    BY <1>8 DEF WorkerStep, SemWait, Take, Return, Relock, TakeFromEmpty, SemWaitFails
  <2> QED BY <2>1, <2>2, StartupUntouched
<1>9. ASSUME NEW c \in Caller, SpawnFails(c) PROVE Startup'
  <2>1. \A d \in Caller : pc[d] \in Minding => pc'[d] \in Minding
    BY <1>9, <1>t DEF SpawnFails
  <2> QED BY <1>9, <2>1 DEF SpawnFails, Startup
<1> QED BY <1>1, <1>2, <1>3, <1>4, <1>5, <1>6, <1>7, <1>8, <1>9 DEF Next, ScheduleStep

-----------------------------------------------------------------------------
LEMMA StutterKeepsIInv == IInv /\ UNCHANGED vars => IInv'
BY DEF IInv, TypeOK, Places, RunInOrder, Running, Tokens, Woken, Unannounced,
       NeverTakesFromEmpty, Startup, vars

\* The inductive invariant of the background thread.
THEOREM InvariantHolds == Spec => []IInv
<1>1. IInv /\ [Next]_vars => IInv'
  BY PlacesStep, OrderStep, TokensStep, StartupStep, StutterKeepsIInv DEF IInv
<1> QED BY InitEstablishesIInv, <1>1, PTL DEF Spec

\* Every variable keeps its type.
THEOREM TypeCorrect == Spec => []TypeOK
<1>1. IInv => TypeOK
  BY DEF IInv
<1> QED BY <1>1, InvariantHolds, PTL

\* The items run one at a time, in the order in which they were scheduled,
\* with any number of callers and of background threads.
THEOREM OrderCorrect == Spec => []RunInOrder
<1>1. IInv => RunInOrder
  BY DEF IInv
<1> QED BY <1>1, InvariantHolds, PTL

\* If the semaphore starts at 0 and no sem_wait fails, no background thread takes
\* an item from an empty queue: a token consumed is an item another thread cannot take.
THEOREM TokensCorrect == Spec => []NeverTakesFromEmpty
<1>1. IInv => NeverTakesFromEmpty
  BY DEF IInv, Tokens, NeverTakesFromEmpty
<1> QED BY <1>1, InvariantHolds, PTL

\* When all calls of Schedule have returned and there was one, and none failed to
\* create a thread, a background thread has been started, also if a caller left that to another one.
THEOREM StartCorrect == Spec => []SomeoneIsWorking
<1>1. IInv => SomeoneIsWorking
  BY DEF IInv, Startup, SomeoneIsWorking, Minding
<1> QED BY <1>1, InvariantHolds, PTL

=============================================================================
