------------------------------ MODULE ThreadPool ------------------------------
(***************************************************************************)
(* lab4: thread_factory, whose threads wait on the named semaphore tf_sem,  *)
(* and thread_waker processes that post to it.  All of them open it by name *)
(* and create it if the name is free; a waker that quits and a factory that *)
(* is killed with SIGUSR1 unlink the name, and whoever has the semaphore    *)
(* open keeps it.                                                           *)
(*                                                                          *)
(* SIGUSR1 is blocked in a thread that handles it and in no other: the      *)
(* kernel may give a signal to main or to any thread of the pool, and       *)
(* handlers of two signals may run side by side.  No handler returns.  The  *)
(* creation of a thread does not fail.                                      *)
(***************************************************************************)
EXTENDS Integers

CONSTANTS
  Counts,       (* numbers of threads a user asks for                       *)
  Requests,     (* numbers typed to a waker                                 *)
  QChar,        (* the code of the character q                              *)
  Wakers,
  MaxThreads,   (* bound on Counts                                          *)
  MaxSems,      (* bound: semaphores ever created                           *)
  MaxPosts,     (* bound: posts to one of them                              *)
  MaxSignals,   (* bound: signals to one run of the factory                 *)
  MaxStarts     (* bound: times the factory is started                      *)

ASSUME ThreadPoolAssumption ==
  /\ MaxThreads \in Nat /\ MaxSems \in Nat /\ MaxPosts \in Nat
  /\ MaxSignals \in Nat /\ MaxStarts \in Nat \ {0}
  /\ Counts \subseteq Int \ {0} /\ \A n \in Counts : n <= MaxThreads
  /\ Requests \subseteq Int /\ QChar \in Nat

VARIABLES
  name,          (* the semaphore SEM_NAME stands for, or NoSem              *)
  made,          (* semaphores created so far                               *)
  value,
  posted,        (* history: posts to each semaphore                        *)
  fac,           (* where the factory's main is, or how it ended            *)
  psem, num_threads,
  pool,          (* the entries of thread_pool written so far, or NULL      *)
  freed,         (* whether the pool was freed                              *)
  thread,        (* the threads                                             *)
  hdl, i,        (* where each thread's signal handler is, and its i        *)
  signals, early,(* history: signals that came to this run of the factory,  *)
                 (* and whether one came while it made its pool             *)
  starts,
  waker

semVars == <<name, made, value, posted>>
poolVars == <<psem, num_threads, pool, freed, starts>>
sigVars == <<hdl, i, signals, early>>
facVars == <<fac, poolVars, thread, sigVars>>
vars    == <<semVars, facVars, waker>>

-----------------------------------------------------------------------------
NoSem == 0
NULL  == -1
Sems  == 1..MaxSems
Threads == 1..MaxThreads
MainThread == 0
Handlers == {MainThread} \cup Threads      (* the threads a signal may go to *)

There == {MainThread} \cup {t \in Threads : thread[t] # "none"}

Up == fac \notin {"exited", "fatal", "crashed"}

NoHandlers == [t \in Handlers |-> "none"]
NoThreads == [t \in Threads |-> "none"]

(* The process ends, and with it its threads and their handlers.            *)
Ends(how) ==
  /\ fac' = how /\ thread' = NoThreads
  /\ hdl' = NoHandlers /\ i' = [t \in Handlers |-> 0]

(* sem_open with O_CREAT: result is the semaphore of that name, new ones    *)
(* start at SEM_VAL, zero.                                                  *)
sem_open(s) ==
  IF name # NoSem THEN s = name /\ UNCHANGED semVars
  ELSE /\ made < MaxSems /\ s = made + 1
       /\ made' = s /\ name' = s /\ UNCHANGED <<value, posted>>

sem_unlink == name' = NoSem /\ UNCHANGED <<made, value, posted>>

-----------------------------------------------------------------------------
(* thread_factory: main, which does not go on once it runs the handler       *)

Main(from) == fac = from /\ hdl[MainThread] = "none"

SigAction ==
  /\ Main("start") /\ fac' = "open"
  /\ UNCHANGED <<semVars, poolVars, thread, sigVars, waker>>

OpenSem ==
  /\ Main("open") /\ fac' = "input"
  /\ \E s \in Sems : sem_open(s) /\ psem' = s
  /\ UNCHANGED <<num_threads, pool, freed, starts, thread, sigVars, waker>>

ReadCount ==
  /\ Main("input") /\ num_threads' \in Counts /\ fac' = "malloc"
  /\ UNCHANGED <<semVars, psem, pool, freed, starts, thread, sigVars, waker>>

Malloc ==
  /\ Main("malloc") /\ num_threads > 0 /\ pool' = 0 /\ fac' = "create"
  /\ UNCHANGED <<semVars, psem, num_threads, freed, starts, thread, sigVars, waker>>

(* A negative number of threads is a size too large to allocate.            *)
MallocFails ==
  /\ Main("malloc") /\ sem_unlink /\ fac' = "exited"
  /\ UNCHANGED <<poolVars, thread, sigVars, waker>>

CreateThread ==
  /\ Main("create") /\ fac' = "store"
  /\ thread' = [thread EXCEPT ![pool + 1] = "wait"]
  /\ UNCHANGED <<semVars, poolVars, sigVars, waker>>

(* A slip: the last id is not stored.                                       *)
StoreAllButOne ==
  /\ Main("store") /\ pool' = IF pool + 1 < num_threads THEN pool + 1 ELSE pool
  /\ fac' = IF pool + 1 < num_threads THEN "create" ELSE "spin"
  /\ UNCHANGED <<semVars, psem, num_threads, freed, starts, thread, sigVars, waker>>

(* The pool may have been freed by a handler on another thread.             *)
StoreThread ==
  /\ Main("store")
  /\ \/ /\ pool' = pool + 1 /\ fac' = (IF pool' < num_threads THEN "create" ELSE "spin")
        /\ UNCHANGED <<thread, hdl, i>>
     \/ freed /\ Ends("crashed") /\ UNCHANGED pool
  /\ UNCHANGED <<semVars, psem, num_threads, freed, starts, signals, early, waker>>

-----------------------------------------------------------------------------
(* thread_factory: the threads, which run beside main and the handlers       *)

Runs(t, at) == Up /\ thread[t] = at /\ hdl[t] = "none"

(* No signal makes sem_wait return: its handler ends the process or the     *)
(* thread.                                                                  *)
SemWait(t) ==
  /\ Runs(t, "wait") /\ value[psem] > 0
  /\ thread' = [thread EXCEPT ![t] = "awake"]
  /\ value' = [value EXCEPT ![psem] = @ - 1]
  /\ UNCHANGED <<name, made, posted, fac, poolVars, sigVars, waker>>

(* A slip: the thread ends after its first wake-up.                         *)
SleepAndEnd(t) ==
  /\ Runs(t, "awake") /\ thread' = [thread EXCEPT ![t] = "none"]
  /\ UNCHANGED <<semVars, fac, poolVars, sigVars, waker>>

Sleep(t) ==
  /\ Runs(t, "awake") /\ thread' = [thread EXCEPT ![t] = "wait"]
  /\ UNCHANGED <<semVars, fac, poolVars, sigVars, waker>>

(* A cancelled thread ends at a cancellation point, also in its handler: a  *)
(* handler on a thread of the pool cancels the thread it runs on.           *)
ThreadEnds(t) ==
  /\ Up /\ thread[t] = "cancelled"
  /\ thread' = [thread EXCEPT ![t] = "none"]
  /\ hdl' = [hdl EXCEPT ![t] = "none"] /\ i' = [i EXCEPT ![t] = 0]
  /\ UNCHANGED <<semVars, fac, poolVars, signals, early, waker>>

-----------------------------------------------------------------------------
(* thread_factory: sig_hndlr, on any thread that is there                    *)

Making == fac \in {"malloc", "create", "store"}

(* Before sigaction the signal is fatal.                                    *)
Signal(t) ==
  /\ Up /\ signals < MaxSignals /\ t \in There /\ hdl[t] = "none"
  /\ signals' = signals + 1 /\ early' = (early \/ Making)
  /\ IF fac = "start" THEN fac' = "fatal" /\ UNCHANGED <<hdl, i>>
     ELSE hdl' = [hdl EXCEPT ![t] = "cancel"] /\ UNCHANGED <<fac, i>>
  /\ UNCHANGED <<semVars, poolVars, thread, waker>>

(* A slip: the loop leaves out the last entry.                              *)
HandlerCancelsBut1(t) ==
  /\ hdl[t] = "cancel"
  /\ IF i[t] < num_threads - 1
     THEN /\ thread' = [thread EXCEPT ![i[t] + 1] = "cancelled"]
          /\ i' = [i EXCEPT ![t] = @ + 1] /\ UNCHANGED hdl
     ELSE hdl' = [hdl EXCEPT ![t] = "unlink"] /\ UNCHANGED <<thread, i>>
  /\ UNCHANGED <<semVars, fac, poolVars, signals, early, waker>>

(* Without a pool it reads from NULL.  An entry that is not yet written, or *)
(* was freed, is any value, also the id it was: pthread_cancel cancels that *)
(* thread, refuses, or crashes.                                             *)
CancelEntry(t) ==
  \/ /\ i[t] < pool
     /\ thread' = [thread EXCEPT ![i[t] + 1] = IF @ = "none" THEN @ ELSE "cancelled"]
     /\ i' = [i EXCEPT ![t] = @ + 1] /\ UNCHANGED <<fac, hdl>>
  \/ /\ pool # NULL /\ (freed \/ i[t] >= pool)
     /\ i' = [i EXCEPT ![t] = @ + 1] /\ UNCHANGED <<fac, hdl, thread>>
  \/ /\ pool = NULL \/ freed \/ i[t] >= pool
     /\ Ends("crashed")

HandlerCancel(t) ==
  /\ hdl[t] = "cancel"
  /\ IF i[t] < num_threads THEN CancelEntry(t)
     ELSE hdl' = [hdl EXCEPT ![t] = "unlink"] /\ UNCHANGED <<fac, thread, i>>
  /\ UNCHANGED <<semVars, poolVars, signals, early, waker>>

(* A slip: the name is removed with the pool.                               *)
HandlerUnlinkPool(t) ==
  /\ hdl[t] = "unlink" /\ hdl' = [hdl EXCEPT ![t] = "free"]
  /\ IF pool # NULL THEN sem_unlink ELSE UNCHANGED semVars
  /\ UNCHANGED <<fac, poolVars, thread, i, signals, early, waker>>

HandlerUnlink(t) ==
  /\ hdl[t] = "unlink" /\ hdl' = [hdl EXCEPT ![t] = "free"] /\ sem_unlink
  /\ UNCHANGED <<fac, poolVars, thread, i, signals, early, waker>>

(* thread_pool keeps its value: a second handler frees it again.            *)
HandlerFree(t) ==
  /\ hdl[t] = "free"
  /\ \/ /\ freed' = (pool # NULL) /\ hdl' = [hdl EXCEPT ![t] = "exit"]
        /\ UNCHANGED <<fac, thread, i>>
     \/ freed /\ Ends("crashed") /\ UNCHANGED freed
  /\ UNCHANGED <<semVars, psem, num_threads, pool, starts, signals, early, waker>>

HandlerExit(t) ==
  /\ hdl[t] = "exit" /\ Ends("exited")
  /\ UNCHANGED <<semVars, poolVars, signals, early, waker>>

Start ==
  /\ ~Up /\ starts < MaxStarts /\ starts' = starts + 1 /\ fac' = "start"
  /\ psem' = NoSem /\ num_threads' = 0 /\ pool' = NULL /\ freed' = FALSE
  /\ signals' = 0 /\ early' = FALSE
  /\ UNCHANGED <<semVars, hdl, i, thread, waker>>

-----------------------------------------------------------------------------
(* thread_waker *)

At(pc, s, n) == [pc |-> pc, sem |-> s, typed |-> n, left |-> 0]

Off == At("off", NoSem, 0)

WakerOpen(w) ==
  /\ waker[w].pc \in {"off", "exited"}
  /\ \E s \in Sems :
       /\ sem_open(s)
       /\ waker' = [waker EXCEPT ![w] = At("prompt", s, 0)]
  /\ UNCHANGED facVars

WakerRead(w) ==
  /\ waker[w].pc = "prompt"
  /\ \E n \in Requests :
       waker' = [waker EXCEPT ![w].typed = n, ![w].left = n, ![w].pc = "typed"]
  /\ UNCHANGED <<semVars, facVars>>

(* A line with the letter q is a zero to strtol; the number that is the     *)
(* code of q ends the program as well.                                      *)
WakerQuit(w) ==
  /\ waker[w].pc = "typed" /\ waker[w].left = waker[w].typed
  /\ waker[w].typed \in {0, QChar}
  /\ sem_unlink
  /\ waker' = [waker EXCEPT ![w] = At("exited", NoSem, waker[w].typed)]
  /\ UNCHANGED facVars

Posting(w) == waker[w].pc = "typed" /\ waker[w].typed \notin {0, QChar}

WakerPost(w) ==
  /\ Posting(w) /\ waker[w].left > 0 /\ posted[waker[w].sem] < MaxPosts
  /\ waker' = [waker EXCEPT ![w].left = @ - 1]
  /\ value' = [value EXCEPT ![waker[w].sem] = @ + 1]
  /\ posted' = [posted EXCEPT ![waker[w].sem] = @ + 1]
  /\ UNCHANGED <<name, made, facVars>>

WakerPosted(w) ==
  /\ Posting(w) /\ waker[w].left <= 0
  /\ waker' = [waker EXCEPT ![w].pc = "prompt"]
  /\ UNCHANGED <<semVars, facVars>>

(* A user interrupts a waker: the name stays.                               *)
WakerDies(w) ==
  /\ waker[w].pc \in {"prompt", "typed"} /\ waker' = [waker EXCEPT ![w] = Off]
  /\ UNCHANGED <<semVars, facVars>>

-----------------------------------------------------------------------------
Init ==
  /\ name = NoSem /\ made = 0
  /\ value = [s \in Sems |-> 0] /\ posted = value
  /\ fac = "start" /\ psem = NoSem /\ num_threads = 0
  /\ pool = NULL /\ freed = FALSE /\ thread = NoThreads /\ starts = 1
  /\ hdl = NoHandlers /\ i = [t \in Handlers |-> 0] /\ signals = 0 /\ early = FALSE
  /\ waker = [w \in Wakers |-> Off]

MainStep == SigAction \/ OpenSem \/ Malloc \/ MallocFails \/ CreateThread \/ StoreThread
Handler(t) == HandlerCancel(t) \/ HandlerUnlink(t) \/ HandlerFree(t) \/ HandlerExit(t)
ThreadStep(t) == SemWait(t) \/ Sleep(t)

Next ==
  \/ MainStep \/ ReadCount \/ Start
  \/ \E t \in Threads : ThreadStep(t) \/ ThreadEnds(t)
  \/ \E t \in Handlers : Signal(t) \/ Handler(t)
  \/ \E w \in Wakers : \/ WakerOpen(w) \/ WakerRead(w) \/ WakerQuit(w)
                       \/ WakerPost(w) \/ WakerPosted(w) \/ WakerDies(w)

Spec == Init /\ [][Next]_vars

(* main and the threads are scheduled; sleep returns.  Users owe nothing.   *)
FairSpec ==
  Spec /\ WF_vars(MainStep) /\ \A t \in Threads : WF_vars(ThreadStep(t))

-----------------------------------------------------------------------------
TypeOK ==
  /\ name \in Sems \cup {NoSem} /\ made \in 0..MaxSems
  /\ value \in [Sems -> 0..MaxPosts] /\ posted \in [Sems -> 0..MaxPosts]
  /\ fac \in {"start", "open", "input", "malloc", "create", "store", "spin",
              "exited", "fatal", "crashed"}
  /\ psem \in Sems \cup {NoSem}
  /\ num_threads \in Counts \cup {0} /\ pool \in NULL..MaxThreads /\ freed \in BOOLEAN
  /\ thread \in [Threads -> {"none", "wait", "awake", "cancelled"}]
  /\ hdl \in [Handlers -> {"none", "cancel", "unlink", "free", "exit"}]
  /\ i \in [Handlers -> 0..MaxThreads]
  /\ signals \in 0..MaxSignals /\ early \in BOOLEAN /\ starts \in 0..MaxStarts
  /\ waker \in [Wakers -> [pc : {"off", "prompt", "typed", "exited"}, sem : Sems \cup {NoSem},
                           typed : Requests \cup {0}, left : Int]]

(* A factory that ends by itself leaves no name behind that leads to its    *)
(* semaphore: the next factory's threads do not wake from old posts.        *)
KillUnlinks == fac = "exited" => psem = NoSem \/ name # psem

(* A handler that has gone through a pool that was complete when signals    *)
(* came has left no thread to wait or wake: one that runs beside it may     *)
(* have been ahead, have freed the pool, or have ended with its thread.     *)
PoolIsCancelled ==
  ~early /\ (\E t \in Handlers : hdl[t] \in {"unlink", "free", "exit"}) =>
    \A t \in Threads : thread[t] \in {"none", "cancelled"}

(* A signal crashes the factory only if it comes between the number's being *)
(* read and the last id being stored, or if there was another one.          *)
CrashExplained == fac = "crashed" => early \/ signals > 1

(* A pool that is complete is safe from signals.  Fails: two handlers free  *)
(* it.                                                                      *)
WholePoolSafe == fac = "crashed" => early

(* More posts than threads are worked off, until a signal comes: threads    *)
(* come back to the semaphore after they slept.                             *)
Undisturbed == fac = "spin" /\ signals = 0

BacklogServed ==
  (Undisturbed /\ value[psem] > 0) ~> (Undisturbed => value[psem] = 0)

(* A waker increments the semaphore that thread_factory uses.  Fails after  *)
(* another waker has quit, or the factory was started again.                *)
WakerReachesFactory ==
  Undisturbed => \A w \in Wakers : Posting(w) => waker[w].sem = psem

(* A waker ends when 0 or q is typed and not otherwise.  Fails for 113.     *)
QuitsWhenTold == \A w \in Wakers : waker[w].pc = "exited" => waker[w].typed = 0
=============================================================================
