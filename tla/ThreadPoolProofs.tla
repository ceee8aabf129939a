--------------------------- MODULE ThreadPoolProofs ---------------------------
(***************************************************************************)
(* thread_factory and thread_waker for any number of threads, wakers,       *)
(* semaphores, posts, signals and starts: types, that a factory that ends   *)
(* by itself takes its name with it, that its threads last until a signal   *)
(* comes, that no thread of a complete pool survives the handlers, and what *)
(* it takes to crash them.                                                  *)
(***************************************************************************)
EXTENDS ThreadPool, TLAPS

HasSem == {"input", "malloc", "create", "store", "spin"}

(* main: from sem_open on psem is a semaphore; threads run only from their  *)
(* creation on; nobody counts threads before the number is read; there is   *)
(* no pool before it is allocated, and it is complete when main spins.      *)
FactoryOK ==
  /\ fac \in HasSem => psem \in Sems
  /\ fac \notin {"create", "store", "spin"} => thread = NoThreads
  /\ fac \in {"create", "store"} => pool \in Nat /\ pool < num_threads
  /\ fac \in {"start", "open", "input"} => num_threads = 0
  /\ fac \in {"start", "open", "input", "malloc"} => pool = NULL /\ ~freed
  /\ fac = "spin" => pool = num_threads /\ pool > 0

(* Handlers run on threads that are there, of a process that has attached   *)
(* one; once a handler has unlinked the name, it is another semaphore's.    *)
HandlersOK ==
  /\ fac \in {"start", "exited", "fatal", "crashed"} => hdl = NoHandlers
  /\ \A t \in Threads : thread[t] = "none" => hdl[t] = "none"
  /\ \A t \in Handlers : hdl[t] \in {"free", "exit"} => psem = NoSem \/ name # psem

(* Semaphores are new when they are created, and wakers have one.           *)
SemsOK ==
  /\ psem <= made /\ name <= made
  /\ \A w \in Wakers : waker[w].pc \in {"prompt", "typed"} => waker[w].sem \in Sems

(* No thread wakes without a post.                                          *)
ValueOK == \A s \in Sems : value[s] <= posted[s]

(* The inductive invariant.                                                 *)
IInv == TypeOK /\ FactoryOK /\ HandlersOK /\ SemsOK /\ ValueOK /\ KillUnlinks

LEMMA InitIInv == Init => IInv
<1> SUFFICES ASSUME Init PROVE IInv OBVIOUS
<1> USE ThreadPoolAssumption DEF Init, NoSem, NULL
<1>1. TypeOK
  <2>1. waker \in [Wakers -> [pc : {"off", "prompt", "typed", "exited"},
                   sem : Sems \cup {NoSem}, typed : Requests \cup {0}, left : Int]]
    BY DEF Off, At
  <2>2. i \in [Handlers -> 0..MaxThreads] /\ hdl \in [Handlers -> {"none", "cancel", "unlink", "free", "exit"}]
    BY DEF NoHandlers
  <2>3. /\ value \in [Sems -> 0..MaxPosts] /\ posted \in [Sems -> 0..MaxPosts]
        /\ made \in 0..MaxSems /\ starts \in 0..MaxStarts /\ signals \in 0..MaxSignals
        /\ pool \in NULL..MaxThreads
    OBVIOUS
  <2>4. thread \in [Threads -> {"none", "wait", "awake", "cancelled"}]
    BY DEF NoThreads
  <2> QED BY <2>1, <2>2, <2>3, <2>4 DEF TypeOK
<1>2. FactoryOK /\ HandlersOK
  BY DEF FactoryOK, HasSem, HandlersOK, NoHandlers, Handlers
<1>3. SemsOK
  BY DEF SemsOK, Off, At
<1>4. ValueOK /\ KillUnlinks
  BY DEF ValueOK, KillUnlinks
<1> QED BY <1>1, <1>2, <1>3, <1>4 DEF IInv

(* sem_open gives a semaphore, one made before or a new one, and afterwards *)
(* the name is its name.                                                    *)
LEMMA SemOpen ==
  ASSUME IInv, NEW s \in Sems, sem_open(s)
  PROVE  /\ name' = s /\ made' \in 0..MaxSems /\ made <= made' /\ s <= made'
         /\ UNCHANGED <<value, posted>>
         /\ name = NoSem => made < s
         /\ name # NoSem => name' = name
  BY ThreadPoolAssumption DEF sem_open, semVars, IInv, TypeOK, SemsOK, Sems, NoSem

(* Before there are threads, a main that goes on is the only one that could *)
(* run a handler.                                                           *)
LEMMA NobodyHandles ==
  ASSUME IInv, hdl[MainThread] = "none", thread = NoThreads
  PROVE  hdl = NoHandlers
<1>1. ASSUME NEW t \in Handlers PROVE hdl[t] = "none"
  BY DEF Handlers, IInv, HandlersOK, NoThreads
<1> QED BY <1>1 DEF IInv, TypeOK, NoHandlers

(* The process ends: nothing is left of its threads.                        *)
LEMMA EndsOK ==
  ASSUME IInv, NEW how \in {"exited", "crashed"}, Ends(how),
         UNCHANGED <<psem, num_threads, pool, starts>>, UNCHANGED semVars, freed' \in BOOLEAN,
         UNCHANGED <<signals, early, waker>>, how = "exited" => psem = NoSem \/ name # psem
  PROVE  IInv'
<1> USE ThreadPoolAssumption DEF IInv, Ends
<1>1. TypeOK'
  BY DEF TypeOK, semVars, NoThreads, NoHandlers
<1>2. FactoryOK' /\ HandlersOK'
  BY DEF FactoryOK, HasSem, HandlersOK, NoHandlers, Handlers
<1>3. SemsOK' /\ ValueOK' /\ KillUnlinks'
  BY DEF SemsOK, ValueOK, KillUnlinks, semVars
<1> QED BY <1>1, <1>2, <1>3

(* The steps of main.                                                       *)
LEMMA MainStepIInv == ASSUME IInv, MainStep \/ ReadCount PROVE IInv'
<1> USE ThreadPoolAssumption DEF IInv, Main
<1> USE DEF sigVars
<1>1. CASE SigAction
  BY <1>1 DEF SigAction, semVars, poolVars, TypeOK, FactoryOK, HandlersOK, HasSem, SemsOK,
     ValueOK, KillUnlinks
<1>2. CASE OpenSem
  <2> PICK s \in Sems : sem_open(s) /\ psem' = s
    BY <1>2 DEF OpenSem
  <2>1. /\ name' = s /\ made' \in 0..MaxSems /\ made <= made' /\ s <= made'
        /\ UNCHANGED <<value, posted>>
    BY SemOpen
  <2>h. hdl = NoHandlers
    BY <1>2, NobodyHandles DEF OpenSem, FactoryOK
  <2>2. TypeOK'
    BY <1>2, <2>1 DEF OpenSem, TypeOK
  <2>3. FactoryOK'
    BY <1>2, <2>1 DEF OpenSem, FactoryOK, HasSem, NoThreads
  <2>4. HandlersOK'
    BY <1>2, <2>h DEF OpenSem, HandlersOK, NoHandlers, Handlers
  <2>5. SemsOK'
    BY <1>2, <2>1 DEF OpenSem, SemsOK
  <2>6. ValueOK' /\ KillUnlinks'
    BY <1>2, <2>1 DEF OpenSem, ValueOK, KillUnlinks
  <2> QED BY <2>2, <2>3, <2>4, <2>5, <2>6
<1>3. CASE ReadCount
  BY <1>3 DEF ReadCount, semVars, TypeOK, FactoryOK, HandlersOK, HasSem, SemsOK, ValueOK,
     KillUnlinks, NoThreads
<1>4. CASE Malloc
  BY <1>4 DEF Malloc, semVars, TypeOK, FactoryOK, HandlersOK, HasSem, SemsOK, ValueOK,
     KillUnlinks, NoThreads, NULL
<1>5. CASE MallocFails
  <2>h. hdl = NoHandlers
    BY <1>5, NobodyHandles DEF MallocFails, FactoryOK
  <2> QED BY <1>5, <2>h DEF MallocFails, sem_unlink, poolVars, TypeOK, FactoryOK, HandlersOK,
        HasSem, SemsOK, ValueOK, KillUnlinks, NoThreads, NoSem, Sems
<1>6. CASE CreateThread
  <2>1. pool + 1 \in Threads
    BY <1>6 DEF CreateThread, FactoryOK, TypeOK, Threads
  <2>2. /\ thread' \in [Threads -> {"none", "wait", "awake", "cancelled"}]
        /\ \A t \in Threads : thread'[t] = "none" => thread[t] = "none"
    BY <1>6, <2>1 DEF CreateThread, TypeOK
  <2>3. TypeOK' /\ FactoryOK'
    BY <1>6, <2>2 DEF CreateThread, semVars, poolVars, TypeOK, FactoryOK, HasSem
  <2>4. HandlersOK'
    BY <1>6, <2>2 DEF CreateThread, semVars, poolVars, HandlersOK
  <2> QED BY <1>6, <2>3, <2>4 DEF CreateThread, semVars, poolVars, SemsOK, ValueOK, KillUnlinks
<1>7. CASE StoreThread
  <2>1. CASE Ends("crashed")
    <3>1. fac = "store" /\ freed' = freed /\ freed \in BOOLEAN
      BY <1>7 DEF StoreThread, TypeOK
    <3>2. \/ pool' = pool /\ UNCHANGED <<semVars, psem, num_threads, starts, signals, early, waker>>
          \/ fac' # "crashed"
      BY <1>7, <2>1 DEF StoreThread
    <3>3. fac' = "crashed"
      BY <2>1 DEF Ends
    <3>4. /\ UNCHANGED <<psem, num_threads, pool, starts>> /\ UNCHANGED semVars
          /\ freed' \in BOOLEAN /\ UNCHANGED <<signals, early, waker>>
      BY <3>1, <3>2, <3>3
    <3> QED BY <2>1, <3>4, EndsOK
  <2>2. CASE ~Ends("crashed")
    <3>1. /\ fac = "store" /\ pool' = pool + 1 /\ fac' = (IF pool' < num_threads THEN "create" ELSE "spin")
          /\ UNCHANGED <<semVars, psem, num_threads, freed, starts, thread, sigVars, waker>>
      BY <1>7, <2>2 DEF StoreThread
    <3>2. pool' \in NULL..MaxThreads
      BY <3>1 DEF FactoryOK, TypeOK, NULL
    <3> QED BY <3>1, <3>2 DEF semVars, TypeOK, FactoryOK, HandlersOK, HasSem, SemsOK, ValueOK, KillUnlinks
  <2> QED BY <2>1, <2>2
<1> QED BY <1>1, <1>2, <1>3, <1>4, <1>5, <1>6, <1>7 DEF MainStep

(* A wake-up takes one from the semaphore; a cancelled thread takes its     *)
(* handler with it.                                                         *)
LEMMA ThreadStepIInv ==
  ASSUME IInv, NEW t \in Threads, ThreadStep(t) \/ ThreadEnds(t) PROVE IInv'
<1> USE ThreadPoolAssumption DEF IInv
<1>r. thread[t] # "none" /\ fac \in {"create", "store", "spin"} /\ psem \in Sems /\ t \in Handlers
  BY DEF ThreadStep, SemWait, Sleep, ThreadEnds, Runs, FactoryOK, NoThreads, HasSem, Handlers
<1>1. thread' \in [Threads -> {"none", "wait", "awake", "cancelled"}]
  BY DEF ThreadStep, SemWait, Sleep, ThreadEnds, TypeOK
<1>2. CASE SemWait(t)
  <2>1. /\ value' \in [Sems -> 0..MaxPosts] /\ ValueOK'
        /\ \A u \in Threads : thread'[u] = "none" => thread[u] = "none"
    BY <1>2, <1>r DEF SemWait, TypeOK, ValueOK
  <2>2. TypeOK' /\ FactoryOK'
    BY <1>1, <1>2, <1>r, <2>1 DEF SemWait, poolVars, sigVars, TypeOK, FactoryOK
  <2>3. HandlersOK'
    BY <1>2, <2>1 DEF SemWait, poolVars, sigVars, HandlersOK
  <2>4. SemsOK' /\ KillUnlinks'
    BY <1>2 DEF SemWait, poolVars, SemsOK, KillUnlinks
  <2> QED BY <2>1, <2>2, <2>3, <2>4
<1>3. CASE Sleep(t)
  <2>1. \A u \in Threads : thread'[u] = "none" => thread[u] = "none"
    BY <1>3 DEF Sleep, TypeOK
  <2>2. TypeOK' /\ FactoryOK'
    BY <1>1, <1>3, <1>r DEF Sleep, semVars, poolVars, sigVars, TypeOK, FactoryOK
  <2>3. HandlersOK'
    BY <1>3, <2>1 DEF Sleep, semVars, poolVars, sigVars, HandlersOK
  <2> QED BY <1>3, <2>2, <2>3 DEF Sleep, semVars, poolVars, SemsOK, ValueOK, KillUnlinks
<1>4. CASE ThreadEnds(t)
  <2>1. /\ UNCHANGED <<semVars, fac, poolVars, signals, early, waker>>
        /\ thread' = [thread EXCEPT ![t] = "none"]
        /\ hdl' = [hdl EXCEPT ![t] = "none"] /\ i' = [i EXCEPT ![t] = 0]
    BY <1>4 DEF ThreadEnds
  <2>2. TypeOK'
    <3>1. hdl' \in [Handlers -> {"none", "cancel", "unlink", "free", "exit"}]
      BY <2>1 DEF TypeOK
    <3>2. i' \in [Handlers -> 0..MaxThreads]
      <4>1. i \in [Handlers -> 0..MaxThreads] /\ 0 \in 0..MaxThreads
        BY DEF TypeOK
      <4> QED BY <2>1, <4>1
    <3> QED BY <1>1, <2>1, <3>1, <3>2 DEF semVars, poolVars, TypeOK
  <2>3. FactoryOK'
    BY <1>r, <2>1 DEF semVars, poolVars, FactoryOK
  <2>4. HandlersOK'
    <3>1. /\ \A u \in Threads : u # t => thread'[u] = thread[u]
          /\ \A u \in Handlers : hdl'[u] = IF u = t THEN "none" ELSE hdl[u]
      BY <2>1 DEF TypeOK
    <3> QED BY <1>r, <2>1, <3>1 DEF semVars, poolVars, HandlersOK, Handlers
  <2> QED BY <2>1, <2>2, <2>3, <2>4 DEF semVars, poolVars, SemsOK, ValueOK, KillUnlinks
<1> QED BY <1>2, <1>3, <1>4 DEF ThreadStep

(* A signal, the handler, and a new factory.                                *)
LEMMA HandlerIInv ==
  ASSUME IInv, NEW t \in Handlers, Signal(t) \/ Handler(t) PROVE IInv'
<1> USE ThreadPoolAssumption DEF IInv
<1> DEFINE HdlType == {"none", "cancel", "unlink", "free", "exit"}
<1>1. CASE Signal(t)
  <2>0. /\ UNCHANGED <<semVars, poolVars, thread, waker>>
        /\ signals' \in 0..MaxSignals /\ early' \in BOOLEAN
    BY <1>1 DEF Signal, TypeOK
  <2>1. CASE fac = "start"
    BY <1>1, <2>0, <2>1 DEF Signal, semVars, poolVars, TypeOK, FactoryOK, HandlersOK, HasSem,
       SemsOK, ValueOK, KillUnlinks
  <2>2. CASE fac # "start"
    <3>1. hdl' = [hdl EXCEPT ![t] = "cancel"] /\ UNCHANGED <<fac, i>>
      BY <1>1, <2>2 DEF Signal
    <3>2. \A u \in Handlers : hdl'[u] = IF u = t THEN "cancel" ELSE hdl[u]
      BY <3>1 DEF TypeOK
    <3>3. t \in Threads => thread[t] # "none"
      BY <1>1, ThreadPoolAssumption DEF Signal, There, Threads, MainThread
    <3>4. Up
      BY <1>1 DEF Signal
    <3>5. HandlersOK'
      BY <2>0, <2>2, <3>1, <3>2, <3>3, <3>4 DEF semVars, poolVars, HandlersOK, Up, Handlers
    <3>6. TypeOK'
      BY <2>0, <3>1 DEF semVars, poolVars, TypeOK
    <3> QED BY <2>0, <3>1, <3>5, <3>6 DEF semVars, poolVars, FactoryOK, SemsOK, ValueOK, KillUnlinks
  <2> QED BY <2>1, <2>2
<1>2. CASE HandlerCancel(t)
  <2>0. UNCHANGED <<semVars, poolVars, signals, early, waker>> /\ hdl[t] = "cancel"
    BY <1>2 DEF HandlerCancel
  <2>1. CASE Ends("crashed")
    BY <2>0, <2>1, EndsOK DEF poolVars, TypeOK
  <2>2. CASE ~Ends("crashed")
    <3>1. /\ fac' = fac
          /\ \/ hdl' = [hdl EXCEPT ![t] = "unlink"] /\ i' = i
             \/ hdl' = hdl /\ i[t] < num_threads /\ i' = [i EXCEPT ![t] = @ + 1]
      BY <1>2, <2>2 DEF HandlerCancel, CancelEntry
    <3>t. \/ thread' = thread
          \/ thread' = [thread EXCEPT ![i[t] + 1] = IF @ = "none" THEN @ ELSE "cancelled"]
      BY <1>2, <2>2 DEF HandlerCancel, CancelEntry
    <3>2. /\ thread' \in [Threads -> {"none", "wait", "awake", "cancelled"}]
          /\ \A u \in Threads : thread'[u] = "none" <=> thread[u] = "none"
      BY <3>t DEF TypeOK
    <3>3. thread = NoThreads => thread' = NoThreads
      BY <3>2 DEF NoThreads
    <3>4. /\ hdl' \in [Handlers -> HdlType]
          /\ \A u \in Handlers : hdl'[u] # hdl[u] => u = t /\ hdl'[u] = "unlink"
      BY <3>1 DEF TypeOK
    <3>5. i' \in [Handlers -> 0..MaxThreads]
      <4>1. i[t] < num_threads => i[t] + 1 \in 0..MaxThreads
        BY DEF TypeOK
      <4> QED BY <3>1, <4>1 DEF TypeOK
    <3>6. TypeOK'
      BY <2>0, <3>1, <3>2, <3>4, <3>5 DEF semVars, poolVars, TypeOK
    <3>7. FactoryOK'
      BY <2>0, <3>1, <3>3 DEF semVars, poolVars, FactoryOK
    <3>8. fac \notin {"start", "exited", "fatal", "crashed"}
      BY <2>0 DEF HandlersOK, NoHandlers
    <3>9. t \in Threads => thread[t] # "none"
      BY <2>0 DEF HandlersOK
    <3>10. HandlersOK'
      BY <2>0, <3>1, <3>2, <3>4, <3>8, <3>9 DEF semVars, poolVars, HandlersOK, Handlers
    <3> QED BY <2>0, <3>1, <3>6, <3>7, <3>10 DEF semVars, poolVars, SemsOK, ValueOK, KillUnlinks
  <2> QED BY <2>1, <2>2
<1>3. CASE HandlerUnlink(t)
  <2>1. /\ name' = NoSem /\ UNCHANGED <<made, value, posted, fac, poolVars, thread, i, signals, early, waker>>
        /\ hdl' = [hdl EXCEPT ![t] = "free"] /\ hdl[t] = "unlink"
    BY <1>3 DEF HandlerUnlink, sem_unlink
  <2>2. hdl' \in [Handlers -> HdlType] /\ \A u \in Handlers : hdl'[u] # hdl[u] => u = t
    BY <2>1 DEF TypeOK
  <2>3. TypeOK' /\ FactoryOK'
    BY <2>1, <2>2 DEF poolVars, TypeOK, FactoryOK
  <2>4. psem' = NoSem \/ name' # psem'
    BY <2>1 DEF TypeOK, Sems, NoSem
  <2>5. fac \notin {"start", "exited", "fatal", "crashed"} /\ (t \in Threads => thread[t] # "none")
    BY <2>1 DEF HandlersOK, NoHandlers
  <2>6. HandlersOK'
    BY <2>1, <2>2, <2>4, <2>5 DEF HandlersOK, Handlers
  <2>7. SemsOK' /\ ValueOK' /\ KillUnlinks'
    BY <2>1, <2>4 DEF poolVars, TypeOK, SemsOK, ValueOK, KillUnlinks, NoSem, Sems
  <2> QED BY <2>3, <2>6, <2>7
<1>4. CASE HandlerFree(t)
  <2>0. UNCHANGED <<semVars, psem, num_threads, pool, starts, signals, early, waker>> /\ hdl[t] = "free"
    BY <1>4 DEF HandlerFree
  <2>1. CASE Ends("crashed")
    <3>1. freed' \in BOOLEAN
      BY <1>4 DEF HandlerFree, TypeOK
    <3> QED BY <2>0, <2>1, <3>1, EndsOK
  <2>2. CASE ~Ends("crashed")
    <3>1. /\ freed' = (pool # NULL) /\ hdl' = [hdl EXCEPT ![t] = "exit"] /\ UNCHANGED <<fac, thread, i>>
      BY <1>4, <2>2 DEF HandlerFree
    <3>2. /\ hdl' \in [Handlers -> HdlType]
          /\ \A u \in Handlers : hdl'[u] = IF u = t THEN "exit" ELSE hdl[u]
      BY <3>1 DEF TypeOK
    <3>3. TypeOK' /\ FactoryOK'
      BY <2>0, <3>1, <3>2 DEF semVars, TypeOK, FactoryOK
    <3>4. fac \notin {"start", "exited", "fatal", "crashed"} /\ (t \in Threads => thread[t] # "none")
      BY <2>0 DEF HandlersOK, NoHandlers
    <3>5. HandlersOK'
      BY <2>0, <3>1, <3>2, <3>4 DEF semVars, HandlersOK, Handlers
    <3> QED BY <2>0, <3>1, <3>3, <3>5 DEF semVars, SemsOK, ValueOK, KillUnlinks
  <2> QED BY <2>1, <2>2
<1>5. CASE HandlerExit(t)
  <2>1. /\ UNCHANGED <<semVars, poolVars, signals, early, waker>> /\ hdl[t] = "exit" /\ Ends("exited")
    BY <1>5 DEF HandlerExit
  <2>2. psem = NoSem \/ name # psem
    BY <2>1 DEF HandlersOK
  <2> QED BY <2>1, <2>2, EndsOK DEF poolVars, TypeOK
<1> QED BY <1>1, <1>2, <1>3, <1>4, <1>5 DEF Handler

LEMMA StartIInv == ASSUME IInv, Start PROVE IInv'
<1> USE ThreadPoolAssumption DEF IInv
<1>1. hdl = NoHandlers /\ thread = NoThreads
  BY DEF Start, FactoryOK, HandlersOK, Up, TypeOK
<1>2. TypeOK'
  <2>1. starts' \in 0..MaxStarts /\ signals' \in 0..MaxSignals /\ pool' \in NULL..MaxThreads
    BY DEF Start, TypeOK, NULL
  <2> QED BY <2>1 DEF Start, semVars, TypeOK
<1>4. FactoryOK'
  BY <1>1 DEF Start, FactoryOK, HasSem
<1>5. SemsOK' /\ ValueOK' /\ KillUnlinks'
  BY DEF Start, semVars, TypeOK, SemsOK, ValueOK, KillUnlinks, NoSem
<1>3. HandlersOK'
  BY <1>1 DEF Start, HandlersOK, NoHandlers, Handlers
<1> QED BY <1>2, <1>3, <1>4, <1>5

(* The name is nobody's or that of a semaphore made after the factory's, if *)
(* the factory has unlinked it: a waker may take the former and make the    *)
(* latter.                                                                  *)
LEMMA WakerIInv ==
  ASSUME IInv, NEW w \in Wakers,
         \/ WakerOpen(w) \/ WakerRead(w) \/ WakerQuit(w)
         \/ WakerPost(w) \/ WakerPosted(w) \/ WakerDies(w)
  PROVE  IInv'
<1> USE ThreadPoolAssumption DEF IInv
<1> DEFINE WakerType == [pc : {"off", "prompt", "typed", "exited"}, sem : Sems \cup {NoSem},
                         typed : Requests \cup {0}, left : Int]
<1>f. UNCHANGED facVars
  BY DEF WakerOpen, WakerRead, WakerQuit, WakerPost, WakerPosted, WakerDies
<1>u. fac' = fac /\ psem' = psem /\ hdl' = hdl
  BY <1>f DEF facVars, poolVars, sigVars
<1>1. CASE WakerOpen(w)
  <2> PICK s \in Sems :
        sem_open(s) /\ waker' = [waker EXCEPT ![w] = At("prompt", s, 0)]
    BY <1>1 DEF WakerOpen
  <2>1. /\ name' = s /\ made' \in 0..MaxSems /\ made <= made' /\ s <= made'
        /\ UNCHANGED <<value, posted>>
        /\ name = NoSem => made < s
        /\ name # NoSem => name' = name
    BY SemOpen
  <2>o. At("prompt", s, 0) \in WakerType
    BY DEF At
  <2>2. waker' \in [Wakers -> WakerType]
    BY <2>o DEF TypeOK
  <2>3. TypeOK'
    BY <2>1, <2>2, <1>f DEF TypeOK, facVars, poolVars, sigVars
  <2>4. psem = NoSem \/ name # psem => psem' = NoSem \/ name' # psem'
    BY <2>1, <1>u DEF TypeOK, SemsOK, NoSem, Sems
  <2>5. FactoryOK' /\ HandlersOK' /\ KillUnlinks'
    BY <2>4, <1>f DEF FactoryOK, HandlersOK, KillUnlinks, facVars, poolVars, sigVars
  <2>6. SemsOK'
    <3>1. psem' <= made' /\ name' <= made'
      BY <2>1, <1>u DEF SemsOK, TypeOK, Sems, NoSem
    <3>2. \A v \in Wakers : waker'[v].pc \in {"prompt", "typed"} => waker'[v].sem \in Sems
      BY DEF SemsOK, TypeOK, Off, At
    <3> QED BY <3>1, <3>2 DEF SemsOK
  <2>7. ValueOK'
    BY <2>1 DEF ValueOK
  <2> QED BY <2>3, <2>5, <2>6, <2>7
<1>2. CASE WakerRead(w) \/ WakerPosted(w) \/ WakerDies(w)
  <2>0. PICK new \in WakerType :
          /\ waker' = [waker EXCEPT ![w] = new]
          /\ new.pc \in {"prompt", "typed"} => new.sem \in Sems
    <3> waker[w] \in WakerType /\ Off \in WakerType
      BY DEF TypeOK, Off, At
    <3>1. CASE WakerRead(w)
      <4> PICK n \in Requests :
            waker' = [waker EXCEPT ![w].typed = n, ![w].left = n, ![w].pc = "typed"]
        BY <3>1 DEF WakerRead
      <4> WITNESS [waker[w] EXCEPT !.typed = n, !.left = n, !.pc = "typed"] \in WakerType
      <4> QED BY <3>1 DEF WakerRead, TypeOK, SemsOK
    <3>2. CASE WakerPosted(w)
      <4> WITNESS [waker[w] EXCEPT !.pc = "prompt"] \in WakerType
      <4> QED BY <3>2 DEF WakerPosted, Posting, TypeOK, SemsOK
    <3>3. CASE WakerDies(w)
      BY <3>3 DEF WakerDies, Off, At
    <3> QED BY <1>2, <3>1, <3>2, <3>3
  <2>1. waker' \in [Wakers -> WakerType]
    BY <2>0 DEF TypeOK
  <2>2. \A v \in Wakers : waker'[v].pc \in {"prompt", "typed"} => waker'[v].sem \in Sems
    BY <2>0 DEF TypeOK, SemsOK
  <2>3. UNCHANGED semVars
    BY <1>2 DEF WakerRead, WakerPosted, WakerDies
  <2> QED BY <2>1, <2>2, <2>3, <1>f
        DEF TypeOK, FactoryOK, HandlersOK, SemsOK, ValueOK, KillUnlinks, semVars, facVars, poolVars, sigVars
<1>3. CASE WakerQuit(w)
  <2>o. At("exited", NoSem, waker[w].typed) \in WakerType
    BY DEF At, TypeOK
  <2>1. waker' \in [Wakers -> WakerType]
    BY <1>3, <2>o DEF WakerQuit, TypeOK
  <2>2. \A v \in Wakers : waker'[v].pc \in {"prompt", "typed"} => waker'[v].sem \in Sems
    BY <1>3 DEF WakerQuit, Off, At, TypeOK, SemsOK
  <2>3. name' = NoSem /\ UNCHANGED <<made, value, posted>>
    BY <1>3 DEF WakerQuit, sem_unlink
  <2>4. TypeOK'
    BY <2>1, <2>3, <1>f DEF TypeOK, facVars, poolVars, sigVars
  <2>5. FactoryOK' /\ HandlersOK' /\ KillUnlinks'
    BY <2>3, <1>f DEF FactoryOK, HandlersOK, KillUnlinks, facVars, poolVars, sigVars, Sems, NoSem
  <2>6. SemsOK'
    BY <2>2, <2>3, <1>u DEF SemsOK, TypeOK, NoSem
  <2> QED BY <2>3, <2>4, <2>5, <2>6 DEF ValueOK
<1>4. CASE WakerPost(w)
  <2> DEFINE s == waker[w].sem
  <2>1. s \in Sems /\ posted[s] < MaxPosts
    BY <1>4 DEF WakerPost, Posting, SemsOK
  <2>2. waker' \in [Wakers -> WakerType]
    BY <1>4 DEF WakerPost, TypeOK
  <2>3. posted' \in [Sems -> 0..MaxPosts] /\ value' \in [Sems -> Int]
    BY <1>4, <2>1 DEF WakerPost, TypeOK
  <2>4. ValueOK'
    BY <1>4, <2>1 DEF WakerPost, TypeOK, ValueOK
  <2>5. \A q \in Sems : value'[q] \in 0..MaxPosts
    BY <1>4, <2>1, <2>3, <2>4 DEF WakerPost, TypeOK, ValueOK
  <2>6. value' \in [Sems -> 0..MaxPosts]
    BY <2>3, <2>5
  <2>7. TypeOK'
    BY <1>4, <1>f, <2>2, <2>3, <2>6 DEF WakerPost, TypeOK, facVars, poolVars, sigVars
  <2>8. SemsOK'
    <3>1. \A v \in Wakers : waker'[v].pc = waker[v].pc /\ waker'[v].sem = waker[v].sem
      BY <1>4 DEF WakerPost, TypeOK
    <3> QED BY <1>4, <1>u, <3>1 DEF WakerPost, SemsOK
  <2>9. FactoryOK' /\ HandlersOK' /\ KillUnlinks'
    BY <1>4, <1>f DEF WakerPost, FactoryOK, HandlersOK, KillUnlinks, facVars, poolVars, sigVars
  <2> QED BY <2>4, <2>7, <2>8, <2>9
<1> QED BY <1>1, <1>2, <1>3, <1>4

LEMMA Invariance == Spec => []IInv
<1>1. IInv /\ UNCHANGED vars => IInv'
  BY DEF vars, semVars, facVars, poolVars, sigVars, IInv, TypeOK, FactoryOK, HandlersOK, HasSem,
     SemsOK, ValueOK, KillUnlinks
<1>2. IInv /\ [Next]_vars => IInv'
  BY <1>1, MainStepIInv, ThreadStepIInv, HandlerIInv, StartIInv, WakerIInv DEF Next
<1> QED BY InitIInv, <1>2, PTL DEF Spec

(* In particular main and threads use psem only when it is a semaphore, and *)
(* thread_pool only within its bounds.                                      *)
THEOREM TypeCorrect == Spec => []TypeOK
<1>1. IInv => TypeOK  BY DEF IInv
<1> QED BY Invariance, <1>1, PTL

(* No factory that ends by itself leaves its semaphore to the next one,     *)
(* whichever thread ran the handler and how many of them did.               *)
THEOREM KilledFactoryUnlinks == Spec => []KillUnlinks
<1>1. IInv => KillUnlinks  BY DEF IInv
<1> QED BY Invariance, <1>1, PTL

-----------------------------------------------------------------------------
(* What signals do.  A first handler is alone and has not freed the pool    *)
(* until it is about to exit; before any signal there is none; and a signal *)
(* that finds main making its pool is an early one, because main does not   *)
(* begin to make it under a handler.                                        *)
CrashOK ==
  /\ CrashExplained
  /\ signals = 0 => hdl = NoHandlers /\ ~freed
  /\ signals = 1 => \A t, u \in Handlers : hdl[t] # "none" /\ hdl[u] # "none" => t = u
  /\ signals = 1 /\ freed => \A t \in Handlers : hdl[t] \in {"none", "exit"}
  /\ ~early /\ Making => hdl = NoHandlers /\ ~freed

(* A process that has ended, by a crash that is explained or by a handler's *)
(* exit.                                                                    *)
LEMMA EndsCrashOK ==
  ASSUME IInv, CrashOK, NEW how \in {"exited", "crashed"}, Ends(how),
         UNCHANGED <<signals, early>>, how = "crashed" => early \/ signals > 1,
         signals = 0 => ~freed'
  PROVE  CrashOK'
<1>1. CrashExplained' /\ hdl' = NoHandlers /\ ~Making'
  BY DEF Ends, CrashExplained, Making
<1> QED BY <1>1 DEF CrashOK, NoHandlers

(* A handler at work on a complete pool that nobody frees reads only ids.   *)
LEMMA ReadsIds ==
  ASSUME IInv, CrashOK, ~early, NEW t \in Handlers, hdl[t] = "cancel", i[t] < num_threads
  PROVE  fac = "spin" /\ pool = num_threads /\ pool # NULL /\ i[t] < pool
<1>1. hdl # NoHandlers /\ i[t] \in 0..MaxThreads /\ num_threads > 0
  BY ThreadPoolAssumption DEF NoHandlers, IInv, TypeOK
<1>2. ~Making /\ fac \notin {"start", "open", "input", "exited", "fatal", "crashed"}
  BY <1>1 DEF CrashOK, IInv, HandlersOK, FactoryOK
<1>3. fac = "spin"
  BY <1>2 DEF Making, IInv, TypeOK
<1> QED BY <1>1, <1>3, ThreadPoolAssumption DEF IInv, FactoryOK, TypeOK, NULL

LEMMA CrashSteps == ASSUME IInv, CrashOK, Next PROVE CrashOK'
<1>0. signals \in Nat /\ early \in BOOLEAN /\ freed \in BOOLEAN
  BY ThreadPoolAssumption DEF IInv, TypeOK
<1>1. CASE MainStep \/ ReadCount
  <2>1. CASE StoreThread /\ Ends("crashed")
    <3>1. freed /\ freed' = freed /\ fac = "store" /\ UNCHANGED <<signals, early>>
      BY <2>1 DEF StoreThread, Ends, Main
    <3>2. early
      BY <3>1 DEF CrashOK, Making
    <3> QED BY <2>1, <3>1, <3>2, <1>0, EndsCrashOK DEF CrashOK
  <2>2. CASE ~(StoreThread /\ Ends("crashed"))
    <3>1. UNCHANGED <<freed, hdl, signals, early>> /\ fac' # "crashed" /\ hdl[MainThread] = "none"
      BY <1>1, <2>2 DEF MainStep, SigAction, OpenSem, ReadCount, Malloc, MallocFails, CreateThread,
         StoreThread, Main, poolVars, sigVars
    <3>2. ~early' /\ Making' => hdl = NoHandlers /\ ~freed
      <4>1. CASE ReadCount
        BY <4>1, <3>1, NobodyHandles DEF ReadCount, Main, IInv, FactoryOK
      <4>2. CASE MainStep
        BY <4>2, <3>1 DEF MainStep, SigAction, OpenSem, Malloc, MallocFails, CreateThread,
           StoreThread, Main, Making, CrashOK
      <4> QED BY <1>1, <4>1, <4>2
    <3> QED BY <3>1, <3>2 DEF CrashOK, CrashExplained
  <2> QED BY <2>1, <2>2
<1>2. CASE Start
  <2>1. hdl = NoHandlers
    BY <1>2 DEF Start, Up, IInv, HandlersOK, TypeOK
  <2> QED BY <1>2, <2>1 DEF Start, CrashOK, CrashExplained, NoHandlers
<1>3. ASSUME NEW t \in Threads, ThreadStep(t) PROVE CrashOK'
  BY <1>3 DEF ThreadStep, SemWait, Sleep, poolVars, sigVars, CrashOK, CrashExplained, Making
<1>4. ASSUME NEW t \in Threads, ThreadEnds(t) PROVE CrashOK'
  <2>1. /\ UNCHANGED <<fac, freed, signals, early>> /\ hdl' = [hdl EXCEPT ![t] = "none"]
    BY <1>4 DEF ThreadEnds, poolVars
  <2>2. \A u \in Handlers : hdl'[u] = hdl[u] \/ hdl'[u] = "none"
    BY <2>1 DEF IInv, TypeOK
  <2>3. hdl = NoHandlers => hdl' = NoHandlers
    BY <2>1 DEF NoHandlers
  <2> QED BY <2>1, <2>2, <2>3 DEF CrashOK, CrashExplained, Making
<1>5. ASSUME NEW t \in Handlers, Signal(t) PROVE CrashOK'
  <2>1. /\ signals' = signals + 1 /\ early' = (early \/ Making) /\ freed' = freed
        /\ hdl[t] = "none" /\ Up
    BY <1>5 DEF Signal, poolVars
  <2>2. \/ fac = "start" /\ fac' = "fatal" /\ hdl' = hdl
        \/ fac # "start" /\ fac' = fac /\ hdl' = [hdl EXCEPT ![t] = "cancel"]
    BY <1>5 DEF Signal
  <2>3. CrashExplained' /\ (Making' <=> Making)
    BY <2>1, <2>2 DEF CrashExplained, Up, Making
  <2>4. signals' # 0 /\ (signals' = 1 => signals = 0)
    BY <1>0, <2>1
  <2>5. signals' = 1 => \A u \in Handlers : hdl'[u] # "none" => u = t
    BY <2>2, <2>4 DEF CrashOK, NoHandlers, IInv, TypeOK
  <2> QED BY <2>1, <2>3, <2>4, <2>5 DEF CrashOK
<1>6. ASSUME NEW t \in Handlers, Handler(t) PROVE CrashOK'
  <2>0. hdl[t] # "none" /\ hdl # NoHandlers /\ signals # 0 /\ UNCHANGED <<signals, early>>
    BY <1>6 DEF Handler, HandlerCancel, HandlerUnlink, HandlerFree, HandlerExit, NoHandlers, CrashOK
  <2>1. CASE Ends("crashed")
    <3>1. fac' = "crashed"
      BY <2>1 DEF Ends
    <3>2. fac # "crashed"
      BY <2>0 DEF IInv, HandlersOK
    <3>3. CASE HandlerCancel(t)
      <4>1. hdl[t] = "cancel" /\ i[t] < num_threads /\ (pool = NULL \/ freed \/ i[t] >= pool)
        BY <3>1, <3>2, <3>3 DEF HandlerCancel, CancelEntry
      <4>2. early \/ signals > 1
        <5>1. signals = 1 => ~freed
          BY <4>1 DEF CrashOK
        <5>2. ~early => pool # NULL /\ i[t] < pool /\ num_threads \in Int /\ i[t] \in Int /\ pool = num_threads
          BY <4>1, ReadsIds, ThreadPoolAssumption DEF IInv, TypeOK
        <5>3. ~early => freed
          BY <4>1, <5>2
        <5> QED BY <1>0, <2>0, <5>1, <5>3
      <4> QED BY <2>0, <2>1, <4>2, EndsCrashOK
    <3>4. CASE HandlerFree(t)
      <4>1. hdl[t] = "free" /\ freed
        BY <3>1, <3>2, <3>4 DEF HandlerFree
      <4>2. early \/ signals > 1
        BY <1>0, <2>0, <4>1 DEF CrashOK
      <4> QED BY <2>0, <2>1, <4>2, EndsCrashOK
    <3>5. CASE HandlerUnlink(t) \/ HandlerExit(t)
      BY <3>1, <3>2, <3>5 DEF HandlerUnlink, HandlerExit, Ends
    <3> QED BY <1>6, <3>3, <3>4, <3>5 DEF Handler
  <2>2. CASE HandlerExit(t)
    BY <2>0, <2>2, EndsCrashOK DEF HandlerExit
  <2>3. CASE ~Ends("crashed") /\ ~HandlerExit(t)
    <3>1. /\ fac' = fac
          /\ \A u \in Handlers : hdl'[u] # hdl[u] => u = t
      BY <1>6, <2>3 DEF Handler, HandlerCancel, CancelEntry, HandlerUnlink, HandlerFree, IInv, TypeOK
    <3>2. freed' # freed => hdl'[t] = "exit"
      BY <1>6, <2>3 DEF Handler, HandlerCancel, HandlerUnlink, HandlerFree, poolVars, IInv, TypeOK
    <3>3. freed => hdl[t] = "exit" \/ signals # 1
      BY <2>0 DEF CrashOK
    <3>4. hdl[t] # "exit"
      BY <1>6, <2>3 DEF Handler, HandlerCancel, HandlerUnlink, HandlerFree
    <3>5. ~early => ~Making
      BY <2>0 DEF CrashOK
    <3>6. signals = 1 => \A u \in Handlers : u # t => hdl'[u] = "none"
      BY <2>0, <3>1 DEF CrashOK
    <3> QED BY <2>0, <3>1, <3>2, <3>3, <3>4, <3>5, <3>6 DEF CrashOK, CrashExplained, Making
  <2> QED BY <1>6, <2>1, <2>2, <2>3
<1>7. ASSUME NEW w \in Wakers,
             \/ WakerOpen(w) \/ WakerRead(w) \/ WakerQuit(w)
             \/ WakerPost(w) \/ WakerPosted(w) \/ WakerDies(w)
      PROVE  CrashOK'
  <2>1. UNCHANGED facVars
    BY <1>7 DEF WakerOpen, WakerRead, WakerQuit, WakerPost, WakerPosted, WakerDies
  <2> QED BY <2>1 DEF facVars, poolVars, sigVars, CrashOK, CrashExplained, Making
<1> QED BY <1>1, <1>2, <1>3, <1>4, <1>5, <1>6, <1>7 DEF Next

LEMMA CrashInvariance == Spec => []CrashOK
<1>1. Init => CrashOK
  BY DEF Init, CrashOK, CrashExplained, NoHandlers, Making
<1>2. IInv /\ CrashOK /\ [Next]_vars => CrashOK'
  BY CrashSteps DEF vars, facVars, poolVars, sigVars, CrashOK, CrashExplained, Making
<1> QED BY <1>1, <1>2, Invariance, PTL DEF Spec

(* A factory crashes only if a signal came while it made its pool, or more  *)
(* than one came.                                                           *)
THEOREM CrashesAreExplained == Spec => []CrashExplained
<1>1. CrashOK => CrashExplained  BY DEF CrashOK
<1> QED BY CrashInvariance, <1>1, PTL

-----------------------------------------------------------------------------
(* What becomes of the threads.  Entries that a handler has gone through    *)
(* hold threads that are gone; there are threads for the entries of the     *)
(* pool, and one more between its creation and its entry's being written.   *)
Gone(u) == thread[u] \in {"none", "cancelled"}
Live(u) == thread[u] \in {"wait", "awake"}

Created == IF fac = "store" THEN pool + 1 ELSE pool

ThreadsOK ==
  /\ fac \in {"create", "store", "spin"} =>
       /\ \A u \in Threads : u > Created => thread[u] = "none"
       /\ signals = 0 => \A u \in Threads : u <= Created => Live(u)
  /\ \A t \in Handlers : hdl[t] = "none" => i[t] = 0
  /\ ~early /\ freed => \A u \in Threads : Gone(u)
  /\ ~early => \A t \in Handlers : \A u \in Threads :
       hdl[t] = "cancel" /\ u <= i[t] => Gone(u)
  /\ PoolIsCancelled

(* Nothing is left to show once the process has ended.                      *)
LEMMA EndsThreadsOK ==
  ASSUME IInv, NEW how \in {"exited", "crashed"}, Ends(how) PROVE ThreadsOK'
  BY DEF Ends, ThreadsOK, NoThreads, NoHandlers, Gone, PoolIsCancelled

LEMMA ThreadsSteps == ASSUME IInv, CrashOK, ThreadsOK, Next PROVE ThreadsOK'
<1> USE ThreadPoolAssumption
<1>0. num_threads \in Int /\ pool \in Int /\ Threads \subseteq Nat /\ signals \in Nat
  BY DEF IInv, TypeOK, Threads, NULL
<1>1. CASE MainStep \/ ReadCount
  <2>1. CASE StoreThread /\ Ends("crashed")
    BY <2>1, EndsThreadsOK
  <2>2. CASE StoreThread /\ ~Ends("crashed")
    <3>1. /\ fac = "store" /\ fac' \in {"create", "spin"} /\ pool' = pool + 1
          /\ UNCHANGED <<thread, hdl, i, freed, signals, early>>
      BY <2>2 DEF StoreThread, Main
    <3> QED BY <3>1 DEF ThreadsOK, Created, Gone, Live, PoolIsCancelled
  <2>3. CASE CreateThread
    <3>1. /\ fac = "create" /\ fac' = "store" /\ pool' = pool
          /\ thread' = [thread EXCEPT ![pool + 1] = "wait"]
          /\ UNCHANGED <<hdl, i, freed, signals, early>>
      BY <2>3 DEF CreateThread, Main, poolVars, sigVars
    <3>2. ~early => hdl = NoHandlers /\ ~freed
      BY <3>1 DEF CrashOK, Making
    <3>3. /\ \A u \in Threads : u # pool + 1 => thread'[u] = thread[u]
          /\ \A u \in Threads : u = pool + 1 => thread'[u] = "wait"
      BY <3>1 DEF IInv, TypeOK
    <3>4. fac' \in {"create", "store", "spin"} =>
            /\ \A u \in Threads : u > Created' => thread'[u] = "none"
            /\ signals' = 0 => \A u \in Threads : u <= Created' => Live(u)'
      BY <1>0, <3>1, <3>3 DEF ThreadsOK, Created, Live
    <3>5. /\ \A t \in Handlers : hdl'[t] = "none" => i'[t] = 0
          /\ ~early' /\ freed' => \A u \in Threads : Gone(u)'
      BY <3>1, <3>2 DEF ThreadsOK
    <3>6. /\ ~early' => \A t \in Handlers : \A u \in Threads :
               hdl'[t] = "cancel" /\ u <= i'[t] => Gone(u)'
          /\ PoolIsCancelled'
      BY <3>1, <3>2 DEF NoHandlers, PoolIsCancelled
    <3> QED BY <3>4, <3>5, <3>6 DEF ThreadsOK
  <2>4. CASE Malloc
    <3>1. /\ fac' = "create" /\ pool' = 0 /\ thread = NoThreads
          /\ UNCHANGED <<thread, hdl, i, freed, signals, early>>
      BY <2>4 DEF Malloc, Main, sigVars, IInv, FactoryOK
    <3>2. \A u \in Threads : thread'[u] = "none" /\ u > 0
      BY <3>1 DEF NoThreads, Threads
    <3>3. fac' \in {"create", "store", "spin"} =>
            /\ \A u \in Threads : u > Created' => thread'[u] = "none"
            /\ signals' = 0 => \A u \in Threads : u <= Created' => Live(u)'
      BY <1>0, <3>1, <3>2 DEF Created
    <3> QED BY <3>1, <3>3 DEF ThreadsOK, Gone, PoolIsCancelled
  <2>5. CASE SigAction \/ OpenSem \/ ReadCount \/ MallocFails
    BY <2>5 DEF SigAction, OpenSem, ReadCount, MallocFails, Main, sigVars, poolVars, ThreadsOK,
       Gone, PoolIsCancelled
  <2> QED BY <1>1, <2>1, <2>2, <2>3, <2>4, <2>5 DEF MainStep
<1>2. CASE Start
  <2>1. /\ thread = NoThreads /\ hdl = NoHandlers /\ fac' = "start"
        /\ UNCHANGED <<thread, hdl, i>>
    BY <1>2 DEF Start, Up, IInv, FactoryOK, HandlersOK, TypeOK
  <2> QED BY <2>1 DEF ThreadsOK, Gone, NoThreads, NoHandlers, PoolIsCancelled
<1>3. ASSUME NEW t \in Threads, ThreadStep(t) PROVE ThreadsOK'
  <2>1. /\ Live(t) /\ thread'[t] \in {"wait", "awake"}
        /\ \A u \in Threads : u # t => thread'[u] = thread[u]
        /\ UNCHANGED <<fac, pool, hdl, i, freed, signals, early>>
    BY <1>3 DEF ThreadStep, SemWait, Sleep, Runs, Live, poolVars, sigVars, IInv, TypeOK
  <2>2. \A u \in Threads : (Gone(u)' <=> Gone(u)) /\ (Live(u)' <=> Live(u))
                           /\ (thread'[u] = "none" <=> thread[u] = "none")
    BY <2>1 DEF Gone, Live
  <2> QED BY <2>1, <2>2 DEF ThreadsOK, Created, PoolIsCancelled, Gone
<1>4. ASSUME NEW t \in Threads, ThreadEnds(t) PROVE ThreadsOK'
  <2>1. /\ UNCHANGED <<fac, pool, freed, signals, early>> /\ thread[t] = "cancelled" /\ Up
        /\ thread' = [thread EXCEPT ![t] = "none"]
        /\ hdl' = [hdl EXCEPT ![t] = "none"] /\ i' = [i EXCEPT ![t] = 0]
    BY <1>4 DEF ThreadEnds, poolVars
  <2>2. \A u \in Threads : thread'[u] = IF u = t THEN "none" ELSE thread[u]
    BY <2>1 DEF IInv, TypeOK
  <2>3. \A u \in Handlers : /\ hdl'[u] = hdl[u] \/ (hdl'[u] = "none" /\ i'[u] = 0)
                            /\ i'[u] = i[u] \/ hdl'[u] = "none"
    BY <2>1 DEF IInv, TypeOK
  <2>4. \A u \in Threads : Gone(u) => Gone(u)'
    BY <2>2 DEF Gone
  <2>5. fac \in {"create", "store", "spin"} => signals # 0
    <3> SUFFICES ASSUME fac \in {"create", "store", "spin"}, signals = 0 PROVE FALSE OBVIOUS
    <3>1. ~(t > Created) /\ ~(t <= Created)
      BY <2>1 DEF ThreadsOK, Live
    <3> QED BY <1>0, <3>1 DEF Created
  <2>6. fac' \in {"create", "store", "spin"} =>
          /\ \A u \in Threads : u > Created' => thread'[u] = "none"
          /\ signals' = 0 => \A u \in Threads : u <= Created' => Live(u)'
    BY <2>1, <2>2, <2>5 DEF ThreadsOK, Created
  <2>7. PoolIsCancelled'
    BY <2>1, <2>3, <2>4 DEF ThreadsOK, PoolIsCancelled, Gone
  <2> QED BY <2>1, <2>3, <2>4, <2>6, <2>7 DEF ThreadsOK
<1>5. ASSUME NEW t \in Handlers, Signal(t) PROVE ThreadsOK'
  <2>1. /\ signals' = signals + 1 /\ early' = (early \/ Making) /\ hdl[t] = "none"
        /\ UNCHANGED <<pool, freed, thread, i>> /\ fac' \in {fac, "fatal"}
        /\ hdl' \in {hdl, [hdl EXCEPT ![t] = "cancel"]}
    BY <1>5 DEF Signal, poolVars
  <2>2. i[t] = 0 /\ signals' # 0
    BY <1>0, <2>1 DEF ThreadsOK
  <2>3. \A u \in Handlers : hdl'[u] = hdl[u] \/ (u = t /\ hdl'[u] = "cancel")
    BY <2>1 DEF IInv, TypeOK
  <2>4. PoolIsCancelled'
    BY <2>1, <2>3 DEF ThreadsOK, PoolIsCancelled
  <2>5. ~early' => \A s \in Handlers : \A u \in Threads :
          hdl'[s] = "cancel" /\ u <= i'[s] => Gone(u)'
    <3> SUFFICES ASSUME ~early', NEW s \in Handlers, NEW u \in Threads,
                        hdl'[s] = "cancel", u <= i[s]
                 PROVE  Gone(u)
      BY <2>1 DEF Gone
    <3>1. u > 0
      BY DEF Threads
    <3>2. s # t
      BY <1>0, <2>2, <3>1
    <3> QED BY <2>1, <2>3, <3>2 DEF ThreadsOK
  <2> QED BY <2>1, <2>2, <2>3, <2>4, <2>5 DEF ThreadsOK, Created, Gone
<1>6. ASSUME NEW t \in Handlers, Handler(t), ~Ends("crashed"), ~Ends("exited") PROVE ThreadsOK'
  <2>0. /\ hdl[t] # "none" /\ signals # 0
        /\ UNCHANGED <<fac, num_threads, pool, signals, early>>
    <3>1. hdl[t] # "none" /\ UNCHANGED <<fac, num_threads, pool, signals, early>>
      BY <1>6 DEF Handler, HandlerCancel, CancelEntry, HandlerUnlink, HandlerFree, HandlerExit, poolVars
    <3> QED BY <3>1 DEF NoHandlers, CrashOK
  <2>1. \A u \in Threads : /\ Gone(u) => Gone(u)'
                           /\ thread[u] = "none" => thread'[u] = "none"
    <3>1. \/ thread' = thread
          \/ thread' = [thread EXCEPT ![i[t] + 1] = IF @ = "none" THEN @ ELSE "cancelled"]
      BY <1>6 DEF Handler, HandlerCancel, CancelEntry, HandlerUnlink, HandlerFree, HandlerExit
    <3> QED BY <3>1 DEF Gone, IInv, TypeOK
  <2>2. \A u \in Handlers : u # t => hdl'[u] = hdl[u] /\ i'[u] = i[u]
    BY <1>6 DEF Handler, HandlerCancel, CancelEntry, HandlerUnlink, HandlerFree, HandlerExit, IInv, TypeOK
  <2>3. hdl'[t] # "none"
    BY <1>6, <2>0 DEF Handler, HandlerCancel, CancelEntry, HandlerUnlink, HandlerFree, HandlerExit,
       IInv, TypeOK
  <2>4. ~early /\ hdl'[t] = "cancel" => \A u \in Threads : u <= i'[t] => Gone(u)'
    <3> SUFFICES ASSUME ~early, hdl'[t] = "cancel", NEW u \in Threads, u <= i'[t] PROVE Gone(u)'
      OBVIOUS
    <3>1. HandlerCancel(t) /\ hdl[t] = "cancel" /\ i[t] < num_threads
      BY <1>6 DEF Handler, HandlerCancel, HandlerUnlink, HandlerFree, HandlerExit, Ends, IInv, TypeOK
    <3>2. pool # NULL /\ i[t] < pool /\ i[t] \in Nat
      BY <3>1, ReadsIds DEF IInv, TypeOK
    <3>3. /\ i' = [i EXCEPT ![t] = @ + 1]
          /\ \/ thread' = [thread EXCEPT ![i[t] + 1] = IF @ = "none" THEN @ ELSE "cancelled"]
             \/ freed
      BY <1>0, <1>6, <3>1, <3>2 DEF HandlerCancel, CancelEntry
    <3>4. i'[t] = i[t] + 1
      BY <3>3 DEF IInv, TypeOK
    <3>5. CASE freed
      BY <2>1, <3>5 DEF ThreadsOK
    <3>6. CASE u <= i[t]
      BY <2>1, <3>1, <3>6 DEF ThreadsOK
    <3>7. CASE ~freed /\ u = i[t] + 1
      BY <3>3, <3>7 DEF Gone, IInv, TypeOK
    <3> QED BY <1>0, <3>2, <3>4, <3>5, <3>6, <3>7
  <2>5. ~early /\ hdl'[t] \in {"unlink", "free", "exit"} => \A u \in Threads : Gone(u)'
    <3> SUFFICES ASSUME ~early, hdl'[t] \in {"unlink", "free", "exit"}, NEW u \in Threads PROVE Gone(u)
      BY <2>1
    <3>1. CASE hdl[t] # "cancel"
      BY <2>0, <3>1 DEF ThreadsOK, PoolIsCancelled, Gone, IInv, TypeOK
    <3>2. CASE hdl[t] = "cancel"
      <4>1. ~(i[t] < num_threads)
        BY <1>6, <3>2 DEF Handler, HandlerCancel, CancelEntry, HandlerUnlink, HandlerFree, HandlerExit
      <4>2. CASE fac # "spin"
        <5>1. fac \notin {"create", "store"}
          BY <2>0 DEF CrashOK, Making, NoHandlers
        <5> QED BY <4>2, <5>1 DEF IInv, FactoryOK, NoThreads, Gone
      <4>3. CASE fac = "spin"
        <5>1. i[t] \in Int /\ Created = num_threads
          BY <4>3 DEF Created, IInv, TypeOK, FactoryOK
        <5>2. u <= i[t] \/ u > Created
          BY <1>0, <4>1, <5>1
        <5> QED BY <3>2, <4>3, <5>2 DEF ThreadsOK, Gone
      <4> QED BY <4>2, <4>3
    <3> QED BY <3>1, <3>2
  <2>6. ~early /\ freed' => \A u \in Threads : Gone(u)'
    <3>1. freed' # freed => hdl[t] = "free"
      BY <1>6 DEF Handler, HandlerCancel, HandlerUnlink, HandlerFree, HandlerExit, poolVars
    <3> QED BY <2>0, <2>1, <3>1 DEF ThreadsOK, PoolIsCancelled, Gone
  <2>7. PoolIsCancelled'
    <3> SUFFICES ASSUME ~early, NEW s \in Handlers, hdl'[s] \in {"unlink", "free", "exit"},
                        NEW u \in Threads
                 PROVE  Gone(u)'
      BY <2>0 DEF PoolIsCancelled, Gone
    <3>1. CASE s = t
      BY <2>5, <3>1
    <3>2. CASE s # t
      BY <2>1, <2>2, <3>2 DEF ThreadsOK, PoolIsCancelled, Gone
    <3> QED BY <3>1, <3>2
  <2>8. ~early => \A s \in Handlers : \A u \in Threads : hdl'[s] = "cancel" /\ u <= i'[s] => Gone(u)'
    BY <2>1, <2>2, <2>4 DEF ThreadsOK
  <2> QED BY <2>0, <2>1, <2>2, <2>3, <2>6, <2>7, <2>8 DEF ThreadsOK, Created
<1>7. ASSUME NEW w \in Wakers,
             \/ WakerOpen(w) \/ WakerRead(w) \/ WakerQuit(w)
             \/ WakerPost(w) \/ WakerPosted(w) \/ WakerDies(w)
      PROVE  ThreadsOK'
  <2>1. UNCHANGED facVars
    BY <1>7 DEF WakerOpen, WakerRead, WakerQuit, WakerPost, WakerPosted, WakerDies
  <2> QED BY <2>1 DEF facVars, poolVars, sigVars, ThreadsOK, Gone, Live, Created, PoolIsCancelled
<1> QED BY <1>1, <1>2, <1>3, <1>4, <1>5, <1>6, <1>7, EndsThreadsOK DEF Next

LEMMA ThreadsInvariance == Spec => []ThreadsOK
<1>1. Init => ThreadsOK
  BY DEF Init, ThreadsOK, NoThreads, NoHandlers, Gone, PoolIsCancelled
<1>2. IInv /\ CrashOK /\ ThreadsOK /\ [Next]_vars => ThreadsOK'
  BY ThreadsSteps DEF vars, facVars, poolVars, sigVars, ThreadsOK, Gone, Live, Created, PoolIsCancelled
<1> QED BY <1>1, <1>2, Invariance, CrashInvariance, PTL DEF Spec

(* No thread of a pool that was complete when signals came is left, once    *)
(* any of their handlers has gone through it.                               *)
THEOREM NoThreadSurvives == Spec => []PoolIsCancelled
<1>1. ThreadsOK => PoolIsCancelled  BY DEF ThreadsOK
<1> QED BY ThreadsInvariance, <1>1, PTL

(* Until a signal comes, the pool that main waits on has as many threads as *)
(* were asked for, and every one of them waits on the semaphore or sleeps   *)
(* and will be back: no number of posts uses a thread up.                   *)
ThreadsStay ==
  Undisturbed => num_threads > 0 /\ \A t \in 1..num_threads : t \in Threads /\ Live(t)

THEOREM NoThreadEnds == Spec => []ThreadsStay
<1>1. IInv /\ ThreadsOK => ThreadsStay
  <2> SUFFICES ASSUME IInv, ThreadsOK, Undisturbed
               PROVE  num_threads > 0 /\ \A t \in 1..num_threads : t \in Threads /\ Live(t)
    BY DEF ThreadsStay
  <2>1. fac = "spin" /\ signals = 0 /\ Created = num_threads
    BY DEF Undisturbed, Created, IInv, FactoryOK
  <2>2. num_threads \in Int /\ num_threads <= MaxThreads
    BY ThreadPoolAssumption DEF IInv, TypeOK
  <2>3. num_threads > 0
    BY <2>1, <2>2 DEF IInv, FactoryOK
  <2>4. ASSUME NEW t \in 1..num_threads PROVE t \in Threads /\ Live(t)
    BY <2>1, <2>2, <2>4, ThreadPoolAssumption DEF ThreadsOK, Threads
  <2> QED BY <2>3, <2>4
<1> QED BY Invariance, ThreadsInvariance, <1>1, PTL
=============================================================================
