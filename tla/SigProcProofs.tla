----------------------------- MODULE SigProcProofs -----------------------------
(***************************************************************************)
(* sigproc for every number of children: its types, that cleanup signals    *)
(* only written entries of the list, that nobody is left behind, and that   *)
(* no signal to a child is lost.                                            *)
(***************************************************************************)
EXTENDS SigProc, TLAPS

(* Main's loop: the entries below i are written, and i's own once it is     *)
(* stored.  A forked child takes over what is true of the list.             *)
ListIsPrefix ==
  /\ pc \in {"fork", "store", "next"} => i < numChildren
  /\ \A k \in 0..(i - 1) : k \in chld_list
  /\ pc = "next" => i \in chld_list
  /\ \A c \in Children : \A k \in 0..(child[c].i - 1) : k \in child[c].list

(* Before sigaction there is nobody to be orphaned.                         *)
NoneYet == pc = "sigaction" => \A c \in Children : child[c].pc = "none"

(* The inductive invariant.                                                 *)
IInv == TypeOK /\ ListIsPrefix /\ NoneYet /\ NoOrphans

(* A list all of whose entries below i are written is safe to go through.   *)
LEMMA PrefixIsSafe == TypeOK /\ ListIsPrefix => KillsOnlyChildren
  BY SigProcAssumption DEF TypeOK, ListIsPrefix, KillsOnlyChildren, Children

(* Main starts with an empty list.                                          *)
LEMMA InitIInv == Init => IInv
<1> SUFFICES ASSUME Init PROVE IInv OBVIOUS
<1>1. TypeOK
  <2>1. child \in [Children -> [pc : {"none", "born", "kill", "loop", "woken", "zombie", "reaped"},
                   i : 0..MaxChildren, j : 0..MaxChildren, list : SUBSET Children]]
    BY SigProcAssumption DEF Init, Unborn
  <2>2. masked \in BOOLEAN
    BY DEF Init
  <2> QED BY <2>1, <2>2, SigProcAssumption DEF Init, TypeOK
<1>2. ListIsPrefix
  BY SigProcAssumption DEF Init, ListIsPrefix, Unborn
<1>3. NoneYet /\ NoOrphans
  BY DEF Init, NoneYet, NoOrphans, Unborn
<1> QED BY <1>1, <1>2, <1>3 DEF IInv

(* The parent's steps keep the invariant.                                   *)
LEMMA ParentStepIInv == ASSUME IInv, ParentStep PROVE IInv'
<1> USE SigProcAssumption DEF IInv
<1>n. numChildren \in Int /\ numChildren <= MaxChildren /\ MaxChildren \in Nat \ {0}
  BY DEF TypeOK
<1>1. CASE SigAction
  <2>1. TypeOK'  BY <1>1 DEF SigAction, NextIteration, TypeOK
  <2>2. ListIsPrefix'
    BY <1>1, <1>n DEF SigAction, NextIteration, TypeOK, ListIsPrefix
  <2>3. NoneYet' /\ NoOrphans'
    BY <1>1 DEF SigAction, NextIteration, NoneYet, NoOrphans
  <2> QED BY <2>1, <2>2, <2>3
<1>2. CASE Fork
  <2>i. i \in Children
    BY <1>2, <1>n DEF Fork, TypeOK, ListIsPrefix, Children
  <2>1. TypeOK'  BY <1>2, <2>i DEF Fork, TypeOK
  <2>2. ListIsPrefix'
    BY <1>2, <2>i DEF Fork, TypeOK, ListIsPrefix
  <2>3. NoneYet' /\ NoOrphans'
    BY <1>2 DEF Fork, NoneYet, NoOrphans
  <2> QED BY <2>1, <2>2, <2>3
<1>3. CASE ForkFails
  BY <1>3 DEF ForkFails, TypeOK, ListIsPrefix, NoneYet, NoOrphans
<1>4. CASE Store
  <2>i. i \in Children
    BY <1>4, <1>n DEF Store, TypeOK, ListIsPrefix, Children
  <2> QED BY <1>4, <2>i DEF Store, TypeOK, ListIsPrefix, NoneYet, NoOrphans
<1>5. CASE Count
  <2>1. TypeOK'
    BY <1>5, <1>n DEF Count, NextIteration, TypeOK, ListIsPrefix
  <2>2. ListIsPrefix'
    BY <1>5, <1>n DEF Count, NextIteration, TypeOK, ListIsPrefix
  <2>3. NoneYet' /\ NoOrphans'
    BY <1>5 DEF Count, NextIteration, NoneYet, NoOrphans
  <2> QED BY <2>1, <2>2, <2>3
<1>6. CASE Deliver
  <2>m. masked' \in BOOLEAN  BY <1>6 DEF Deliver, TypeOK
  <2>1. TypeOK'  BY <1>6, <2>m DEF Deliver, TypeOK
  <2>2. ListIsPrefix'  BY <1>6 DEF Deliver, TypeOK, ListIsPrefix
  <2>3. NoneYet' /\ NoOrphans'
    BY <1>6 DEF Deliver, NoneYet, NoOrphans
  <2> QED BY <2>1, <2>2, <2>3
<1>7. CASE CleanupKill
  <2>j. j' \in 0..MaxChildren  BY <1>7 DEF CleanupKill, TypeOK
  <2>p. pending' \in SUBSET (Children \cup {Parent})
    BY <1>7 DEF CleanupKill, Kill, TypeOK
  <2>m. masked' \in BOOLEAN  BY <1>7 DEF CleanupKill, TypeOK
  <2>1. TypeOK'  BY <1>7, <2>j, <2>p, <2>m DEF CleanupKill, TypeOK
  <2>2. ListIsPrefix'  BY <1>7 DEF CleanupKill, ListIsPrefix
  <2>3. NoneYet' /\ NoOrphans'
    BY <1>7 DEF CleanupKill, NoneYet, NoOrphans
  <2> QED BY <2>1, <2>2, <2>3
<1>8. CASE Reap
  <2>1. TypeOK'  BY <1>8 DEF Reap, parentVars, TypeOK
  <2>2. ListIsPrefix'  BY <1>8 DEF Reap, parentVars, TypeOK, ListIsPrefix
  <2>3. NoneYet' /\ NoOrphans'
    BY <1>8 DEF Reap, parentVars, NoneYet, NoOrphans
  <2> QED BY <2>1, <2>2, <2>3
<1>9. CASE NoneLeft
  BY <1>9 DEF NoneLeft, TypeOK, ListIsPrefix, NoneYet, NoOrphans
<1> QED
  BY <1>1, <1>2, <1>3, <1>4, <1>5, <1>6, <1>7, <1>8, <1>9 DEF ParentStep

(* The children's steps keep it: one that runs has a parent that is there.  *)
LEMMA ChildStepIInv == ASSUME IInv, NEW c \in Children, ChildStep(c) PROVE IInv'
<1> USE SigProcAssumption DEF IInv
<1>a. pc \notin {"sigaction", "exited", "fatal"}
  BY DEF ChildStep, ChildSigAction, ChildDeliver, ChildCleanup, ChildExit, NoneYet, NoOrphans
<1>b. UNCHANGED parentVars
  BY DEF ChildStep, ChildSigAction, ChildDeliver, ChildCleanup, ChildExit
<1>1. TypeOK'
  <2>1. CASE ChildSigAction(c) \/ ChildExit(c)
    BY <2>1 DEF ChildSigAction, ChildExit, parentVars, TypeOK
  <2>2. CASE ChildDeliver(c)
    BY <2>2 DEF ChildDeliver, parentVars, TypeOK
  <2>3. CASE ChildCleanup(c)
    BY <2>3 DEF ChildCleanup, Kill, parentVars, TypeOK
  <2> QED BY <2>1, <2>2, <2>3 DEF ChildStep
<1>2. \A d \in Children : child'[d].i = child[d].i /\ child'[d].list = child[d].list
  BY DEF ChildStep, ChildSigAction, ChildDeliver, ChildCleanup, ChildExit, TypeOK
<1>3. ListIsPrefix'
  BY <1>b, <1>2 DEF parentVars, ListIsPrefix
<1>4. NoneYet' /\ NoOrphans'
  BY <1>a, <1>b DEF parentVars, NoneYet, NoOrphans
<1> QED BY <1>1, <1>3, <1>4

(* So does the user.                                                        *)
LEMMA UserIInv == ASSUME IInv, NEW p \in Children \cup {Parent}, User(p) PROVE IInv'
  BY DEF User, parentVars, IInv, TypeOK, ListIsPrefix, NoneYet, NoOrphans

LEMMA Invariance == Spec => []IInv
<1>1. IInv /\ UNCHANGED vars => IInv'
  BY DEF vars, IInv, TypeOK, ListIsPrefix, NoneYet, NoOrphans
<1>2. IInv /\ [Next]_vars => IInv'
  BY <1>1, ParentStepIInv, ChildStepIInv, UserIInv DEF Next
<1> QED BY InitIInv, <1>2, PTL DEF Spec

(* The indices stay within the list and every process has one of its states,*)
(* for every number of children.                                            *)
THEOREM TypeCorrect == Spec => []TypeOK
<1>1. IInv => TypeOK  BY DEF IInv
<1> QED BY Invariance, <1>1, PTL

(* cleanup never signals an uninitialised entry, wherever a signal or a     *)
(* failed fork has found the loop, in the parent and in its children.       *)
THEOREM CleanupIsSafe == Spec => []KillsOnlyChildren
<1>1. IInv => KillsOnlyChildren  BY PrefixIsSafe DEF IInv
<1> QED BY Invariance, <1>1, PTL

(* The parent never leaves a child behind, running or a zombie.             *)
THEOREM NobodyOrphaned == Spec => []NoOrphans
<1>1. IInv => NoOrphans  BY DEF IInv
<1> QED BY Invariance, <1>1, PTL

-----------------------------------------------------------------------------
(* A child that is not just waiting for a signal: it ends, for all it does. *)
Doomed(c) == c \in pending \/ child[c].pc \notin {"born", "loop"}

(* Children are forked in the order of the list, the last one before it is  *)
(* counted; who was signalled is doomed, by the user or by cleanup as far   *)
(* as it has come.                                                          *)
Signalled ==
  /\ \A c \in Children : Created(c) => c <= i
  /\ pc \in {"fork", "wait"} => \A c \in Children : Created(c) => c < i
  /\ \A c \in Children : c \in asked => Created(c) /\ Doomed(c)
  /\ pc = "kill" => \A c \in Children : c < j => Doomed(c)
  /\ pc = "reap" => \A c \in Children : c < i => Doomed(c)

(* Once doomed a child stays so: nothing but its own handler takes its      *)
(* signal, whichever of the two handlers that is.                           *)
LEMMA DoomedStays ==
  ASSUME IInv, [Next]_vars, ~Fork, NEW c \in Children
  PROVE  (Doomed(c) => Doomed(c)') /\ (Created(c)' <=> Created(c))
<1> USE DEF Doomed, Created
<1>0. c # Parent /\ child \in [Children -> [pc : {"none", "born", "kill", "loop", "woken", "zombie", "reaped"},
        i : 0..MaxChildren, j : 0..MaxChildren, list : SUBSET Children]]
  BY SigProcAssumption DEF IInv, TypeOK, Children, Parent
<1>1. CASE SigAction \/ ForkFails \/ Store \/ Count \/ Deliver \/ NoneLeft
  BY <1>0, <1>1 DEF SigAction, ForkFails, Store, Count, Deliver, NoneLeft
<1>2. CASE CleanupKill
  BY <1>2 DEF CleanupKill, Kill
<1>3. CASE Reap
  BY <1>0, <1>3 DEF Reap
<1>4. ASSUME NEW d \in Children, ChildStep(d) PROVE (Doomed(c) => Doomed(c)') /\ (Created(c)' <=> Created(c))
  <2>1. CASE ChildSigAction(d)
    BY <1>0, <2>1 DEF ChildSigAction
  <2>2. CASE ChildDeliver(d)
    BY <1>0, <2>2 DEF ChildDeliver
  <2>3. CASE ChildCleanup(d)
    BY <1>0, <2>3 DEF ChildCleanup, Kill
  <2>4. CASE ChildExit(d)
    BY <1>0, <2>4 DEF ChildExit
  <2> QED BY <1>4, <2>1, <2>2, <2>3, <2>4 DEF ChildStep
<1>5. ASSUME NEW p \in Children \cup {Parent}, User(p)
      PROVE  (Doomed(c) => Doomed(c)') /\ (Created(c)' <=> Created(c))
  BY <1>5 DEF User
<1>6. CASE UNCHANGED vars
  BY <1>6 DEF vars
<1> QED BY <1>1, <1>2, <1>3, <1>4, <1>5, <1>6 DEF Next, ParentStep

LEMMA SignalledStays == ASSUME IInv, Signalled, [Next]_vars PROVE Signalled'
<1> USE SigProcAssumption
<1>0. i \in Nat /\ j \in Nat /\ Children \subseteq Nat /\ TypeOK
  BY DEF IInv, TypeOK, Children
<1>1. CASE Fork
  <2>1. /\ pc = "fork" /\ pc' = "store" /\ UNCHANGED <<i, j, pending, asked>> /\ i \in Children
    BY <1>0, <1>1 DEF Fork, IInv, ListIsPrefix, TypeOK, Children
  <2>2. /\ child'[i].pc = "born" /\ \A c \in Children \ {i} : child'[c] = child[c]
    BY <1>1, <2>1 DEF Fork, IInv, TypeOK
  <2>3. ~Created(i)
    BY <1>0, <2>1 DEF Signalled
  <2>4. \A c \in Children : c \in asked => c # i
    BY <2>3 DEF Signalled
  <2> QED BY <1>0, <2>1, <2>2, <2>4 DEF Signalled, Created, Doomed
<1>2. CASE ~Fork
  <2>0. \A c \in Children : (Doomed(c) => Doomed(c)') /\ (Created(c)' <=> Created(c))
    BY <1>2, DoomedStays
  <2> HIDE DEF Doomed, Created
  <2>1. CASE SigAction
    <3>1. \A c \in Children : ~Created(c)
      BY <2>1 DEF SigAction, IInv, NoneYet, Created
    <3> QED BY <2>0, <2>1, <3>1 DEF SigAction, NextIteration, Signalled
  <2>2. CASE ForkFails
    BY <1>0, <2>0, <2>2 DEF ForkFails, Signalled
  <2>3. CASE Store
    BY <2>0, <2>3 DEF Store, Signalled
  <2>4. CASE Count
    <3>1. i' = i + 1 /\ pc' \in {"fork", "wait"} /\ asked' = asked
      BY <2>4 DEF Count, NextIteration
    <3>2. \A c \in Children : c <= i => c < i' /\ c <= i'
      BY <1>0, <3>1
    <3> QED BY <2>0, <3>1, <3>2 DEF Signalled
  <2>5. CASE Deliver
    <3>1. UNCHANGED <<i, asked>> /\ (pc' = "fatal" \/ (pc' = "kill" /\ j' = 0))
      BY <2>5 DEF Deliver
    <3> QED BY <1>0, <2>0, <3>1 DEF Signalled
  <2>6. CASE CleanupKill
    <3>1. UNCHANGED <<i, asked>> /\ pc = "kill"
      BY <2>6 DEF CleanupKill
    <3>2. CASE j < i
      <4>1. j' = j + 1 /\ Kill(j) /\ pc' = "kill" /\ child' = child
        BY <2>6, <3>2 DEF CleanupKill
      <4>2. ASSUME NEW c \in Children, c = j PROVE Doomed(c)'
        BY <4>1, <4>2 DEF Kill, Doomed, Runs
      <4>3. \A c \in Children : c < j' => c < j \/ c = j
        BY <1>0, <4>1
      <4> QED BY <2>0, <3>1, <4>1, <4>2, <4>3 DEF Signalled
    <3>3. CASE ~(j < i)
      <4>1. pc' = "reap" /\ UNCHANGED j
        BY <2>6, <3>3 DEF CleanupKill
      <4>2. \A c \in Children : c < i => c < j
        BY <1>0, <3>3
      <4> QED BY <2>0, <3>1, <4>1, <4>2 DEF Signalled
    <3> QED BY <3>2, <3>3
  <2>7. CASE NoneLeft
    BY <2>0, <2>7 DEF NoneLeft, Signalled
  <2>8. CASE Reap \/ (\E c \in Children : ChildStep(c)) \/ UNCHANGED vars
    <3>1. UNCHANGED <<pc, i, j, asked>>
      BY <2>8 DEF Reap, ChildStep, ChildSigAction, ChildDeliver, ChildCleanup, ChildExit,
         parentVars, vars
    <3> QED BY <2>0, <3>1 DEF Signalled
  <2>9. ASSUME NEW p \in Children \cup {Parent}, User(p) PROVE Signalled'
    <3>1. UNCHANGED <<pc, i, j>> /\ asked' = asked \cup {p}
      BY <2>9 DEF User, parentVars
    <3>2. ASSUME p \in Children PROVE Created(p) /\ Doomed(p)'
      <4>1. Runs(p) /\ p \in pending'
        BY <2>9, <3>2 DEF User, Parent, Children
      <4> QED BY <4>1 DEF Runs, Created, Doomed
    <3>3. \A c \in Children : c \in asked' => c \in asked \/ c = p
      BY <3>1
    <3>4. \A c \in Children : c \in asked' => Created(c)' /\ Doomed(c)'
      BY <2>0, <3>2, <3>3 DEF Signalled
    <3> QED BY <2>0, <3>1, <3>4 DEF Signalled
  <2> QED BY <1>2, <2>1, <2>2, <2>3, <2>4, <2>5, <2>6, <2>7, <2>8, <2>9 DEF Next, ParentStep
<1> QED BY <1>1, <1>2

LEMMA SignalledInvariance == Spec => []Signalled
<1>1. Init => Signalled
  BY DEF Init, Signalled, Created, Unborn
<1> QED BY Invariance, <1>1, SignalledStays, PTL DEF Spec

(* No signal to a child is lost, even if it comes before the child's        *)
(* sigaction and runs its parent's handler: the safety part of GroupEnds.   *)
SignalArrives == \A c \in Children : c \in asked => Doomed(c)

THEOREM NoSignalLost == Spec => []SignalArrives
<1>1. Signalled => SignalArrives
  BY DEF Signalled, SignalArrives
<1> QED BY SignalledInvariance, <1>1, PTL

(* A cleanup that waits has reached every child but one, at most: the one   *)
(* whose i++ the signal came before.  This is the safety part of            *)
(* CleanupEnds and all that keeps ParentEnds from being true.               *)
CleanupMissesOne ==
  pc = "reap" => \A c \in Children : Created(c) /\ ~Doomed(c) => c = i

THEOREM CleanupReachesTheRest == Spec => []CleanupMissesOne
<1>1. TypeOK /\ Signalled => CleanupMissesOne
  BY SigProcAssumption DEF TypeOK, Signalled, CleanupMissesOne, Children
<1> QED BY TypeCorrect, SignalledInvariance, <1>1, PTL
=============================================================================
