--------------------------- MODULE MetronomeProofs ---------------------------
(***************************************************************************)
(* The metronome for any settings, any commands and any length of the       *)
(* thread's queue: a measure takes the time that was asked for, the last    *)
(* start or stop decides whether the timer runs, only a shorter pattern is  *)
(* left, and no stop is overtaken or unheard.                               *)
(***************************************************************************)
EXTENDS Metronome, TLAPS, SequenceTheorems

Settings == [bpm : Int, top : Int, btm : Int]

(* What the timer is armed with when nothing is written at that time.       *)
Exact(s) == [bpm |-> s.bpm, top |-> s.top, per |-> mtm_lookup(s.btm, s.top)]

-----------------------------------------------------------------------------
(* The eight signatures, of which mtm_lookup and ttp say the same.          *)
Signatures == {<<4, 2>>, <<4, 3>>, <<4, 4>>, <<4, 5>>, <<8, 3>>, <<8, 6>>, <<8, 9>>, <<8, 12>>}

LEMMA LookupType ==
  ASSUME NEW b \in Int, NEW t \in Int
  PROVE  /\ mtm_lookup(b, t) \in Int
         /\ mtm_lookup(b, t) # -1 => <<b, t>> \in Signatures /\ mtm_lookup(b, t) > 0
<1>1. CASE b = 4 /\ t \in 2..5
  <2>1. t \in {2, 3, 4, 5} /\ mtm_lookup(b, t) = 2 * t
    BY <1>1 DEF mtm_lookup
  <2> QED BY <1>1, <2>1 DEF Signatures
<1>2. CASE b = 8 /\ t \in {3, 6}
  BY <1>2 DEF mtm_lookup, Signatures
<1>3. CASE b = 8 /\ t \in {9, 12}
  BY <1>3 DEF mtm_lookup, Signatures
<1>4. CASE ~(b = 4 /\ t \in 2..5) /\ ~(b = 8 /\ t \in {3, 6}) /\ ~(b = 8 /\ t \in {9, 12})
  BY <1>4 DEF mtm_lookup
<1> QED BY <1>1, <1>2, <1>3, <1>4

(* One entry of ttp has a given signature.                                  *)
LEMMA OnePattern ==
  ASSUME NEW s, NEW k \in DOMAIN ttp,
         \A i \in DOMAIN ttp : (ttp[i].top = s.top /\ ttp[i].btm = s.btm) <=> i = k
  PROVE  PatternLength(s) = ttp[k].beats
<1>1. {i \in DOMAIN ttp : ttp[i].top = s.top /\ ttp[i].btm = s.btm} = {k}
  OBVIOUS
<1> QED BY <1>1 DEF PatternLength

LEMMA PatternIsLookup ==
  ASSUME NEW s \in Settings, parse_args(s)
  PROVE  PatternLength(s) = mtm_lookup(s.btm, s.top) /\ PatternLength(s) > 0
<1>0. DOMAIN ttp = 1..8 /\ 1..8 = {1, 2, 3, 4, 5, 6, 7, 8}
  BY DEF ttp
<1>1. <<s.btm, s.top>> \in Signatures
  BY LookupType DEF parse_args, Settings
<1>2. CASE s.btm = 4 /\ s.top = 2
  <2>1. PatternLength(s) = ttp[1].beats
    BY <1>0, <1>2, OnePattern DEF ttp
  <2> QED BY <1>2, <2>1 DEF ttp, mtm_lookup
<1>3. CASE s.btm = 4 /\ s.top = 3
  <2>1. PatternLength(s) = ttp[2].beats
    BY <1>0, <1>3, OnePattern DEF ttp
  <2> QED BY <1>3, <2>1 DEF ttp, mtm_lookup
<1>4. CASE s.btm = 4 /\ s.top = 4
  <2>1. PatternLength(s) = ttp[3].beats
    BY <1>0, <1>4, OnePattern DEF ttp
  <2> QED BY <1>4, <2>1 DEF ttp, mtm_lookup
<1>5. CASE s.btm = 4 /\ s.top = 5
  <2>1. PatternLength(s) = ttp[4].beats
    BY <1>0, <1>5, OnePattern DEF ttp
  <2> QED BY <1>5, <2>1 DEF ttp, mtm_lookup
<1>6. CASE s.btm = 8 /\ s.top = 3
  <2>1. PatternLength(s) = ttp[5].beats
    BY <1>0, <1>6, OnePattern DEF ttp
  <2> QED BY <1>6, <2>1 DEF ttp, mtm_lookup
<1>7. CASE s.btm = 8 /\ s.top = 6
  <2>1. PatternLength(s) = ttp[6].beats
    BY <1>0, <1>7, OnePattern DEF ttp
  <2> QED BY <1>7, <2>1 DEF ttp, mtm_lookup
<1>8. CASE s.btm = 8 /\ s.top = 9
  <2>1. PatternLength(s) = ttp[7].beats
    BY <1>0, <1>8, OnePattern DEF ttp
  <2> QED BY <1>8, <2>1 DEF ttp, mtm_lookup
<1>9. CASE s.btm = 8 /\ s.top = 12
  <2>1. PatternLength(s) = ttp[8].beats
    BY <1>0, <1>9, OnePattern DEF ttp
  <2> QED BY <1>9, <2>1 DEF ttp, mtm_lookup
<1> QED BY <1>1, <1>2, <1>3, <1>4, <1>5, <1>6, <1>7, <1>8, <1>9 DEF Signatures

-----------------------------------------------------------------------------
(* The type of the state.                                                   *)
Timers == [bpm : Int, top : Int, per : Int]

LEMMA SettingsType == Starts \cup Sets \subseteq Settings
  BY MetronomeAssumption DEF Settings

(* A setting that nobody writes is read as it is.                           *)
LEMMA SpiType ==
  ASSUME TypeOK, NEW spi \in calc_spi
  PROVE  spi \in Timers /\ (main # "set" => spi = Exact(attrs))
<1>1. attrs \in Settings /\ new \in Settings
  BY SettingsType DEF TypeOK
<1>2. Reads \subseteq Settings
  BY <1>1 DEF Reads, Settings
<1>3. PICK r \in Reads, s \in Reads :
        spi = [bpm |-> r.bpm, top |-> r.top, per |-> mtm_lookup(r.btm, s.top)]
  BY DEF calc_spi
<1>4. r \in Settings /\ s \in Settings
  BY <1>2, <1>3
<1>5. mtm_lookup(r.btm, s.top) \in Int
  BY <1>4, LookupType DEF Settings
<1>6. spi \in Timers
  BY <1>3, <1>4, <1>5 DEF Settings, Timers
<1>7. main # "set" => r = attrs /\ s = attrs
  BY <1>3 DEF Reads
<1> QED BY <1>3, <1>6, <1>7 DEF Exact

LEMMA SettimeType ==
  ASSUME TypeOK, \E spi \in calc_spi : timer_settime(spi)
  PROVE  timer' \in Timers
  BY SpiType DEF TypeOK, timer_settime, Timers

LEMMA SettimeExact ==
  ASSUME TypeOK, \E spi \in calc_spi : timer_settime(spi), main # "set", parse_args(attrs)
  PROVE  timer' = Exact(attrs) /\ timer' # Disarmed
<1>1. attrs \in Settings
  BY SettingsType DEF TypeOK
<1>2. mtm_lookup(attrs.btm, attrs.top) > 0 /\ attrs.bpm > 0
  BY <1>1, LookupType DEF Settings, parse_args
<1>3. Exact(attrs).per > 0 /\ Exact(attrs).bpm > 0
  BY <1>2 DEF Exact
<1>4. timer' = Exact(attrs)
  <2>1. PICK spi \in calc_spi : timer_settime(spi)
    OBVIOUS
  <2>2. spi = Exact(attrs)
    BY <2>1, SpiType
  <2>3. ~(spi.per < 0)
    BY <1>2, <1>3, <2>2 DEF Exact, mtm_lookup
  <2> QED BY <2>1, <2>2, <2>3 DEF timer_settime
<1>5. Disarmed.bpm = 0
  BY DEF Disarmed
<1> QED BY <1>3, <1>4, <1>5

(* The pulses after one more and after one less.                            *)
LEMMA AppendIs ==
  ASSUME NEW q \in Seq(Pulses), NEW p \in Pulses
  PROVE  /\ Append(q, p) \in Seq(Pulses) /\ Len(Append(q, p)) = Len(q) + 1 /\ Len(q) \in Nat
         /\ DOMAIN q = 1..Len(q) /\ DOMAIN Append(q, p) = 1..(Len(q) + 1)
         /\ Append(q, p)[Len(q) + 1] = p /\ \A i \in 1..Len(q) : Append(q, p)[i] = q[i]
<1>1. /\ Append(q, p) \in Seq(Pulses) /\ Len(Append(q, p)) = Len(q) + 1
      /\ Append(q, p)[Len(q) + 1] = p /\ \A i \in 1..Len(q) : Append(q, p)[i] = q[i]
  BY AppendProperties
<1> QED BY <1>1, LenProperties

LEMMA TailIs ==
  ASSUME NEW q \in Seq(Pulses), q # <<>>
  PROVE  /\ Tail(q) \in Seq(Pulses) /\ Len(Tail(q)) = Len(q) - 1 /\ Len(q) \in Nat \ {0}
         /\ DOMAIN q = 1..Len(q) /\ DOMAIN Tail(q) = 1..(Len(q) - 1)
         /\ Head(q) = q[1] /\ \A i \in 1..(Len(q) - 1) : Tail(q)[i] = q[i + 1]
<1>1. /\ Tail(q) \in Seq(Pulses) /\ Len(Tail(q)) = Len(q) - 1
      /\ \A i \in 1..(Len(q) - 1) : Tail(q)[i] = q[i + 1]
  <2>1. Tail(q) \in Seq(Pulses) /\ Len(Tail(q)) = Len(q) - 1
    BY HeadTailProperties
  <2>2. \A i \in 1..Len(Tail(q)) : Tail(q)[i] = q[i + 1]
    BY HeadTailProperties
  <2> QED BY <2>1, <2>2
<1> QED BY <1>1, LenProperties, EmptySeq

-----------------------------------------------------------------------------
Dealt == \A i \in DOMAIN queue : queue[i].code = "TIMER"

(* What main writes is valid.                                               *)
Valid == parse_args(attrs) /\ (main = "set" => parse_args(new))

(* Until quit, the thread is on its way to or in its loop.                  *)
InLoop ==
  /\ main \in {"dispatch", "set"} =>
       /\ running /\ mtm \notin {"cleanup", "done"} /\ (mtm # "create" => coid)
       /\ \A i \in DOMAIN queue : queue[i].code # "MAXAVAIL"
  /\ mtm = "create" => ~coid /\ queue = <<>> /\ timer = Disarmed

(* Once it has dealt with the commands, it has armed the timer after the    *)
(* last of them, and then nobody wrote: START follows what set writes.      *)
Armed ==
  main = "dispatch" /\ mtm \in {"check", "receive"} /\ Dealt =>
    timer \in {Disarmed, Exact(attrs)}

(* The inductive invariant.                                                 *)
IInv == TypeOK /\ Valid /\ InLoop /\ Armed

LEMMA InitIInv == Init => IInv
<1> SUFFICES ASSUME Init PROVE IInv OBVIOUS
<1>1. queue \in Seq(Pulses) /\ Len(queue) <= MaxQueue
  BY EmptySeq, MetronomeAssumption DEF Init
<1>2. TypeOK
  <2>1. attrs \in Starts \cup Sets /\ new \in Starts \cup Sets
    BY DEF Init
  <2>2. timer \in [bpm : Int, top : Int, per : Int] /\ j \in Nat
    BY DEF Init, Disarmed
  <2> QED BY <1>1, <2>1, <2>2 DEF Init, TypeOK
<1> QED BY <1>2 DEF Init, IInv, Valid, InLoop, Armed, Dealt

Strayed == {"no", "lost", "resumed", "paused"}

(* What the history says of a command.                                      *)
LEMMA HistoryType ==
  ASSUME TypeOK
  PROVE  /\ \A w \in {"on", "off"} : Decides(w) => wanted' \in {"on", "off"} /\ strayed' \in Strayed
         /\ \A y \in Strayed : Leaves(y) => wanted' \in {"on", "off"} /\ strayed' \in Strayed
         /\ Resumes \in Strayed
  BY DEF TypeOK, Decides, Leaves, Resumes, Strayed

LEMMA ShortenedType ==
  ASSUME TypeOK
  PROVE  (shortened /\ j # 0) \in BOOLEAN /\ {} \subseteq {"top", "btm"}
  BY DEF TypeOK

(* A command's pulse: sent in the loop, lost before it.                     *)
LEMMA SendIInv ==
  ASSUME IInv, NEW p \in Pulses, p.code \in {"START", "STOP", "PAUSE"}, MsgSendPulse(p),
         UNCHANGED threadVars, main \in {"dispatch", "set"}, main' = "dispatch",
         attrs' \in Starts \cup Sets, new' \in Starts \cup Sets, parse_args(attrs'),
         wanted' \in {"on", "off"}, strayed' \in Strayed,
         seen' \subseteq {"top", "btm"}, shortened' \in BOOLEAN
  PROVE  IInv' /\ (mtm = "create" => ~coid)
               /\ (mtm # "create" => queue' = Append(queue, p))
<1> USE DEF IInv
<1>1. mtm' = mtm /\ running' = running /\ coid' = coid /\ timer' = timer /\ j' = j
  BY DEF threadVars
<1>2. CASE mtm = "create"
  <2>1. UNCHANGED queue /\ ~coid
    BY <1>2 DEF InLoop, MsgSendPulse
  <2>2. TypeOK'
    BY <1>1, <2>1 DEF TypeOK, Strayed
  <2> QED BY <1>1, <1>2, <2>1, <2>2 DEF Valid, InLoop, Armed, TypeOK
<1>3. CASE mtm # "create"
  <2>1. queue' = Append(queue, p) /\ Len(queue) < MaxQueue
    BY <1>3 DEF InLoop, MsgSendPulse
  <2>2. queue' \in Seq(Pulses) /\ Len(queue') <= MaxQueue
    BY <2>1, AppendIs, MetronomeAssumption DEF TypeOK
  <2>3. TypeOK'
    BY <1>1, <2>1, <2>2 DEF TypeOK, Strayed
  <2>4. Valid' /\ InLoop'
    BY <1>1, <1>3, <2>1, AppendIs DEF TypeOK, Valid, InLoop
  <2>5. ~Dealt'
    BY <2>1, AppendIs DEF TypeOK, Dealt
  <2> QED BY <1>3, <2>1, <2>3, <2>4, <2>5 DEF Armed
<1> QED BY <1>2, <1>3

LEMMA CommandIInv == ASSUME IInv, Commands \/ SetDone PROVE IInv'
<1>0. \A c \in {"START", "STOP", "PAUSE"}, v \in 0..9 : Pulse(c, v) \in Pulses /\ Pulse(c, v).code = c
  BY DEF Pulse, Pulses
<1>1. /\ attrs \in Starts \cup Sets /\ new \in Starts \cup Sets /\ parse_args(attrs)
      /\ (main = "set" => parse_args(new))
      /\ seen \subseteq {"top", "btm"} /\ shortened \in BOOLEAN /\ TypeOK
  BY DEF IInv, TypeOK, Valid
<1>2. CASE StartCmd
  <2>1. /\ main = "dispatch" /\ MsgSendPulse(Pulse("START", 0)) /\ Decides("on")
        /\ UNCHANGED <<attrs, new, main, seen, shortened>> /\ UNCHANGED threadVars
    BY <1>2 DEF StartCmd, beatVars
  <2>2. wanted' \in {"on", "off"} /\ strayed' \in Strayed
    BY <1>1, <2>1, HistoryType
  <2> QED BY <1>0, <1>1, <2>1, <2>2, SendIInv
<1>3. CASE StopCmd
  <2>1. /\ main = "dispatch" /\ MsgSendPulse(Pulse("STOP", 0)) /\ Decides("off")
        /\ UNCHANGED <<attrs, new, main, seen, shortened>> /\ UNCHANGED threadVars
    BY <1>3 DEF StopCmd, beatVars
  <2>2. wanted' \in {"on", "off"} /\ strayed' \in Strayed
    BY <1>1, <2>1, HistoryType
  <2> QED BY <1>0, <1>1, <2>1, <2>2, SendIInv
<1>4. CASE PauseCmd
  <2>1. PICK n \in PauseSeconds :
          MsgSendPulse(Pulse("PAUSE", n)) /\ Leaves(IF n = 0 THEN "paused" ELSE Resumes)
    BY <1>4 DEF PauseCmd
  <2>2. /\ main = "dispatch" /\ UNCHANGED <<attrs, new, main, seen, shortened>>
        /\ UNCHANGED threadVars /\ n \in 0..9
    BY <1>4, MetronomeAssumption DEF PauseCmd, beatVars
  <2>3. (IF n = 0 THEN "paused" ELSE Resumes) \in Strayed
    BY <1>1, HistoryType DEF Strayed
  <2>4. wanted' \in {"on", "off"} /\ strayed' \in Strayed
    BY <1>1, <2>1, <2>3, HistoryType
  <2> QED BY <1>0, <1>1, <2>1, <2>2, <2>4, SendIInv
<1>5. CASE SetCmd
  <2>1. /\ main = "dispatch" /\ main' = "set" /\ parse_args(new') /\ new' \in Sets
        /\ shortened' = (shortened \/ PatternLength(new') < PatternLength(attrs))
        /\ UNCHANGED <<attrs, queue, seen, wanted, strayed, mtm, running, coid, timer, j>>
    BY <1>5 DEF SetCmd, threadVars
  <2>2. shortened' \in BOOLEAN
    BY <1>1, <2>1
  <2>3. TypeOK'
    BY <1>1, <2>1, <2>2 DEF TypeOK
  <2> QED BY <2>1, <2>3 DEF IInv, Valid, InLoop, Armed
<1>6. CASE SetRefused
  <2>1. /\ main = "dispatch" /\ MsgSendPulse(Pulse("START", 0)) /\ Leaves(Resumes)
        /\ UNCHANGED <<attrs, new, main, seen, shortened>> /\ UNCHANGED threadVars
    BY <1>6 DEF SetRefused, beatVars
  <2>2. wanted' \in {"on", "off"} /\ strayed' \in Strayed
    BY <1>1, <2>1, HistoryType
  <2> QED BY <1>0, <1>1, <2>1, <2>2, SendIInv
<1>7. CASE QuitCmd
  <2>1. /\ UNCHANGED <<attrs, new, wanted, strayed, mtm, running, coid, timer, j, seen, shortened>>
        /\ main' = "quit" /\ MsgSendPulse(Pulse("MAXAVAIL", 0))
    BY <1>7 DEF QuitCmd, threadVars, beatVars
  <2>2. Pulse("MAXAVAIL", 0) \in Pulses
    BY DEF Pulse, Pulses
  <2>3. CASE coid
    <3>1. queue' = Append(queue, Pulse("MAXAVAIL", 0)) /\ Len(queue) < MaxQueue
      BY <2>1, <2>3 DEF MsgSendPulse
    <3>2. queue' \in Seq(Pulses) /\ Len(queue') <= MaxQueue
      BY <2>2, <3>1, AppendIs, MetronomeAssumption DEF IInv, TypeOK
    <3> QED BY <2>1, <2>3, <3>1, <3>2 DEF IInv, TypeOK, Valid, InLoop, Armed
  <2>4. CASE ~coid
    BY <2>1, <2>4 DEF MsgSendPulse, IInv, TypeOK, Valid, InLoop, Armed
  <2> QED BY <2>3, <2>4
<1>8. CASE SetDone
  <2>1. /\ main = "set" /\ main' = "dispatch" /\ MsgSendPulse(Pulse("START", 0)) /\ Leaves(Resumes)
        /\ attrs' = new /\ new' = new /\ seen' = {} /\ shortened' = (shortened /\ j # 0)
        /\ UNCHANGED threadVars
    BY <1>8 DEF SetDone
  <2>2. wanted' \in {"on", "off"} /\ strayed' \in Strayed
    BY <1>1, <2>1, HistoryType
  <2>3. shortened' \in BOOLEAN /\ seen' \subseteq {"top", "btm"}
    BY <1>1, <2>1, ShortenedType
  <2>4. attrs' \in Starts \cup Sets /\ new' \in Starts \cup Sets /\ parse_args(attrs')
    BY <1>1, <2>1
  <2> QED BY <1>0, <2>1, <2>2, <2>3, <2>4, SendIInv
<1> QED BY <1>2, <1>3, <1>4, <1>5, <1>6, <1>7, <1>8 DEF Commands

-----------------------------------------------------------------------------
(* The thread takes the first pulse.                                        *)
LEMMA TakeIs ==
  ASSUME IInv, NEW c, MsgReceive(c)
  PROVE  /\ queue' \in Seq(Pulses) /\ Len(queue') <= MaxQueue
         /\ Len(queue) \in Nat \ {0} /\ DOMAIN queue = 1..Len(queue)
         /\ DOMAIN queue' = 1..(Len(queue) - 1) /\ Head(queue) = queue[1]
         /\ \A i \in 1..(Len(queue) - 1) : queue'[i] = queue[i + 1]
<1>1. queue # <<>> /\ queue' = Tail(queue) /\ queue \in Seq(Pulses) /\ Len(queue) <= MaxQueue
  BY DEF IInv, TypeOK, MsgReceive
<1>2. queue' \in Seq(Pulses) /\ Len(queue') = Len(queue) - 1 /\ Len(queue) \in Nat \ {0}
  BY <1>1, TailIs
<1>3. Len(queue') <= MaxQueue
  BY <1>1, <1>2, MetronomeAssumption
<1> QED BY <1>1, <1>2, <1>3, TailIs

LEMMA PatternType == ASSUME NEW s PROVE PatternLength(s) \in Nat
<1>1. DOMAIN ttp = 1..8 /\ 1..8 = {1, 2, 3, 4, 5, 6, 7, 8} /\ \A i \in 1..8 : ttp[i].beats \in Nat
  BY DEF ttp
<1>2. CASE {i \in DOMAIN ttp : ttp[i].top = s.top /\ ttp[i].btm = s.btm} = {}
  BY <1>2 DEF PatternLength, NoPattern
<1>3. CASE {i \in DOMAIN ttp : ttp[i].top = s.top /\ ttp[i].btm = s.btm} # {}
  BY <1>1, <1>3 DEF PatternLength
<1> QED BY <1>2, <1>3

(* A pulse is dealt with: what is left of the invariant is what the timer   *)
(* is armed with.                                                           *)
LEMMA TakeIInv ==
  ASSUME IInv, NEW c, MsgReceive(c), main' \in {main, "crashed"}, j' \in Nat, timer' \in Timers,
         seen' \subseteq {"top", "btm"}, shortened' \in BOOLEAN,
         c = "TIMER" => timer' = timer,
         main = "dispatch" /\ c # "TIMER" => timer' \in {Disarmed, Exact(attrs)}
  PROVE  IInv'
<1> USE DEF IInv
<1>1. /\ mtm = "receive" /\ mtm' = "check" /\ Head(queue).code = c
      /\ UNCHANGED <<attrs, new, wanted, strayed, running, coid>>
  BY DEF MsgReceive, mainVars
<1>2. TypeOK'
  BY <1>1, TakeIs DEF TypeOK, Timers
<1>3. Valid'
  BY <1>1 DEF Valid
<1>4. InLoop'
  <2>1. ASSUME main \in {"dispatch", "set"}, NEW i \in DOMAIN queue'
        PROVE  queue'[i].code # "MAXAVAIL"
    <3>1. i + 1 \in DOMAIN queue /\ queue'[i] = queue[i + 1]
      BY TakeIs
    <3> QED BY <2>1, <3>1 DEF InLoop
  <2> QED BY <1>1, <2>1 DEF InLoop
<1>5. Armed'
  <2> SUFFICES ASSUME main' = "dispatch", Dealt' PROVE timer' \in {Disarmed, Exact(attrs)}
    BY <1>1 DEF Armed, Exact
  <2>1. CASE c = "TIMER"
    <3>1. Dealt
      <4> SUFFICES ASSUME NEW i \in DOMAIN queue PROVE queue[i].code = "TIMER"
        BY DEF Dealt
      <4>1. CASE i = 1
        BY <1>1, <2>1, <4>1, TakeIs
      <4>2. CASE i # 1
        <5>1. i - 1 \in 1..(Len(queue) - 1) /\ (i - 1) + 1 = i
          BY <4>2, TakeIs
        <5>2. queue'[i - 1] = queue[i] /\ i - 1 \in DOMAIN queue'
          BY <5>1, TakeIs
        <5> QED BY <5>2 DEF Dealt
      <4> QED BY <4>1, <4>2
    <3> QED BY <1>1, <2>1, <3>1 DEF Armed
  <2>2. CASE c # "TIMER"
    BY <2>2
  <2> QED BY <2>1, <2>2
<1> QED BY <1>2, <1>3, <1>4, <1>5

LEMMA ThreadIInv == ASSUME IInv, Thread PROVE IInv'
<1>0. /\ TypeOK /\ Valid /\ timer \in Timers /\ j \in Nat /\ Disarmed \in Timers
      /\ seen \subseteq {"top", "btm"} /\ shortened \in BOOLEAN
  BY DEF IInv, TypeOK, Timers, Disarmed
<1>1. CASE Attach
  BY <1>1 DEF Attach, mainVars, beatVars, IInv, TypeOK, Valid, InLoop, Armed
<1>2. CASE Arm
  <2>1. /\ mtm = "arm" /\ mtm' = "check" /\ \E spi \in calc_spi : timer_settime(spi)
        /\ UNCHANGED <<attrs, new, wanted, strayed, main, running, coid, queue, j, seen, shortened>>
    BY <1>2 DEF Arm, mainVars, beatVars
  <2>2. timer' \in Timers /\ (main # "set" => timer' = Exact(attrs))
    BY <1>0, <2>1, SettimeType, SettimeExact DEF Valid
  <2>3. TypeOK'
    BY <2>1, <2>2 DEF IInv, TypeOK, Timers
  <2>4. Valid' /\ InLoop'
    BY <2>1 DEF IInv, Valid, InLoop
  <2>5. Armed'
    BY <2>1, <2>2 DEF Armed, Exact
  <2> QED BY <2>3, <2>4, <2>5 DEF IInv
<1>3. CASE CheckRunning
  BY <1>3 DEF CheckRunning, mainVars, beatVars, IInv, TypeOK, Valid, InLoop, Armed, Dealt, Exact
<1>4. CASE Cleanup
  <2>1. queue' \in Seq(Pulses) /\ Len(queue') <= MaxQueue
    BY <1>4, EmptySeq, MetronomeAssumption DEF Cleanup
  <2>2. main \notin {"dispatch", "set"}
    BY <1>4 DEF Cleanup, IInv, InLoop
  <2>3. /\ UNCHANGED <<attrs, new, wanted, strayed, main, running, j, seen, shortened>>
        /\ mtm' = "done" /\ timer' = Disarmed /\ coid' = FALSE
    BY <1>4 DEF Cleanup, mainVars, beatVars
  <2>4. TypeOK'
    BY <1>0, <2>1, <2>3 DEF IInv, TypeOK, Timers
  <2> QED BY <2>2, <2>3, <2>4 DEF IInv, Valid, InLoop, Armed
<1>5. CASE TimerPulse
  <2>1. PICK v \in Views : \E len \in Found(v) :
          /\ seen' = v
          /\ \/ len = NoPattern /\ UNCHANGED <<j, main>>
             \/ j < len /\ j' = (j + 1) % len /\ UNCHANGED main
             \/ /\ len # NoPattern /\ j >= len
                /\ \/ main' = "crashed" /\ UNCHANGED j
                   \/ j' \in {0, j + 1} \cap 0..MaxIndex /\ UNCHANGED main
    BY <1>5 DEF TimerPulse
  <2>2. PICK len \in Found(v) :
          \/ len = NoPattern /\ UNCHANGED <<j, main>>
          \/ j < len /\ j' = (j + 1) % len /\ UNCHANGED main
          \/ /\ len # NoPattern /\ j >= len
             /\ \/ main' = "crashed" /\ UNCHANGED j
                \/ j' \in {0, j + 1} \cap 0..MaxIndex /\ UNCHANGED main
    BY <2>1
  <2>3. len \in Nat
    BY PatternType DEF Found, NoPattern
  <2>4. j' \in Nat
    <3>1. j < len => (j + 1) % len \in Nat
      BY <1>0, <2>3
    <3> QED BY <1>0, <2>2, <2>3, <3>1
  <2>5. main' \in {main, "crashed"}
    BY <2>2
  <2>6. seen' \subseteq {"top", "btm"}
    BY <2>1 DEF Views
  <2>7. timer' = timer /\ MsgReceive("TIMER") /\ shortened' = (shortened /\ ~LineEnds)
    BY <1>5 DEF TimerPulse
  <2>8. shortened' \in BOOLEAN
    BY <2>7
  <2> QED BY <1>0, <2>4, <2>5, <2>6, <2>7, <2>8, TakeIInv
<1>6. CASE PausePulse
  <2>1. /\ MsgReceive("PAUSE") /\ UNCHANGED <<main, j, seen, shortened>>
        /\ timer' = Disarmed \/ \E spi \in calc_spi : timer_settime(spi)
    BY <1>6 DEF PausePulse, beatVars
  <2>2. timer' \in Timers /\ (main # "set" => timer' \in {Disarmed, Exact(attrs)})
    BY <1>0, <2>1, SettimeType, SettimeExact DEF Valid
  <2> QED BY <1>0, <2>1, <2>2, TakeIInv
<1>7. CASE StopPulse
  <2>1. MsgReceive("STOP") /\ UNCHANGED <<main, j, seen, shortened>> /\ timer' = Disarmed
    BY <1>7 DEF StopPulse, beatVars
  <2> QED BY <1>0, <2>1, TakeIInv
<1>8. CASE StartPulse
  <2>1. MsgReceive("START") /\ UNCHANGED <<main, j, seen, shortened>> /\ \E spi \in calc_spi : timer_settime(spi)
    BY <1>8 DEF StartPulse, beatVars
  <2>2. timer' \in Timers /\ (main # "set" => timer' = Exact(attrs))
    BY <1>0, <2>1, SettimeType, SettimeExact DEF Valid
  <2> QED BY <1>0, <2>1, <2>2, TakeIInv
<1>9. CASE OtherPulse
  <2>1. MsgReceive("MAXAVAIL") /\ UNCHANGED <<main, timer, j, seen, shortened>>
    BY <1>9 DEF OtherPulse, beatVars
  <2>2. main # "dispatch"
    BY <2>1, TakeIs DEF IInv, InLoop, MsgReceive
  <2> QED BY <1>0, <2>1, <2>2, TakeIInv
<1> QED BY <1>1, <1>2, <1>3, <1>4, <1>5, <1>6, <1>7, <1>8, <1>9 DEF Thread

LEMMA ExpireIs ==
  ASSUME TypeOK, Expire
  PROVE  /\ UNCHANGED <<attrs, new, wanted, strayed, main, mtm, running, coid, timer, j, seen, shortened>>
         /\ timer # Disarmed /\ Pulse("TIMER", 0) \in Pulses /\ Pulse("TIMER", 0).code = "TIMER"
         /\ queue' = Append(queue, Pulse("TIMER", 0)) /\ Len(queue) < MaxQueue
         /\ queue \in Seq(Pulses)
  BY DEF TypeOK, Expire, mainVars, threadVars, beatVars, Pulse, Pulses

LEMMA ExpireIInv == ASSUME IInv, Expire PROVE IInv'
<1>1. TypeOK /\ mtm # "create"
  BY ExpireIs DEF IInv, InLoop
<1>2. queue' \in Seq(Pulses) /\ Len(queue') <= MaxQueue
  BY <1>1, ExpireIs, AppendIs, MetronomeAssumption
<1>3. TypeOK'
  BY <1>1, <1>2, ExpireIs DEF TypeOK
<1>4. Valid' /\ InLoop'
  BY <1>1, ExpireIs, AppendIs DEF IInv, Valid, InLoop
<1>5. Dealt' => Dealt
  BY <1>1, ExpireIs, AppendIs DEF Dealt
<1>6. Armed'
  BY <1>1, <1>5, ExpireIs DEF IInv, Armed, Exact
<1> QED BY <1>3, <1>4, <1>6 DEF IInv

LEMMA StepIInv == IInv /\ [Next]_vars => IInv'
<1>1. ASSUME IInv, StopRunning \/ Exit PROVE IInv'
  <2>1. /\ main' \in {"leave", "exited"} /\ running' \in BOOLEAN
        /\ UNCHANGED <<attrs, new, mtm, coid, queue, timer, j, wanted, strayed, seen, shortened>>
    BY <1>1 DEF StopRunning, Exit, threadVars, beatVars, IInv, TypeOK
  <2>2. TypeOK'
    BY <1>1, <2>1 DEF IInv, TypeOK
  <2>3. Valid' /\ InLoop' /\ Armed'
    BY <1>1, <2>1 DEF IInv, Valid, InLoop, Armed
  <2> QED BY <2>2, <2>3 DEF IInv
<1>2. ASSUME IInv, UNCHANGED vars PROVE IInv'
  BY <1>2 DEF vars, IInv, TypeOK, Valid, InLoop, Armed, Dealt, Exact
<1> QED BY <1>1, <1>2, CommandIInv, ThreadIInv, ExpireIInv DEF Next, Continue

LEMMA Invariance == Spec => []IInv
  BY InitIInv, StepIInv, PTL DEF Spec

THEOREM TypeCorrect == Spec => []TypeOK
<1>1. IInv => TypeOK  BY DEF IInv
<1> QED BY Invariance, <1>1, PTL

(* However set's writes and the thread's reads of them fell, the interval   *)
(* times the beats of the pattern gives the measure that was asked for.     *)
THEOREM EveryMeasureInTime == Spec => []MeasureInTime
<1>1. IInv => MeasureInTime
  <2> SUFFICES ASSUME IInv, Settled, timer # Disarmed
               PROVE  timer.top * PatternLength(attrs) * attrs.bpm = attrs.top * timer.bpm * timer.per
    BY DEF MeasureInTime
  <2>1. timer = Exact(attrs) /\ attrs \in Settings /\ parse_args(attrs)
    BY SettingsType DEF IInv, TypeOK, Valid, Armed, Settled, Dealt
  <2> DEFINE b == attrs.bpm
             t == attrs.top
             n == PatternLength(attrs)
  <2>2. timer.top = t /\ timer.bpm = b /\ timer.per = n
    BY <2>1, PatternIsLookup DEF Exact
  <2>3. b \in Int /\ t \in Int /\ n \in Int
    BY <2>1, PatternType DEF Settings
  <2> HIDE DEF b, t, n
  <2>4. t * n * b = t * b * n
    BY <2>3
  <2> QED BY <2>2, <2>4 DEF b, t, n
<1> QED BY Invariance, <1>1, PTL

-----------------------------------------------------------------------------
(* The last command in the queue is the last that was given; when there is  *)
(* none left, the timer is as the last one wanted it.                       *)
IsLast(i) ==
  /\ queue[i].code # "TIMER"
  /\ \A k \in DOMAIN queue : k > i => queue[k].code = "TIMER"

Heeded ==
  strayed = "no" /\ main \in {"dispatch", "set"} =>
    /\ Dealt /\ mtm \in {"create", "arm"} => wanted = "on"
    /\ Dealt /\ main = "dispatch" /\ mtm \in {"check", "receive"} =>
         (timer # Disarmed <=> wanted = "on")
    /\ \A i \in DOMAIN queue : IsLast(i) =>
         /\ wanted = "on" <=> queue[i].code # "STOP"
         /\ queue[i].code = "PAUSE" => queue[i].value # 0

(* A command's pulse becomes the last.                                      *)
LEMMA SendHeeded ==
  ASSUME IInv, NEW p \in Pulses, p.code \in {"START", "STOP", "PAUSE"},
         MsgSendPulse(p), UNCHANGED threadVars, main \in {"dispatch", "set"}, main' = "dispatch",
         coid \/ strayed' # "no",
         strayed' = "no" => /\ wanted' = IF p.code = "STOP" THEN "off" ELSE "on"
                            /\ p.code = "PAUSE" => p.value # 0
  PROVE  Heeded'
<1>1. CASE ~coid
  BY <1>1 DEF Heeded
<1>2. CASE coid
  <2>1. queue' = Append(queue, p) /\ queue \in Seq(Pulses)
    BY <1>2 DEF MsgSendPulse, IInv, TypeOK
  <2>2. ~Dealt'
    BY <2>1, AppendIs DEF Dealt
  <2>3. ASSUME strayed' = "no", NEW i \in DOMAIN queue', IsLast(i)'
        PROVE  /\ wanted' = "on" <=> queue'[i].code # "STOP"
               /\ queue'[i].code = "PAUSE" => queue'[i].value # 0
    <3>1. CASE i = Len(queue) + 1
      BY <2>1, <2>3, <3>1, AppendIs
    <3>2. CASE i # Len(queue) + 1
      <4>1. /\ Len(queue) + 1 > i /\ Len(queue) + 1 \in DOMAIN queue'
            /\ queue'[Len(queue) + 1] = p
        BY <2>1, <3>2, AppendIs
      <4> QED BY <2>3, <4>1 DEF IsLast
    <3> QED BY <3>1, <3>2
  <2> QED BY <2>2, <2>3 DEF Heeded
<1> QED BY <1>1, <1>2

(* A pulse is dealt with.                                                   *)
LEMMA TakeHeeded ==
  ASSUME IInv, Heeded, NEW c, MsgReceive(c), main' \in {main, "crashed"},
         c = "TIMER" => timer' = timer,
         main = "dispatch" /\ c = "STOP" => timer' = Disarmed,
         main = "dispatch" /\ (c = "START" \/ (c = "PAUSE" /\ Head(queue).value # 0)) => timer' # Disarmed
  PROVE  Heeded'
<1>1. /\ mtm = "receive" /\ mtm' = "check" /\ Head(queue).code = c
      /\ UNCHANGED <<attrs, new, wanted, strayed, running, coid>>
  BY DEF MsgReceive, mainVars
<1> SUFFICES ASSUME strayed = "no", main \in {"dispatch", "set"}, main' = main PROVE Heeded'
  BY <1>1 DEF Heeded
<1>q. queue \in Seq(Pulses) /\ 1 \in DOMAIN queue
  BY TakeIs DEF IInv, TypeOK
<1>2. ASSUME NEW i \in DOMAIN queue'
      PROVE  /\ i + 1 \in DOMAIN queue /\ queue'[i] = queue[i + 1]
             /\ IsLast(i)' => IsLast(i + 1)
  <2>1. i + 1 \in DOMAIN queue /\ queue'[i] = queue[i + 1] /\ i \in Nat
    BY TakeIs
  <2>2. ASSUME IsLast(i)', NEW k \in DOMAIN queue, k > i + 1 PROVE queue[k].code = "TIMER"
    <3>1. k - 1 \in 1..(Len(queue) - 1) /\ k - 1 > i /\ (k - 1) + 1 = k
      BY <2>1, <2>2, TakeIs
    <3>2. k - 1 \in DOMAIN queue' /\ queue'[k - 1] = queue[k]
      BY <3>1, TakeIs
    <3> QED BY <2>2, <3>1, <3>2 DEF IsLast
  <2> QED BY <2>1, <2>2 DEF IsLast
<1>3. ASSUME NEW i \in DOMAIN queue', IsLast(i)'
      PROVE  /\ wanted' = "on" <=> queue'[i].code # "STOP"
             /\ queue'[i].code = "PAUSE" => queue'[i].value # 0
  BY <1>1, <1>2, <1>3 DEF Heeded
<1>4. ASSUME Dealt', main = "dispatch" PROVE timer' # Disarmed <=> wanted = "on"
  <2>1. ASSUME NEW k \in DOMAIN queue, k > 1 PROVE queue[k].code = "TIMER"
    <3>1. k - 1 \in 1..(Len(queue) - 1) /\ (k - 1) + 1 = k
      BY <2>1, TakeIs
    <3>2. k - 1 \in DOMAIN queue' /\ queue'[k - 1] = queue[k]
      BY <3>1, TakeIs
    <3> QED BY <1>4, <3>2 DEF Dealt
  <2>2. queue[1].code = c /\ queue[1] = Head(queue)
    BY <1>1, TakeIs
  <2>3. CASE c = "TIMER"
    <3>1. Dealt
      <4> SUFFICES ASSUME NEW i \in DOMAIN queue, i # 1 PROVE queue[i].code = "TIMER"
        BY <2>2, <2>3 DEF Dealt
      <4>1. i > 1
        BY TakeIs
      <4> QED BY <2>1, <4>1
    <3> QED BY <1>1, <1>4, <2>3, <3>1 DEF Heeded
  <2>4. CASE c # "TIMER"
    <3>1. IsLast(1)
      BY <2>1, <2>2, <2>4 DEF IsLast
    <3>2. (wanted = "on" <=> c # "STOP") /\ (c = "PAUSE" => Head(queue).value # 0)
      BY <1>q, <2>2, <3>1 DEF Heeded
    <3>3. c \in {"START", "STOP", "PAUSE"}
      <4>1. queue[1] \in Pulses
        BY <1>q, ElementOfSeq, TakeIs
      <4>2. c \in {"TIMER", "PAUSE", "STOP", "START", "MAXAVAIL"}
        BY <2>2, <4>1 DEF Pulses
      <4>3. c # "MAXAVAIL"
        BY <1>q, <2>2 DEF IInv, InLoop
      <4> QED BY <2>4, <4>2, <4>3
    <3>4. CASE c = "STOP"
      BY <1>4, <3>2, <3>4
    <3>5. CASE c \in {"START", "PAUSE"}
      <4>1. c = "START" \/ (c = "PAUSE" /\ Head(queue).value # 0)
        BY <3>2, <3>5
      <4>2. timer' # Disarmed
        BY <1>4, <4>1
      <4>3. wanted = "on"
        BY <3>2, <3>5
      <4> QED BY <4>2, <4>3
    <3> QED BY <3>3, <3>4, <3>5
  <2> QED BY <2>3, <2>4
<1> QED BY <1>1, <1>3, <1>4 DEF Heeded

LEMMA InitHeeded == Init => Heeded
<1> SUFFICES ASSUME Init PROVE Heeded OBVIOUS
<1>1. queue = <<>> /\ wanted = "on" /\ mtm = "create"
  BY DEF Init
<1>2. DOMAIN queue = {}
  BY <1>1
<1> QED BY <1>1, <1>2 DEF Heeded

LEMMA CommandHeededNext == ASSUME IInv, Heeded, Commands \/ SetDone PROVE Heeded'
<1>0. \A c \in {"START", "STOP", "PAUSE"}, v \in 0..9 :
        Pulse(c, v) \in Pulses /\ Pulse(c, v).code = c /\ Pulse(c, v).value = v
  BY DEF Pulse, Pulses
<1>1. wanted \in {"on", "off"}
  BY DEF IInv, TypeOK
(* A start or stop that is not lost, and a command beside them that keeps   *)
(* to the help text.                                                        *)
<1>2. ASSUME NEW w, Decides(w)
      PROVE  (coid \/ strayed' # "no") /\ wanted' = w
  BY <1>2 DEF Decides
<1>3. ASSUME NEW why, Leaves(why)
      PROVE  (coid \/ strayed' # "no") /\ wanted' = wanted /\ (strayed' = "no" => why = "no")
  BY <1>3 DEF Leaves
<1>4. Resumes = "no" => wanted = "on"
  BY <1>1 DEF Resumes
<1>5. CASE StartCmd
  <2>1. (coid \/ strayed' # "no") /\ wanted' = "on"
    BY <1>2, <1>5 DEF StartCmd
  <2> QED BY <1>0, <1>5, <2>1, SendHeeded DEF StartCmd
<1>6. CASE StopCmd
  <2>1. (coid \/ strayed' # "no") /\ wanted' = "off"
    BY <1>2, <1>6 DEF StopCmd
  <2> QED BY <1>0, <1>6, <2>1, SendHeeded DEF StopCmd
<1>7. CASE PauseCmd
  <2>1. PICK n \in PauseSeconds :
          MsgSendPulse(Pulse("PAUSE", n)) /\ Leaves(IF n = 0 THEN "paused" ELSE Resumes)
    BY <1>7 DEF PauseCmd
  <2>2. n \in 0..9 /\ main = "dispatch" /\ main' = main /\ UNCHANGED threadVars
    BY <1>7, MetronomeAssumption DEF PauseCmd
  <2>3. /\ coid \/ strayed' # "no"
        /\ strayed' = "no" => wanted' = "on" /\ n # 0
    BY <1>3, <1>4, <2>1
  <2>4. Pulse("PAUSE", n) \in Pulses /\ Pulse("PAUSE", n).code = "PAUSE" /\ Pulse("PAUSE", n).value = n
    BY <1>0, <2>2
  <2> QED BY <2>1, <2>2, <2>3, <2>4, SendHeeded
<1>8. CASE SetRefused
  <2>1. (coid \/ strayed' # "no") /\ (strayed' = "no" => wanted' = "on")
    BY <1>3, <1>4, <1>8 DEF SetRefused
  <2> QED BY <1>0, <1>8, <2>1, SendHeeded DEF SetRefused
<1>9. CASE SetDone
  <2>1. (coid \/ strayed' # "no") /\ (strayed' = "no" => wanted' = "on")
    BY <1>3, <1>4, <1>9 DEF SetDone
  <2> QED BY <1>0, <1>9, <2>1, SendHeeded DEF SetDone
<1>10. CASE SetCmd
  <2>1. /\ main = "dispatch" /\ main' = "set"
        /\ UNCHANGED <<queue, wanted, strayed, mtm, timer>>
    BY <1>10 DEF SetCmd, threadVars
  <2> QED BY <2>1 DEF Heeded, Dealt, IsLast
<1>11. CASE QuitCmd
  BY <1>11 DEF QuitCmd, Heeded
<1> QED BY <1>5, <1>6, <1>7, <1>8, <1>9, <1>10, <1>11 DEF Commands

LEMMA ThreadHeeded ==
  ASSUME IInv, Heeded, Thread
  PROVE  Heeded'
<1>0. TypeOK /\ Valid
  BY DEF IInv
<1>1. CASE Attach
  <2>1. /\ mtm = "create" /\ mtm' = "arm"
        /\ UNCHANGED <<attrs, new, wanted, strayed, main, queue, timer>>
    BY <1>1 DEF Attach, mainVars
  <2> QED BY <2>1 DEF Heeded, Dealt, IsLast
<1>2. CASE Arm
  <2>1. /\ mtm = "arm" /\ mtm' = "check" /\ \E spi \in calc_spi : timer_settime(spi)
        /\ UNCHANGED <<attrs, new, wanted, strayed, main, queue>>
    BY <1>2 DEF Arm, mainVars
  <2>2. main = "dispatch" => timer' # Disarmed
    BY <1>0, <2>1, SettimeExact DEF Valid
  <2> QED BY <2>1, <2>2 DEF Heeded, Dealt, IsLast
<1>3. CASE CheckRunning
  <2>1. /\ mtm = "check" /\ mtm' \in {"receive", "cleanup"}
        /\ UNCHANGED <<attrs, new, wanted, strayed, main, queue, timer>>
    BY <1>3 DEF CheckRunning, mainVars
  <2> QED BY <2>1 DEF Heeded, Dealt, IsLast
<1>4. CASE Cleanup
  BY <1>4 DEF Cleanup, IInv, InLoop, Heeded
<1>5. CASE TimerPulse
  <2>1. main' \in {main, "crashed"} /\ timer' = timer /\ MsgReceive("TIMER")
    BY <1>5 DEF TimerPulse
  <2> QED BY <2>1, TakeHeeded
<1>6. CASE PausePulse
  <2>1. /\ MsgReceive("PAUSE") /\ main' = main
        /\ Head(queue).value # 0 => \E spi \in calc_spi : timer_settime(spi)
    BY <1>6 DEF PausePulse
  <2>2. main = "dispatch" /\ Head(queue).value # 0 => timer' # Disarmed
    BY <1>0, <2>1, SettimeExact DEF Valid
  <2> QED BY <2>1, <2>2, TakeHeeded
<1>7. CASE StopPulse
  BY <1>7, TakeHeeded DEF StopPulse
<1>8. CASE StartPulse
  <2>1. MsgReceive("START") /\ main' = main /\ \E spi \in calc_spi : timer_settime(spi)
    BY <1>8 DEF StartPulse
  <2>2. main = "dispatch" => timer' # Disarmed
    BY <1>0, <2>1, SettimeExact DEF Valid
  <2> QED BY <2>1, <2>2, TakeHeeded
<1>9. CASE OtherPulse
  <2>1. MsgReceive("MAXAVAIL") /\ UNCHANGED <<main, timer>>
    BY <1>9 DEF OtherPulse
  <2> QED BY <2>1, TakeIs DEF IInv, InLoop, MsgReceive, Heeded
<1> QED BY <1>1, <1>2, <1>3, <1>4, <1>5, <1>6, <1>7, <1>8, <1>9 DEF Thread

LEMMA ExpireHeeded == ASSUME IInv, Heeded, Expire PROVE Heeded'
<1>1. /\ queue' = Append(queue, Pulse("TIMER", 0)) /\ Pulse("TIMER", 0).code = "TIMER"
      /\ UNCHANGED <<wanted, strayed, main, mtm, timer>>
      /\ queue \in Seq(Pulses) /\ Pulse("TIMER", 0) \in Pulses
  BY ExpireIs DEF IInv
<1>2. ASSUME NEW i \in DOMAIN queue
      PROVE  i \in DOMAIN queue' /\ queue'[i] = queue[i] /\ i \in 1..Len(queue)
  BY <1>1, <1>2, AppendIs
<1>3. Dealt' => Dealt
  BY <1>2 DEF Dealt
<1>4. ASSUME NEW i \in DOMAIN queue', queue'[i].code # "TIMER"
      PROVE  i \in DOMAIN queue
  BY <1>1, <1>4, AppendIs
<1>5. ASSUME NEW i \in DOMAIN queue, IsLast(i)' PROVE IsLast(i)
  BY <1>2, <1>5 DEF IsLast
<1>6. ASSUME strayed = "no", main \in {"dispatch", "set"}, NEW i \in DOMAIN queue', IsLast(i)'
      PROVE  /\ wanted' = "on" <=> queue'[i].code # "STOP"
             /\ queue'[i].code = "PAUSE" => queue'[i].value # 0
  <2>1. queue'[i].code # "TIMER"
    BY <1>6 DEF IsLast
  <2>2. i \in DOMAIN queue /\ queue'[i] = queue[i]
    BY <1>2, <1>4, <2>1
  <2> QED BY <1>1, <1>5, <1>6, <2>2 DEF Heeded
<1> QED BY <1>1, <1>3, <1>6 DEF Heeded

LEMMA StepHeeded == IInv /\ Heeded /\ [Next]_vars => Heeded'
<1>1. ASSUME StopRunning \/ Exit PROVE Heeded'
  BY <1>1 DEF StopRunning, Exit, Heeded
<1>2. ASSUME Heeded, UNCHANGED vars PROVE Heeded'
  BY <1>2 DEF vars, Heeded, Dealt, IsLast
<1> QED BY <1>1, <1>2, CommandHeededNext, ThreadHeeded, ExpireHeeded DEF Next, Continue

(* Whatever comes between them, the last start or stop decides whether the  *)
(* timer runs, as long as the commands since then do what the help text     *)
(* says of them.                                                            *)
THEOREM LastCommandDecides == Spec => []LastCommandWins
<1>1. IInv /\ Heeded => LastCommandWins
  BY DEF Heeded, LastCommandWins, Settled, Dealt
<1> QED BY Invariance, InitHeeded, StepHeeded, <1>1, PTL DEF Spec

-----------------------------------------------------------------------------
(* Which pattern the thread finds while a set is written: one of a          *)
(* signature that is neither the old nor the new, if the fields mix to one. *)

(* Signatures without a pattern are those that mtm_lookup does not know.    *)
LEMMA UnknownSignature ==
  ASSUME NEW s \in Settings, mtm_lookup(s.btm, s.top) = -1
  PROVE  PatternLength(s) = NoPattern
<1>1. DOMAIN ttp = 1..8 /\ 1..8 = {1, 2, 3, 4, 5, 6, 7, 8}
  BY DEF ttp
<1>2. ASSUME NEW i \in DOMAIN ttp, ttp[i].top = s.top, ttp[i].btm = s.btm PROVE FALSE
  BY <1>1, <1>2 DEF ttp, mtm_lookup
<1>3. {i \in DOMAIN ttp : ttp[i].top = s.top /\ ttp[i].btm = s.btm} = {}
  BY <1>2
<1> QED BY <1>3 DEF PatternLength

(* Two signatures mix to one with the pattern of one of them, or of none:   *)
(* only with 3 over 4 or 8 do halves of different ones make a third, and    *)
(* both of these have six beats.                                            *)
LEMMA MixedLookup ==
  ASSUME NEW b \in Int, NEW t \in Int, NEW c \in Int, NEW u \in Int,
         mtm_lookup(b, t) # -1, mtm_lookup(c, u) # -1
  PROVE  mtm_lookup(b, u) \in {-1, mtm_lookup(b, t), mtm_lookup(c, u)}
<1>1. <<b, t>> \in Signatures /\ <<c, u>> \in Signatures
  BY LookupType
<1>2. CASE b = c
  BY <1>2
<1>3. CASE b = 4 /\ c = 8
  <2>1. u \in {3, 6, 9, 12}
    BY <1>1, <1>3 DEF Signatures
  <2> QED BY <2>1, <1>3 DEF mtm_lookup
<1>4. CASE b = 8 /\ c = 4
  <2>1. u \in {2, 3, 4, 5}
    BY <1>1, <1>4 DEF Signatures
  <2> QED BY <2>1, <1>4 DEF mtm_lookup
<1> QED BY <1>1, <1>2, <1>3, <1>4 DEF Signatures

LEMMA MixedPattern ==
  ASSUME NEW s \in Settings, NEW t \in Settings, parse_args(s), parse_args(t),
         NEW r \in [bpm : {s.bpm}, top : {s.top, t.top}, btm : {s.btm, t.btm}]
  PROVE  PatternLength(r) \in {NoPattern, PatternLength(s), PatternLength(t)}
<1>1. /\ mtm_lookup(s.btm, s.top) # -1 /\ mtm_lookup(s.btm, s.top) = PatternLength(s)
      /\ mtm_lookup(t.btm, t.top) # -1 /\ mtm_lookup(t.btm, t.top) = PatternLength(t)
  BY PatternIsLookup DEF parse_args
<1>2. /\ r \in Settings /\ r.bpm > 0 /\ r.bpm <= INT_MAX
      /\ r.top > 0 /\ r.top <= 12 /\ r.btm > 0 /\ r.btm <= 8
  BY DEF Settings, parse_args
<1>3. s.btm \in Int /\ s.top \in Int /\ t.btm \in Int /\ t.top \in Int
  BY DEF Settings
<1>4. mtm_lookup(r.btm, r.top) \in {-1, PatternLength(s), PatternLength(t)}
  <2>1. r.btm \in {s.btm, t.btm} /\ r.top \in {s.top, t.top}
    OBVIOUS
  <2>2. mtm_lookup(s.btm, t.top) \in {-1, PatternLength(s), PatternLength(t)}
    BY <1>1, <1>3, MixedLookup
  <2>3. mtm_lookup(t.btm, s.top) \in {-1, PatternLength(s), PatternLength(t)}
    BY <1>1, <1>3, MixedLookup
  <2> QED BY <1>1, <2>1, <2>2, <2>3
<1>5. CASE mtm_lookup(r.btm, r.top) = -1
  BY <1>2, <1>5, UnknownSignature
<1>6. CASE mtm_lookup(r.btm, r.top) # -1
  BY <1>2, <1>4, <1>6, PatternIsLookup DEF parse_args
<1> QED BY <1>5, <1>6

Halves == {"top", "btm"}

LEMMA SameSignature ==
  ASSUME NEW r, NEW s, r.top = s.top, r.btm = s.btm
  PROVE  PatternLength(r) = PatternLength(s)
<1>1. {i \in DOMAIN ttp : ttp[i].top = r.top /\ ttp[i].btm = r.btm}
        = {i \in DOMAIN ttp : ttp[i].top = s.top /\ ttp[i].btm = s.btm}
  OBVIOUS
<1> QED BY <1>1 DEF PatternLength

(* What the pattern loop can find with a view of the halves: a pattern of   *)
(* the old, of the new, or none.                                            *)
LEMMA ViewPattern ==
  ASSUME attrs \in Settings, new \in Settings, parse_args(attrs), parse_args(new),
         NEW v \in SUBSET Halves
  PROVE  /\ PatternLength(Signature(v)) \in {NoPattern, PatternLength(attrs), PatternLength(new)}
         /\ v = {} => PatternLength(Signature(v)) = PatternLength(attrs)
         /\ v = Halves => PatternLength(Signature(v)) = PatternLength(new)
<1> DEFINE r == [bpm |-> attrs.bpm, top |-> Signature(v).top, btm |-> Signature(v).btm]
<1>1. r \in [bpm : {attrs.bpm}, top : {attrs.top, new.top}, btm : {attrs.btm, new.btm}]
  BY DEF Signature
<1>2. PatternLength(r) = PatternLength(Signature(v))
  <2>1. r.top = Signature(v).top /\ r.btm = Signature(v).btm
    OBVIOUS
  <2> HIDE DEF r
  <2> QED BY <2>1, SameSignature
<1>3. PatternLength(r) \in {NoPattern, PatternLength(attrs), PatternLength(new)}
  <2> HIDE DEF r
  <2> QED BY <1>1, MixedPattern
<1>4. ASSUME v = {} PROVE PatternLength(Signature(v)) = PatternLength(attrs)
  <2>1. Signature(v).top = attrs.top /\ Signature(v).btm = attrs.btm
    BY <1>4 DEF Signature
  <2> QED BY <2>1, SameSignature
<1>5. ASSUME v = Halves PROVE PatternLength(Signature(v)) = PatternLength(new)
  <2>1. Signature(v).top = new.top /\ Signature(v).btm = new.btm
    BY <1>5 DEF Signature, Halves
  <2> QED BY <2>1, SameSignature
<1> QED BY <1>2, <1>3, <1>4, <1>5

(* The thread that sees more of a longer pattern does not find a shorter    *)
(* one.                                                                     *)
LEMMA ViewsGrow ==
  ASSUME attrs \in Settings, new \in Settings, parse_args(attrs), parse_args(new),
         PatternLength(attrs) <= PatternLength(new),
         NEW v \in SUBSET Halves, NEW w \in SUBSET Halves, v \subseteq w
  PROVE  \/ PatternLength(Signature(v)) = NoPattern
         \/ PatternLength(Signature(w)) = NoPattern
         \/ PatternLength(Signature(v)) <= PatternLength(Signature(w))
<1>0. PatternLength(attrs) \in Nat /\ PatternLength(new) \in Nat
  BY PatternType
<1>1. CASE v = {}
  BY <1>0, <1>1, ViewPattern
<1>2. CASE w = Halves
  BY <1>0, <1>2, ViewPattern
<1>3. CASE v # {} /\ w # Halves
  <2>1. v = w
    BY <1>3 DEF Halves
  <2> QED BY <1>0, <2>1, ViewPattern
<1> QED BY <1>1, <1>2, <1>3

(* While a longer pattern or one of equal length is being set, whatever     *)
(* the thread may still find has the next beat.                             *)
InLine ==
  ~shortened =>
    /\ main # "crashed"
    /\ main # "set" => j < PatternLength(attrs)
    /\ main = "set" =>
         /\ PatternLength(attrs) <= PatternLength(new)
         /\ \A v \in Views : LET len == PatternLength(Signature(v)) IN len = NoPattern \/ j < len

LEMMA InitInLine == Init => InLine
<1> SUFFICES ASSUME Init PROVE InLine OBVIOUS
<1>1. attrs \in Settings /\ parse_args(attrs) /\ j = 0 /\ main = "dispatch"
  BY SettingsType DEF Init
<1> QED BY <1>1, PatternIsLookup DEF InLine

(* A beat: what the loop finds is the pattern in use, or one of those that  *)
(* may be seen while a set is being written.                                *)
LEMMA BeatInLine == ASSUME IInv, InLine, TimerPulse PROVE InLine'
<1>1. /\ attrs \in Settings /\ new \in Settings /\ parse_args(attrs)
      /\ (main = "set" => parse_args(new)) /\ j \in Nat /\ seen \subseteq Halves
      /\ PatternLength(attrs) \in Nat /\ PatternLength(attrs) > 0
  BY SettingsType, PatternType, PatternIsLookup DEF IInv, TypeOK, Valid, Halves
<1>2. attrs' = attrs /\ new' = new /\ shortened' = (shortened /\ ~LineEnds) /\ main # "crashed"
  BY DEF TimerPulse, MsgReceive, mainVars, Alive
<1>3. PICK v \in Views : \E len \in Found(v) :
        /\ seen' = v
        /\ \/ len = NoPattern /\ UNCHANGED <<j, main>>
           \/ j < len /\ j' = (j + 1) % len /\ UNCHANGED main
           \/ /\ len # NoPattern /\ j >= len
              /\ \/ main' = "crashed" /\ UNCHANGED j
                 \/ j' \in {0, j + 1} \cap 0..MaxIndex /\ UNCHANGED main
  BY DEF TimerPulse
<1>4. PICK len \in Found(v) :
        \/ len = NoPattern /\ UNCHANGED <<j, main>>
        \/ j < len /\ j' = (j + 1) % len /\ UNCHANGED main
        \/ /\ len # NoPattern /\ j >= len
           /\ \/ main' = "crashed" /\ UNCHANGED j
              \/ j' \in {0, j + 1} \cap 0..MaxIndex /\ UNCHANGED main
  BY <1>3
<1>5. len \in Nat /\ v \in SUBSET Halves /\ seen' = v
  BY <1>3, PatternType DEF Found, NoPattern, Views, Halves
<1>6. CASE main # "set"
  <2>1. v = {} /\ len = PatternLength(Signature(v))
    BY <1>6 DEF Views, Found
  <2>2. len = PatternLength(attrs)
    <3>1. Signature(v).top = attrs.top /\ Signature(v).btm = attrs.btm
      BY <2>1 DEF Signature
    <3> QED BY <2>1, <3>1, SameSignature
  <2>3. ASSUME ~shortened' PROVE main' = main /\ j' < len
    <3>1. CASE ~shortened
      <4>1. j < len
        BY <1>6, <2>2, <3>1 DEF InLine
      <4>2. j' = (j + 1) % len /\ main' = main
        BY <1>1, <1>4, <1>5, <2>2, <4>1 DEF NoPattern
      <4> QED BY <1>1, <1>5, <2>2, <4>2
    <3>2. CASE shortened
      <4>1. j' = 0
        BY <1>2, <2>3, <3>2 DEF LineEnds
      <4>2. main' = main
        BY <1>1, <1>4, <1>5, <2>2, <4>1
      <4> QED BY <1>1, <2>2, <4>1, <4>2
    <3> QED BY <3>1, <3>2
  <2> QED BY <1>2, <1>6, <2>2, <2>3 DEF InLine
<1>7. CASE main = "set"
  <2> SUFFICES ASSUME ~shortened' PROVE InLine'
    BY DEF InLine
  <2>1. ~shortened
    BY <1>2, <1>7 DEF LineEnds
  <2>2. /\ PatternLength(attrs) <= PatternLength(new)
        /\ \A u \in Views : PatternLength(Signature(u)) = NoPattern \/ j < PatternLength(Signature(u))
    BY <1>7, <2>1 DEF InLine
  <2>3. len = NoPattern \/ (len = PatternLength(Signature(v)) /\ j < len)
    <3>1. len = NoPattern \/ len = PatternLength(Signature(v))
      BY DEF Found
    <3> QED BY <2>2, <3>1
  <2>4. main' = main
    BY <1>1, <1>4, <1>5, <2>3
  <2>5. ASSUME NEW w \in Views'
        PROVE  PatternLength(Signature(w)) = NoPattern \/ j' < PatternLength(Signature(w))
    <3>1. w \in SUBSET Halves /\ v \subseteq w
      BY <1>5, <1>7, <2>4 DEF Views, Halves
    <3>2. w \in Views
      BY <1>3, <1>7, <3>1 DEF Views, Halves
    <3>3. PatternLength(Signature(w)) \in Nat
      BY PatternType
    <3>4. CASE len = NoPattern
      <4>1. j' = j
        BY <1>1, <1>4, <3>4 DEF NoPattern
      <4> QED BY <2>2, <3>2, <4>1
    <3>5. CASE len = PatternLength(Signature(v)) /\ j < len
      <4>1. j' = (j + 1) % len
        BY <1>1, <1>4, <1>5, <3>5 DEF NoPattern
      <4>2. j' < len /\ j' \in Nat
        BY <1>1, <1>5, <3>5, <4>1
      <4>3. \/ len = NoPattern \/ PatternLength(Signature(w)) = NoPattern
            \/ len <= PatternLength(Signature(w))
        BY <1>1, <1>5, <1>7, <2>2, <3>1, <3>5, ViewsGrow
      <4> QED BY <1>1, <1>5, <3>3, <3>5, <4>2, <4>3 DEF NoPattern
    <3> QED BY <2>3, <3>4, <3>5
  <2>6. ASSUME NEW w \in Views' PROVE Signature(w)' = Signature(w)
    BY <1>2 DEF Signature
  <2>7. \A w \in Views' : PatternLength(Signature(w)') = NoPattern \/ j' < PatternLength(Signature(w)')
    BY <2>5, <2>6
  <2> QED BY <1>2, <1>7, <2>2, <2>4, <2>7 DEF InLine, Signature
<1> QED BY <1>6, <1>7

LEMMA StepInLine == IInv /\ InLine /\ [Next]_vars => InLine'
<1> SUFFICES ASSUME IInv, InLine, [Next]_vars PROVE InLine'
  OBVIOUS
<1>1. /\ attrs \in Settings /\ new \in Settings /\ parse_args(attrs)
      /\ (main = "set" => parse_args(new)) /\ j \in Nat /\ seen \subseteq Halves
      /\ PatternLength(attrs) \in Nat
  BY SettingsType, PatternType DEF IInv, TypeOK, Valid, Halves
<1>2. CASE SetCmd
  <2>1. /\ main = "dispatch" /\ main' = "set" /\ attrs' = attrs /\ parse_args(new') /\ new' \in Sets
        /\ shortened' = (shortened \/ PatternLength(new') < PatternLength(attrs))
        /\ j' = j /\ seen' = seen
    BY <1>2 DEF SetCmd, threadVars
  <2> SUFFICES ASSUME ~shortened' PROVE InLine'
    BY DEF InLine
  <2>2. new' \in Settings /\ PatternLength(new') \in Nat
    BY <2>1, SettingsType, PatternType
  <2>3. PatternLength(attrs) <= PatternLength(new') /\ j < PatternLength(attrs)
    <3>1. ~shortened /\ ~(PatternLength(new') < PatternLength(attrs))
      BY <2>1
    <3>2. j < PatternLength(attrs)
      BY <2>1, <3>1 DEF InLine
    <3> QED BY <1>1, <2>2, <3>1, <3>2
  <2>4. \A v \in SUBSET Halves :
          PatternLength(Signature(v)') \in {NoPattern, PatternLength(attrs), PatternLength(new')}
    <3>1. ASSUME NEW v \in SUBSET Halves, NEW n \in Settings, parse_args(n),
                 NEW g, g.top \in {attrs.top, n.top}, g.btm \in {attrs.btm, n.btm}
          PROVE  PatternLength(g) \in {NoPattern, PatternLength(attrs), PatternLength(n)}
      <4> DEFINE r == [bpm |-> attrs.bpm, top |-> g.top, btm |-> g.btm]
      <4>1. /\ r \in [bpm : {attrs.bpm}, top : {attrs.top, n.top}, btm : {attrs.btm, n.btm}]
            /\ r.top = g.top /\ r.btm = g.btm
        BY <3>1
      <4> HIDE DEF r
      <4>2. PatternLength(r) = PatternLength(g)
        BY <4>1, SameSignature
      <4> QED BY <1>1, <3>1, <4>1, <4>2, MixedPattern
    <3>2. ASSUME NEW v \in SUBSET Halves
          PROVE  Signature(v)'.top \in {attrs.top, new'.top} /\ Signature(v)'.btm \in {attrs.btm, new'.btm}
      BY <2>1 DEF Signature
    <3> QED BY <2>1, <2>2, <3>1, <3>2
  <2>5. \A v \in Views' : v \in SUBSET Halves
    BY DEF Views, Halves
  <2>6. \A v \in Views' : PatternLength(Signature(v)') = NoPattern \/ j' < PatternLength(Signature(v)')
    BY <1>1, <2>1, <2>2, <2>3, <2>4, <2>5
  <2> QED BY <2>1, <2>3, <2>6 DEF InLine
<1>3. CASE SetDone
  <2>1. /\ main = "set" /\ main' = "dispatch" /\ attrs' = new /\ j' = j
        /\ shortened' = (shortened /\ j # 0)
    BY <1>3 DEF SetDone, threadVars
  <2>2. PatternLength(new) \in Nat /\ PatternLength(new) > 0
    BY <1>1, <2>1, PatternIsLookup, PatternType
  <2>3. ASSUME ~shortened' PROVE j < PatternLength(new)
    <3>1. CASE shortened
      BY <2>1, <2>2, <2>3, <3>1
    <3>2. CASE ~shortened
      <4>1. Halves \in Views
        BY <1>1, <2>1 DEF Views, Halves
      <4>2. PatternLength(Signature(Halves)) = PatternLength(new)
        BY <1>1, <2>1, ViewPattern
      <4>3. PatternLength(Signature(Halves)) = NoPattern \/ j < PatternLength(Signature(Halves))
        BY <2>1, <3>2, <4>1 DEF InLine
      <4> QED BY <2>2, <4>2, <4>3 DEF NoPattern
    <3> QED BY <3>1, <3>2
  <2> QED BY <2>1, <2>3 DEF InLine
<1>4. CASE StartCmd \/ StopCmd \/ PauseCmd \/ SetRefused \/ QuitCmd \/ StopRunning \/ Exit
  <2>1. /\ main' \notin {"set", "crashed"} /\ main \notin {"set", "crashed"}
        /\ UNCHANGED <<attrs, j, shortened>>
    BY <1>4 DEF StartCmd, StopCmd, PauseCmd, SetRefused, QuitCmd, StopRunning, Exit, threadVars, beatVars
  <2> QED BY <2>1 DEF InLine
<1>5. ASSUME UNCHANGED <<attrs, new, main, j, seen, shortened>> PROVE InLine'
  BY <1>5 DEF InLine, Views, Signature
<1>6. CASE Attach \/ Arm \/ CheckRunning \/ Cleanup \/ Expire
  BY <1>5, <1>6 DEF Attach, Arm, CheckRunning, Cleanup, Expire, mainVars, threadVars, beatVars
<1>7. CASE PausePulse \/ StopPulse \/ StartPulse \/ OtherPulse
  BY <1>5, <1>7 DEF PausePulse, StopPulse, StartPulse, OtherPulse, MsgReceive, mainVars, beatVars
<1>8. CASE UNCHANGED vars
  BY <1>5, <1>8 DEF vars
<1> QED BY BeatInLine, <1>2, <1>3, <1>4, <1>6, <1>7, <1>8 DEF Next, Commands, Continue, Thread

(* For settings of whatever lengths: the next beat is one of the pattern    *)
(* and nothing is read past its end, except in a line in which a shorter    *)
(* pattern was set.                                                         *)
THEOREM OnlyShorteningLeavesPattern == Spec => []InPatternUnlessShortened
<1>1. InLine => InPatternUnlessShortened
  BY DEF InLine, InPatternUnlessShortened
<1> QED BY Invariance, InitInLine, StepInLine, <1>1, PTL DEF Spec

-----------------------------------------------------------------------------
(* A stop waits at its place in the queue.  Others come in behind it, and   *)
(* each pulse that the thread takes brings it one place up.  When it is     *)
(* taken itself the timer is disarmed, and nothing else takes it away but   *)
(* the end of the thread, which disarms the timer too.  With the thread     *)
(* scheduled this is StopTakesEffect.                                       *)
Codes == {"TIMER", "PAUSE", "STOP", "START", "MAXAVAIL"}
Taken == \E c \in Codes : MsgReceive(c)
StopAt(i) == i \in DOMAIN queue /\ queue[i].code = "STOP"

StopMovesUp ==
  [][\A i \in 1..MaxQueue : StopAt(i) =>
       IF Taken THEN IF i = 1 THEN timer' = Disarmed ELSE StopAt(i - 1)'
                ELSE StopAt(i)' \/ timer' = Disarmed]_vars

(* What main or the timer sends is put behind what waits.                   *)
LEMMA SentBehind ==
  ASSUME TypeOK, Commands \/ SetDone \/ Expire, NEW i \in 1..MaxQueue, StopAt(i)
  PROVE  ~Taken /\ StopAt(i)'
<1>1. queue' = queue \/ \E p : queue' = Append(queue, p)
  BY DEF Commands, StartCmd, StopCmd, PauseCmd, SetCmd, SetRefused, QuitCmd, SetDone, Expire, MsgSendPulse
<1>2. queue \in Seq(Pulses)
  BY DEF TypeOK
<1>3. ASSUME queue' = queue PROVE StopAt(i)'
  BY <1>3 DEF StopAt
<1>4. ASSUME NEW p, queue' = Append(queue, p) PROVE StopAt(i)'
  BY <1>2, <1>4, LenProperties DEF StopAt
<1>5. mtm' = mtm
  BY DEF Commands, StartCmd, StopCmd, PauseCmd, SetCmd, SetRefused, QuitCmd, SetDone, Expire, threadVars
<1>6. ~Taken
  BY <1>5 DEF Taken, MsgReceive
<1> QED BY <1>1, <1>3, <1>4, <1>6

THEOREM StopNotOvertaken == Spec => StopMovesUp
<1>1. ASSUME IInv, Next, NEW i \in 1..MaxQueue, StopAt(i)
      PROVE  IF Taken THEN IF i = 1 THEN timer' = Disarmed ELSE StopAt(i - 1)'
                      ELSE StopAt(i)' \/ timer' = Disarmed
  <2>1. CASE Commands \/ SetDone \/ Expire
    BY <1>1, <2>1, SentBehind DEF IInv
  <2>2. CASE StopRunning \/ Exit \/ Attach \/ Arm \/ CheckRunning
    <3>1. queue' = queue /\ ~(mtm = "receive" /\ mtm' = "check")
      BY <2>2 DEF StopRunning, Exit, Attach, Arm, CheckRunning, threadVars
    <3>2. ~Taken
      BY <3>1 DEF Taken, MsgReceive
    <3> QED BY <1>1, <3>1, <3>2 DEF StopAt
  <2>3. CASE Cleanup
    <3>1. timer' = Disarmed /\ mtm = "cleanup"
      BY <2>3 DEF Cleanup
    <3>2. ~Taken
      BY <3>1 DEF Taken, MsgReceive
    <3> QED BY <3>1, <3>2
  <2>4. CASE TimerPulse \/ PausePulse \/ StopPulse \/ StartPulse \/ OtherPulse
    <3>1. PICK c \in Codes : MsgReceive(c)
      BY <2>4 DEF Codes, TimerPulse, PausePulse, StopPulse, StartPulse, OtherPulse
    <3>2. /\ Len(queue) \in Nat \ {0} /\ DOMAIN queue = 1..Len(queue)
          /\ DOMAIN queue' = 1..(Len(queue) - 1) /\ Head(queue) = queue[1]
          /\ \A k \in 1..(Len(queue) - 1) : queue'[k] = queue[k + 1]
      BY <1>1, <3>1, TakeIs
    <3>3. ASSUME i = 1 PROVE timer' = Disarmed
      <4>1. Head(queue).code = "STOP"
        BY <1>1, <3>2, <3>3 DEF StopAt
      <4>2. StopPulse
        BY <2>4, <4>1 DEF TimerPulse, PausePulse, StartPulse, OtherPulse, MsgReceive
      <4> QED BY <4>2 DEF StopPulse
    <3>4. ASSUME i # 1 PROVE StopAt(i - 1)'
      <4>1. i - 1 \in 1..(Len(queue) - 1) /\ (i - 1) + 1 = i
        BY <1>1, <3>2, <3>4 DEF StopAt
      <4>2. i - 1 \in DOMAIN queue' /\ queue'[i - 1] = queue[i]
        BY <3>2, <4>1
      <4> QED BY <1>1, <4>2 DEF StopAt
    <3> QED BY <3>1, <3>3, <3>4 DEF Taken
  <2> QED BY <1>1, <2>1, <2>2, <2>3, <2>4 DEF Next, Continue, Thread
<1>2. IInv /\ [Next]_vars =>
        [\A i \in 1..MaxQueue : StopAt(i) =>
           IF Taken THEN IF i = 1 THEN timer' = Disarmed ELSE StopAt(i - 1)'
                    ELSE StopAt(i)' \/ timer' = Disarmed]_vars
  BY <1>1
<1> QED BY Invariance, <1>2, PTL DEF Spec, StopMovesUp

(* No pulse waits for a thread that has not attached its channel yet or has *)
(* ended: while one waits, or the timer runs, the thread is on its way to   *)
(* it.                                                                      *)
PulseIsHeard ==
  queue # <<>> \/ timer # Disarmed => coid /\ mtm \in {"arm", "check", "receive", "cleanup"}

AtRest == ~coid => mtm \in {"create", "done"} /\ queue = <<>> /\ timer = Disarmed
Connected == coid => mtm \in {"arm", "check", "receive", "cleanup"}

THEOREM NoPulseUnheard == Spec => []PulseIsHeard
<1> DEFINE I == AtRest /\ Connected
<1>1. Init => I
  BY DEF Init, AtRest, Connected
<1>2. ASSUME IInv, I, [Next]_vars PROVE I'
  <2> USE DEF AtRest, Connected
  <2>1. CASE Commands \/ SetDone
    <3>1. UNCHANGED <<mtm, coid, timer>> /\ (coid \/ queue' = queue)
      BY <2>1 DEF Commands, StartCmd, StopCmd, PauseCmd, SetCmd, SetRefused, QuitCmd, SetDone,
         threadVars, MsgSendPulse
    <3> QED BY <1>2, <3>1
  <2>2. CASE StopRunning \/ Exit
    BY <1>2, <2>2 DEF StopRunning, Exit, threadVars
  <2>3. CASE Attach
    BY <1>2, <2>3 DEF Attach
  <2>4. CASE Arm \/ CheckRunning
    <3>1. coid' = coid /\ mtm \in {"arm", "check"} /\ mtm' \in {"check", "receive", "cleanup"}
      BY <2>4 DEF Arm, CheckRunning
    <3> QED BY <1>2, <3>1
  <2>5. CASE Cleanup
    BY <1>2, <2>5 DEF Cleanup
  <2>6. CASE TimerPulse \/ PausePulse \/ StopPulse \/ StartPulse \/ OtherPulse
    <3>1. coid' = coid /\ mtm = "receive" /\ mtm' = "check"
      BY <2>6 DEF TimerPulse, PausePulse, StopPulse, StartPulse, OtherPulse, MsgReceive
    <3> QED BY <1>2, <3>1
  <2>7. CASE Expire
    <3>1. UNCHANGED <<coid, mtm>> /\ timer # Disarmed
      BY <2>7 DEF Expire, threadVars
    <3> QED BY <1>2, <3>1
  <2>8. CASE UNCHANGED vars
    BY <1>2, <2>8 DEF vars
  <2> QED BY <1>2, <2>1, <2>2, <2>3, <2>4, <2>5, <2>6, <2>7, <2>8 DEF Next, Continue, Thread
<1>3. I => PulseIsHeard
  BY DEF IInv, TypeOK, AtRest, Connected, PulseIsHeard
<1> HIDE DEF I
<1> QED BY Invariance, <1>1, <1>2, <1>3, PTL DEF Spec
=============================================================================
