------------------------------ MODULE Metronome ------------------------------
(***************************************************************************)
(* The metronome resource manager (assignment2/metronome_resmgr): main,     *)
(* which dispatches one write to the device at a time, the metronome        *)
(* thread, the POSIX timer, and the pulses that both send the thread.       *)
(*                                                                          *)
(* Time is left out: a timer that is armed may expire at any moment.  The   *)
(* interval is kept as the three numbers calc_spi divides and multiplies.   *)
(* Pulses of equal priority arrive in the order they were sent.  Writes     *)
(* that change nothing (bad arguments, an unknown command, the help device) *)
(* are steps that leave all variables as they are.                          *)
(***************************************************************************)
EXTENDS Integers, Sequences

CONSTANTS
  Starts,        (* the settings on the command line                       *)
  Sets,          (* the arguments of set commands, valid or not            *)
  PauseSeconds,  (* the digits given to pause                              *)
  MaxQueue,      (* bound: pulses waiting for the thread                   *)
  MaxIndex,      (* bound: how far j runs past a pattern                   *)
  INT_MAX

ASSUME MetronomeAssumption ==
  /\ PauseSeconds \subseteq 0..9
  /\ MaxQueue \in Nat \ {0} /\ MaxIndex \in Nat /\ INT_MAX \in Nat
  /\ Starts \cup Sets \subseteq [bpm : Int, top : Int, btm : Int]

VARIABLES
  attrs,     (* bpm and time signature: mtm_attrs[0]                        *)
  new,       (* what parse_args is writing to attrs                         *)
  main,      (* where main's thread is                                      *)
  mtm,       (* where the metronome thread is                               *)
  running,
  coid,      (* mtm_coid # -1: pulses sent to the thread reach it            *)
  queue,     (* the pulses on the thread's channel                          *)
  timer,     (* what the timer is armed with, or Disarmed                   *)
  j,         (* index of the next beat in the pattern                       *)
  seen,      (* what the pattern loop has read of a set being written       *)
  wanted,    (* history: on or off, as the help text has the commands       *)
  strayed,   (* history: why the code may not keep to that                  *)
  shortened  (* history: a shorter pattern was set in the middle of a line  *)

vars == <<attrs, new, main, mtm, running, coid, queue, timer, j, seen,
          wanted, strayed, shortened>>

-----------------------------------------------------------------------------
Disarmed == [bpm |-> 0, top |-> 0, per |-> 0]

(* mtm_lookup: intervals in a measure, by the two numbers of its signature. *)
mtm_lookup(btm, top) ==
  CASE btm = 4 /\ top \in 2..5        -> 2 * top
    [] btm = 8 /\ top \in {3, 6}      -> 6
    [] btm = 8 /\ top \in {9, 12}     -> top
    [] OTHER                          -> -1

(* The length of each pattern in ttp; only its last string ends the line.   *)
ttp == << [top |->  2, btm |-> 4, beats |->  4], [top |->  3, btm |-> 4, beats |->  6],
          [top |->  4, btm |-> 4, beats |->  8], [top |->  5, btm |-> 4, beats |-> 10],
          [top |->  3, btm |-> 8, beats |->  6], [top |->  6, btm |-> 8, beats |->  6],
          [top |->  9, btm |-> 8, beats |->  9], [top |-> 12, btm |-> 8, beats |-> 12] >>

NoPattern == 0

PatternLength(s) ==
  LET found == {i \in DOMAIN ttp : ttp[i].top = s.top /\ ttp[i].btm = s.btm}
  IN  IF found = {} THEN NoPattern ELSE ttp[CHOOSE i \in found : TRUE].beats

(* What parse_args accepts.                                                 *)
parse_args(s) ==
  /\ s.bpm > 0 /\ s.bpm <= INT_MAX
  /\ s.top > 0 /\ s.top <= 12
  /\ s.btm > 0 /\ s.btm <= 8
  /\ mtm_lookup(s.btm, s.top) # -1

(* Nothing orders the thread's reads of attrs with main's writes: while a   *)
(* set is being written each read of a field finds the old or the new value.*)
(* calc_spi is run again after the set, so what it has seen is not kept.    *)
Reads ==
  IF main # "set" THEN {attrs}
  ELSE [bpm : {attrs.bpm, new.bpm}, top : {attrs.top, new.top},
        btm : {attrs.btm, new.btm}]

(* calc_spi: 60 * top / (bpm * per) seconds; it reads the numerator twice.  *)
calc_spi == {[bpm |-> r.bpm, top |-> r.top, per |-> mtm_lookup(r.btm, s.top)] :
               r \in Reads, s \in Reads}

(* The loop over ttp reads the signature for every entry and, once it has   *)
(* seen a new half, does not see the old one again.                         *)
Views == IF main # "set" THEN {{}}
         ELSE {v \in SUBSET {"top", "btm"} : seen \subseteq v}

Signature(v) == [top |-> IF "top" \in v THEN new.top ELSE attrs.top,
                 btm |-> IF "btm" \in v THEN new.btm ELSE attrs.btm]

(* While they change, the loop may miss both the old and the new pattern.   *)
Found(v) == {PatternLength(Signature(v))}
              \cup (IF main = "set" THEN {NoPattern} ELSE {})

(* A negative interval makes timer_settime fail and leave the timer alone.  *)
timer_settime(interval) == timer' = IF interval.per < 0 THEN timer ELSE interval

-----------------------------------------------------------------------------
(* main: one write at a time                                                *)

Pulse(c, v) == [code |-> c, value |-> v]

(* Before the thread has attached, mtm_coid is -1 and the pulse is lost.    *)
MsgSendPulse(p) ==
  IF coid THEN Len(queue) < MaxQueue /\ queue' = Append(queue, p)
          ELSE UNCHANGED queue

(* start and stop say whether the metronome is to run; pause and set leave  *)
(* that as it is, says the help text.                                       *)
Decides(w) == wanted' = w /\ strayed' = IF coid THEN "no" ELSE "lost"

Leaves(why) ==
  /\ UNCHANGED wanted
  /\ strayed' = IF strayed # "no" THEN strayed ELSE IF coid THEN why ELSE "lost"

(* A pulse that starts the timer, whether it was stopped or not.            *)
Resumes == IF wanted = "off" THEN "resumed" ELSE "no"

threadVars == <<mtm, running, coid, timer, j>>
beatVars   == <<seen, shortened>>

StartCmd ==
  /\ main = "dispatch" /\ MsgSendPulse(Pulse("START", 0)) /\ Decides("on")
  /\ UNCHANGED <<attrs, new, main, threadVars, beatVars>>

StopCmd ==
  /\ main = "dispatch" /\ MsgSendPulse(Pulse("STOP", 0)) /\ Decides("off")
  /\ UNCHANGED <<attrs, new, main, threadVars, beatVars>>

(* The pulse's timer starts a stopped metronome, and one of 0 seconds stops *)
(* it: neither is what the help text says of pause.                         *)
PauseCmd ==
  /\ main = "dispatch"
  /\ \E n \in PauseSeconds :
       MsgSendPulse(Pulse("PAUSE", n)) /\ Leaves(IF n = 0 THEN "paused" ELSE Resumes)
  /\ UNCHANGED <<attrs, new, main, threadVars, beatVars>>

SetCmd ==
  /\ main = "dispatch"
  /\ \E s \in Sets : parse_args(s) /\ new' = s
  /\ main' = "set"
  /\ shortened' = (shortened \/ PatternLength(new') < PatternLength(attrs))
  /\ UNCHANGED <<attrs, queue, seen, wanted, strayed, threadVars>>

(* A slip: only bpm is written.                                             *)
SetDoneBpm ==
  /\ main = "set" /\ MsgSendPulse(Pulse("START", 0)) /\ Leaves(Resumes)
  /\ attrs' = [attrs EXCEPT !.bpm = new.bpm] /\ main' = "dispatch"
  /\ seen' = {} /\ shortened' = (shortened /\ j # 0)
  /\ UNCHANGED <<new, threadVars>>

(* A slip: the timer is not refreshed.                                      *)
SetDoneQuietly ==
  /\ main = "set" /\ Leaves(Resumes) /\ attrs' = new /\ main' = "dispatch"
  /\ seen' = {} /\ shortened' = (shortened /\ j # 0)
  /\ UNCHANGED <<new, queue, threadVars>>

(* START refreshes the timer of a metronome that runs, and starts one that  *)
(* was stopped.                                                             *)
SetDone ==
  /\ main = "set" /\ MsgSendPulse(Pulse("START", 0)) /\ Leaves(Resumes)
  /\ attrs' = new /\ main' = "dispatch"
  /\ seen' = {} /\ shortened' = (shortened /\ j # 0)
  /\ UNCHANGED <<new, threadVars>>

(* The result of parse_args is not looked at: START is sent anyway.         *)
SetRefused ==
  /\ main = "dispatch" /\ \E s \in Sets : ~parse_args(s)
  /\ MsgSendPulse(Pulse("START", 0)) /\ Leaves(Resumes)
  /\ UNCHANGED <<attrs, new, main, threadVars, beatVars>>

(* quit unblocks the thread first and only then clears running.             *)
QuitCmd ==
  /\ main = "dispatch" /\ MsgSendPulse(Pulse("MAXAVAIL", 0)) /\ main' = "quit"
  /\ UNCHANGED <<attrs, new, wanted, strayed, threadVars, beatVars>>

StopRunning ==
  /\ main = "quit" /\ running' = FALSE /\ main' = "leave"
  /\ UNCHANGED <<attrs, new, mtm, coid, queue, timer, j, wanted, strayed, beatVars>>

(* Not in the code: joining the metronome thread, as it means to.  The      *)
(* thread may have taken quit's pulse while running was still true.         *)
ExitAfterJoin ==
  /\ main = "leave" /\ mtm = "done" /\ main' = "exited"
  /\ UNCHANGED <<attrs, new, queue, wanted, strayed, threadVars, beatVars>>

(* tid was overwritten with pthread_create's result, 0, which is no thread: *)
(* pthread_join returns an error at once and main returns.                  *)
Exit ==
  /\ main = "leave" /\ main' = "exited"
  /\ UNCHANGED <<attrs, new, queue, wanted, strayed, threadVars, beatVars>>

-----------------------------------------------------------------------------
(* The metronome thread, which lives as long as the process does.           *)
Alive == main \notin {"exited", "crashed"}

mainVars == <<attrs, new, wanted, strayed>>

Attach ==
  /\ Alive /\ mtm = "create"
  /\ coid' = TRUE /\ mtm' = "arm"
  /\ UNCHANGED <<mainVars, main, running, queue, timer, j, beatVars>>

Arm ==
  /\ Alive /\ mtm = "arm"
  /\ \E spi \in calc_spi : timer_settime(spi)
  /\ mtm' = "check"
  /\ UNCHANGED <<mainVars, main, running, coid, queue, j, beatVars>>

CheckRunning ==
  /\ Alive /\ mtm = "check"
  /\ mtm' = IF running THEN "receive" ELSE "cleanup"
  /\ UNCHANGED <<mainVars, main, running, coid, queue, timer, j, beatVars>>

MsgReceive(c) ==
  /\ Alive /\ mtm = "receive" /\ queue # <<>> /\ Head(queue).code = c
  /\ queue' = Tail(queue) /\ mtm' = "check"
  /\ UNCHANGED <<mainVars, running, coid>>

(* The end of a line is seen while nothing is being written.                *)
LineEnds == main # "set" /\ j' = 0

(* A slip: j is not reset at the end of the line.                           *)
TimerPulseNoReset ==
  /\ MsgReceive("TIMER")
  /\ \E v \in Views : \E len \in Found(v) :
       /\ seen' = v
       /\ IF j < len THEN j' = j + 1 ELSE UNCHANGED j
  /\ shortened' = (shortened /\ ~LineEnds)
  /\ UNCHANGED <<main, timer>>

(* pattern[j] past the end of the pattern is undefined: the process crashes,*)
(* or something is printed that ends a line or does not.                    *)
TimerPulse ==
  /\ MsgReceive("TIMER")
  /\ \E v \in Views : \E len \in Found(v) :
       /\ seen' = v
       /\ \/ len = NoPattern /\ UNCHANGED <<j, main>>
          \/ j < len /\ j' = (j + 1) % len /\ UNCHANGED main
          \/ /\ len # NoPattern /\ j >= len
             /\ \/ main' = "crashed" /\ UNCHANGED j
                \/ j' \in {0, j + 1} \cap 0..MaxIndex /\ UNCHANGED main
  /\ shortened' = (shortened /\ ~LineEnds)
  /\ UNCHANGED timer

(* The timer goes off after the pause; a pause of 0 seconds disarms it.     *)
PausePulse ==
  /\ MsgReceive("PAUSE")
  /\ IF Head(queue).value = 0 THEN timer' = Disarmed
                              ELSE \E spi \in calc_spi : timer_settime(spi)
  /\ UNCHANGED <<main, j, beatVars>>

(* A slip: only the interval is cleared, not the time to the next expiry.   *)
StopPulseInterval ==
  /\ MsgReceive("STOP") /\ UNCHANGED <<main, timer, j, beatVars>>

StopPulse ==
  /\ MsgReceive("STOP") /\ timer' = Disarmed /\ UNCHANGED <<main, j, beatVars>>

(* A slip: only a timer that runs is set again.                             *)
StartPulseRunning ==
  /\ MsgReceive("START")
  /\ \E spi \in calc_spi : IF timer = Disarmed THEN UNCHANGED timer
                                              ELSE timer_settime(spi)
  /\ UNCHANGED <<main, j, beatVars>>

StartPulse ==
  /\ MsgReceive("START") /\ \E spi \in calc_spi : timer_settime(spi)
  /\ UNCHANGED <<main, j, beatVars>>

OtherPulse == MsgReceive("MAXAVAIL") /\ UNCHANGED <<main, timer, j, beatVars>>

Cleanup ==
  /\ Alive /\ mtm = "cleanup"
  /\ mtm' = "done" /\ timer' = Disarmed /\ coid' = FALSE /\ queue' = <<>>
  /\ UNCHANGED <<mainVars, main, running, j, beatVars>>

(* The timer's own pulse.                                                   *)
Expire ==
  /\ Alive /\ timer # Disarmed /\ Len(queue) < MaxQueue
  /\ queue' = Append(queue, Pulse("TIMER", 0))
  /\ UNCHANGED <<mainVars, main, threadVars, beatVars>>

-----------------------------------------------------------------------------
Init ==
  /\ attrs \in {s \in Starts : parse_args(s)} /\ new = attrs
  /\ main = "dispatch" /\ mtm = "create" /\ running = TRUE /\ coid = FALSE
  /\ queue = <<>> /\ timer = Disarmed /\ j = 0 /\ seen = {}
  /\ wanted = "on" /\ strayed = "no" /\ shortened = FALSE

Commands == StartCmd \/ StopCmd \/ PauseCmd \/ SetCmd \/ SetRefused \/ QuitCmd

Continue == SetDone \/ StopRunning \/ Exit

Thread ==
  \/ Attach \/ Arm \/ CheckRunning \/ Cleanup
  \/ TimerPulse \/ PausePulse \/ StopPulse \/ StartPulse \/ OtherPulse

Next == Commands \/ Continue \/ Thread \/ Expire

Spec == Init /\ [][Next]_vars

(* Both threads are scheduled; nobody has to write to the device.           *)
FairSpec == Spec /\ WF_vars(Continue) /\ WF_vars(Thread)

-----------------------------------------------------------------------------
Pulses == [code : {"TIMER", "PAUSE", "STOP", "START", "MAXAVAIL"}, value : 0..9]

TypeOK ==
  /\ attrs \in Starts \cup Sets /\ new \in Starts \cup Sets
  /\ main \in {"dispatch", "set", "quit", "leave", "exited", "crashed"}
  /\ mtm \in {"create", "arm", "check", "receive", "cleanup", "done"}
  /\ running \in BOOLEAN /\ coid \in BOOLEAN
  /\ queue \in Seq(Pulses) /\ Len(queue) <= MaxQueue
  /\ timer \in [bpm : Int, top : Int, per : Int]
  /\ j \in Nat /\ seen \subseteq {"top", "btm"}
  /\ wanted \in {"on", "off"} /\ strayed \in {"no", "lost", "resumed", "paused"}
  /\ shortened \in BOOLEAN

(* The thread is in its loop and has dealt with every command.              *)
Settled ==
  /\ main = "dispatch" /\ mtm \in {"check", "receive"}
  /\ \A i \in DOMAIN queue : queue[i].code = "TIMER"

(* A measure takes the time the settings ask for, top beats at bpm: however *)
(* the thread's unsynchronised reads of attrs fell between the writes of    *)
(* set, once the commands are dealt with the timer's interval times the     *)
(* beats of the pattern is right.                                           *)
MeasureInTime ==
  Settled /\ timer # Disarmed =>
    timer.top * PatternLength(attrs) * attrs.bpm = attrs.top * timer.bpm * timer.per

(* The timer runs if and only if the help text has it run: started, not     *)
(* stopped since, whatever was in the queue when a command came and what    *)
(* pauses and sets, valid or not, came with it.  Nothing is claimed between *)
(* a command that does not keep to the text and the next start or stop: a   *)
(* pause or set while stopped (StopStays), a pause of 0 (PauseEnds) and a   *)
(* command before the thread has attached (CommandHeeded).                  *)
LastCommandWins ==
  Settled /\ strayed = "no" => (timer # Disarmed <=> wanted = "on")

(* A stop that reached the thread stops the timer, or the program ends.     *)
StopTakesEffect ==
  (\E i \in DOMAIN queue : queue[i].code = "STOP") ~> (timer = Disarmed \/ ~Alive)

(* quit ends the program.                                                   *)
QuitExits == main = "quit" ~> ~Alive

(* The next beat is one of the pattern in use, and nothing is read past its *)
(* end, although the thread may find half an old and half a new signature:  *)
(* except from a set to a shorter pattern in the middle of a line until     *)
(* that line ends.                                                          *)
InPatternUnlessShortened ==
  ~shortened => main # "crashed" /\ (main # "set" => j < PatternLength(attrs))

(* The beats come in the order of the pattern: the next one always is one   *)
(* of the pattern in use.  Fails when set goes to a shorter pattern.        *)
BeatInPattern == Settled => j < PatternLength(attrs)

(* Nothing a client writes is lost.  Fails at start-up.                     *)
CommandHeeded ==
  Settled /\ strayed \in {"no", "lost"} => (timer # Disarmed <=> wanted = "on")

(* A stopped metronome stays so until start.  Fails for pause and set.      *)
StopStays == Settled /\ strayed # "lost" /\ wanted = "off" => timer = Disarmed

(* A metronome that was paused goes on.  Fails for a pause of 0 seconds.    *)
PauseEnds == Settled /\ strayed # "lost" /\ wanted = "on" => timer # Disarmed

(* main waits for the metronome thread before it returns.  It does not.     *)
JoinedBeforeExit == main = "exited" => mtm = "done"
=============================================================================
