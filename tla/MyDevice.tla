------------------------------- MODULE MyDevice -------------------------------
(***************************************************************************)
(* lab7: my_device, a resource manager that keeps a text, and my_controller *)
(* to which it forwards alerts as pulses.  Users write lines "status <word>"*)
(* and "alert <number>" to the device and read it.                          *)
(*                                                                          *)
(* name_open is taken to succeed if and only if the controller's name is    *)
(* attached.  The device's handlers run one after the other in its only     *)
(* thread.  A controller's fscanf takes the text in one read.  A device     *)
(* that ended is not started again.                                         *)
(***************************************************************************)
EXTENDS Integers, Sequences

CONSTANTS
  Words,          (* the words after "status", as records [word, len]       *)
  Numbers,        (* the numbers after "alert"                              *)
  Writers,
  Sizes,          (* buffer sizes of a user who reads                       *)
  MaxControllers, (* bound: controllers ever started                        *)
  MaxAlerts,      (* bound: alerts waiting at the controller                *)
  MaxReads        (* bound: reads of one open of the user                   *)

ASSUME MyDeviceAssumption ==
  /\ \A t \in Words : t.len \in Nat \ {0}
  /\ Numbers \subseteq Int /\ Sizes \subseteq Nat \ {0}
  /\ MaxControllers \in Nat /\ MaxAlerts \in Nat /\ MaxReads \in Nat

VARIABLES
  dev,          (* whether the device runs                                  *)
  data, server_coid,
  ctl,          (* the controller: where it is and which one it is          *)
  alerts,       (* alert pulses that wait at it                             *)
  gone,         (* whether the pulse of the device's end waits at it        *)
  wr,           (* which writers have the device open                       *)
  rd,           (* the user who reads                                       *)
  due, told     (* history: one alert that was written after the controller *)
                (* had first opened the device is not displayed yet; one    *)
                (* was written then, while the text was the closed that it  *)
                (* still is                                                 *)

ctlVars == <<ctl, alerts, gone, due, told>>
vars    == <<dev, data, server_coid, wr, rd, ctlVars>>

-----------------------------------------------------------------------------
None   == 0
Empty  == [word |-> "", len |-> 0]
Closed == "closed"

CtlUp    == ctl.pc # "off"
Attached == CtlUp                  (* the name goes with the process *)
Looping  == ctl.pc \in {"open", "read", "wait"}    (* the device has been opened *)

-----------------------------------------------------------------------------
(* my_device: the connect and I/O functions *)

(* A slip: the connection is opened once.                                   *)
io_open_once ==
  /\ dev = "up" /\ Attached
  /\ server_coid' = IF server_coid = None THEN ctl.id ELSE server_coid

(* Every open, of whomever, looks the controller up again.                  *)
io_open ==
  /\ dev = "up" /\ Attached /\ server_coid' = ctl.id

io_open_fails ==
  /\ dev = "up" /\ ~Attached /\ server_coid' = None

(* A slip: the end is where the reader's buffer ends.                       *)
AtBufferEnd(ocb) == ocb.offset >= ocb.size

AtEOF(ocb) == ocb.offset = data.len

nbytes(size) == IF data.len < size THEN data.len ELSE size

(* What is read begins at the start of data, wherever the offset is.        *)
io_read(ocb) ==
  [ocb EXCEPT !.offset = @ + nbytes(ocb.size),
              !.got = Append(@, [text |-> data, at |-> ocb.offset, from |-> 0,
                                 n |-> nbytes(ocb.size)])]

InRange(n) == n >= 1 /\ n <= 99

(* A pulse to a controller that is not there is lost without a word.        *)
SendPulse(n) ==
  /\ \E watched \in {FALSE, Looping /\ ~due} :
       /\ alerts' = IF CtlUp /\ server_coid = ctl.id
                    THEN Append(alerts, [value |-> n, due |-> watched]) ELSE alerts
       /\ due' = (due \/ watched)
  /\ told' = (told \/ (Looping /\ data.word = Closed))

io_write_alert(w, n) ==
  /\ dev = "up" /\ wr[w] = "open" /\ Len(alerts) < MaxAlerts
  /\ IF InRange(n) THEN SendPulse(n) ELSE UNCHANGED <<alerts, due, told>>
  /\ UNCHANGED <<dev, data, server_coid, ctl, gone, wr, rd>>

io_write_status(w, t) ==
  /\ dev = "up" /\ wr[w] = "open"
  /\ data' = t /\ told' = FALSE
  /\ rd' = [rd EXCEPT !.rewritten = TRUE]
  /\ UNCHANGED <<dev, server_coid, ctl, alerts, gone, due, wr>>

(* The device's end, by a user's hand or by a line "alert" without a number,*)
(* which atoi does not survive.  Its connections go, and the controller is  *)
(* sent a pulse if it had one.                                              *)
DeviceEnds ==
  /\ dev = "up" /\ dev' = "down"
  /\ gone' = (CtlUp /\ (server_coid = ctl.id \/ Looping))
  /\ UNCHANGED <<data, server_coid, ctl, alerts, due, told, wr, rd>>

-----------------------------------------------------------------------------
(* my_controller *)

CtlGoes ==
  /\ ctl' = [ctl EXCEPT !.pc = "off"]
  /\ alerts' = <<>> /\ gone' = FALSE /\ due' = FALSE /\ told' = FALSE

NameAttach ==
  /\ ~CtlUp /\ ctl.id < MaxControllers
  /\ ctl' = [pc |-> "start", id |-> ctl.id + 1]
  /\ UNCHANGED <<dev, data, server_coid, wr, rd, alerts, gone, due, told>>

(* The first fopen, and the one after each alert.                           *)
Fopen ==
  /\ ctl.pc \in {"start", "open"} /\ io_open /\ ctl' = [ctl EXCEPT !.pc = "read"]
  /\ UNCHANGED <<dev, data, wr, rd, alerts, gone, due, told>>

FopenFails ==
  /\ ctl.pc \in {"start", "open"} /\ dev = "down" /\ CtlGoes
  /\ UNCHANGED <<dev, data, server_coid, wr, rd>>

(* A slip: the file is not opened again; its offset is at the end.          *)
FscanfAgain ==
  /\ ctl.pc = "read" /\ ctl' = [ctl EXCEPT !.pc = "wait"]
  /\ UNCHANGED <<dev, data, server_coid, wr, rd, alerts, gone, due, told>>

(* fscanf and what main does with the status, at the start and after each   *)
(* alert alike.  The device that is gone reads as an empty one.             *)
Fscanf ==
  /\ ctl.pc = "read"
  /\ IF dev = "up" /\ data.word = Closed THEN CtlGoes
     ELSE ctl' = [ctl EXCEPT !.pc = "wait"] /\ UNCHANGED <<alerts, gone, due, told>>
  /\ UNCHANGED <<dev, data, server_coid, wr, rd>>

ReceiveAlert ==
  /\ ctl.pc = "wait" /\ alerts # <<>>
  /\ ctl' = [ctl EXCEPT !.pc = "open"]
  /\ due' = (due /\ ~Head(alerts).due)
  /\ alerts' = Tail(alerts)
  /\ UNCHANGED <<dev, data, server_coid, wr, rd, gone, told>>

(* A slip: an unexpected pulse is passed over.                              *)
PassOver ==
  /\ ctl.pc = "wait" /\ gone /\ gone' = FALSE
  /\ UNCHANGED <<dev, data, server_coid, wr, rd, ctl, alerts, due, told>>

UnexpectedPulse ==
  /\ ctl.pc = "wait" /\ gone /\ CtlGoes
  /\ UNCHANGED <<dev, data, server_coid, wr, rd>>

(* A user kills the controller: its name goes, the device's coid stays.     *)
ControllerKilled ==
  /\ CtlUp /\ CtlGoes /\ UNCHANGED <<dev, data, server_coid, wr, rd>>

-----------------------------------------------------------------------------
(* The users *)

WriterOpens(w) ==
  /\ wr[w] = "closed"
  /\ \/ io_open /\ wr' = [wr EXCEPT ![w] = "open"]
     \/ io_open_fails /\ UNCHANGED wr
  /\ UNCHANGED <<dev, data, rd, ctlVars>>

WriterCloses(w) ==
  /\ wr[w] = "open" /\ wr' = [wr EXCEPT ![w] = "closed"]
  /\ UNCHANGED <<dev, data, server_coid, rd, ctlVars>>

ReaderOpens ==
  /\ rd.pc # "open" /\ io_open
  /\ \E size \in Sizes :
       rd' = [pc |-> "open", size |-> size, offset |-> 0, got |-> <<>>, rewritten |-> FALSE]
  /\ UNCHANGED <<dev, data, wr, ctlVars>>

ReaderReads ==
  /\ rd.pc = "open" /\ dev = "up" /\ Len(rd.got) < MaxReads
  /\ rd' = IF AtEOF(rd) THEN [rd EXCEPT !.pc = "eof"] ELSE io_read(rd)
  /\ UNCHANGED <<dev, data, server_coid, wr, ctlVars>>

-----------------------------------------------------------------------------
Init ==
  /\ dev = "up" /\ data = Empty /\ server_coid = None
  /\ ctl = [pc |-> "off", id |-> None] /\ alerts = <<>> /\ gone = FALSE
  /\ wr = [w \in Writers |-> "closed"]
  /\ rd = [pc |-> "closed", size |-> 1, offset |-> 0, got |-> <<>>, rewritten |-> FALSE]
  /\ due = FALSE /\ told = FALSE

ControllerStep == Fopen \/ FopenFails \/ Fscanf \/ ReceiveAlert \/ UnexpectedPulse

Next ==
  \/ ControllerStep \/ NameAttach \/ ControllerKilled \/ DeviceEnds
  \/ \E w \in Writers : \/ WriterOpens(w) \/ WriterCloses(w)
                        \/ \E n \in Numbers : io_write_alert(w, n)
                        \/ \E t \in Words : io_write_status(w, t)
  \/ ReaderOpens \/ ReaderReads

Spec == Init /\ [][Next]_vars

(* The controller is scheduled.  Users owe nothing.                         *)
FairSpec == Spec /\ WF_vars(ControllerStep)

-----------------------------------------------------------------------------
Texts == Words \cup {Empty}

TypeOK ==
  /\ dev \in {"up", "down"} /\ data \in Texts
  /\ server_coid \in None..MaxControllers
  /\ ctl \in [pc : {"off", "start", "open", "read", "wait"}, id : None..MaxControllers]
  /\ alerts \in Seq([value : 1..99, due : BOOLEAN]) /\ Len(alerts) <= MaxAlerts
  /\ wr \in [Writers -> {"closed", "open"}] /\ gone \in BOOLEAN
  /\ rd \in [pc : {"closed", "open", "eof"}, size : Nat, offset : Nat, rewritten : BOOLEAN,
             got : Seq([text : Texts, at : Nat, from : Nat, n : Nat])]
  /\ due \in BOOLEAN /\ told \in BOOLEAN

(* From when the controller has first opened the device, server_coid leads  *)
(* to it, whichever user opens the device after that or had it open since   *)
(* before the controller that ran last was killed.                          *)
CoidIsController == Looping => server_coid = ctl.id

(* A user with a buffer for all of it who reads until the end has read the  *)
(* text, once, unless it was written meanwhile.                             *)
WholeTextOnce ==
  rd.pc = "eof" /\ ~rd.rewritten /\ rd.size >= data.len =>
    IF data = Empty THEN rd.got = <<>>
    ELSE Len(rd.got) = 1 /\ rd.got[1].text = data /\ rd.got[1].n = data.len

(* Every alert that is written from the controller's first fopen on is      *)
(* displayed, unless the controller ends first.                             *)
AlertsShown == due ~> ~due

(* An alert that a writer sends goes to the controller whose name is        *)
(* attached.  Fails from name_attach to the first fopen: a writer that has  *)
(* had the device open sends it to the controller that ran before.          *)
AlertReaches ==
  dev = "up" /\ CtlUp => \A w \in Writers : wr[w] = "open" => server_coid = ctl.id

(* Closed, then an alert after the first fopen: the controller ends, unless *)
(* the text is written again.                                               *)
EndsIfStaysClosed == told ~> ~told

(* The controller does not outlive the device.                              *)
EndsWithDevice == (dev = "down" /\ CtlUp) ~> ~CtlUp

(* A read starts at the offset.  Fails for a buffer smaller than the text.  *)
ReadContinues == \A i \in DOMAIN rd.got : rd.got[i].from = rd.got[i].at
=============================================================================
