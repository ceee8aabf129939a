------------------------------ MODULE DesSystem ------------------------------
(***************************************************************************)
(* The processes of the door entry system (assignment1/) and the messages   *)
(* between them: des_inputs clients that block in MsgSend, des_controller   *)
(* that receives one message at a time, runs a handler of DesController,    *)
(* pulses des_display when the log changed and replies, and des_display     *)
(* that prints the shared log on every pulse.                               *)
(*                                                                          *)
(* Channels, connections, pulses and the unblocking of a client whose       *)
(* server died are QNX's.  Clients of equal priority are received in the    *)
(* order in which they sent.  A controller or display that is started again *)
(* has a new process id, so connections to the old one fail for good.       *)
(***************************************************************************)
EXTENDS Integers, Sequences, Queues

CONSTANTS
  Clients,        (* the des_inputs processes                              *)
  NoClient,       (* nobody is being served                                *)
  Pulse,          (* a pulse in the controller's receive queue             *)
  Typed,          (* the command lines users type                          *)
  Extras, NoLog,  (* as in DesController                                   *)
  MaxPulses,      (* bound: pulses waiting in the display's channel        *)
  MaxCrashes,     (* bound: controllers that die                           *)
  MaxDisplays     (* bound: displays that die                              *)

ASSUME SystemAssumption ==
  /\ NoClient \notin Clients /\ Pulse \notin Clients
  /\ Extras \subseteq Int /\ 0 \in Extras
  /\ MaxPulses \in Nat \ {0} /\ MaxCrashes \in Nat /\ MaxDisplays \in Nat

VARIABLES
  next_state, context, code, disp_log, notify,   (* of DesController       *)
  ctl,        (* where the controller's loop is, or "dead"                  *)
  cur,        (* the client whose message was received: rcvid               *)
  queue,      (* what waits to be received on the controller's channel      *)
  client,     (* the des_inputs processes                                   *)
  disp,       (* is des_display running?                                    *)
  linked,     (* the controller's coid refers to the running display        *)
  pulses,     (* pulses waiting in the display's channel                    *)
  shown,      (* the last log the display printed                           *)
  told,       (* history: this controller has pulsed this display           *)
  crashes, displays   (* how often each of them died                        *)

ctlVars  == <<next_state, context, code, disp_log, notify>>
dispVars == <<disp, linked, pulses, shown, told>>
vars == <<ctlVars, ctl, cur, queue, client, dispVars, crashes, displays>>

Ctl == INSTANCE DesController

-----------------------------------------------------------------------------
ASSUME TypedAssumption == Typed \subseteq Ctl!Commands /\ NoLog \notin Ctl!Contexts

RspCodes == Ctl!Codes \cup {"UNEXPECTED"}

NoMsg == [data |-> "other", extra |-> 0]

(* status is what the last MsgSend returned; the code throws it away.       *)
Off == [pc |-> "off", msg |-> NoMsg, rsp |-> "NONE", status |-> "ok",
        connected |-> FALSE]

Blocked(c) == client[c].pc \in {"send", "send_number"}

(* The text of the last message is overwritten before it is sent again, so  *)
(* it is forgotten when the client goes back to its prompt.                 *)
Prompt(r) == [r EXCEPT !.pc = "prompt", !.msg = NoMsg, !.status = "ok"]

(* A MsgSend that fails leaves the response as it was.  Only the first one  *)
(* of a round is followed by the switch on rsp.code.                        *)
SendFails(r, m) ==
  IF r.pc \in {"ask", "send_number"} THEN Prompt(r)
  ELSE [r EXCEPT !.pc = "switch", !.msg = m, !.status = "failed"]

(* A slip: no second reply.                                                 *)
RepliedOnce(r, rsp_code) ==
  IF r.pc = "send_number" THEN r
  ELSE [r EXCEPT !.pc = "switch", !.rsp = rsp_code, !.status = "ok"]

(* MsgReply unblocks the client; the response to the number is not looked at. *)
Replied(r, rsp_code) ==
  IF r.pc = "send_number" THEN [Prompt(r) EXCEPT !.rsp = rsp_code]
  ELSE [r EXCEPT !.pc = "switch", !.rsp = rsp_code, !.status = "ok"]

-----------------------------------------------------------------------------
(* des_inputs *)

(* ConnectAttach fails when the controller is not running.                  *)
Launch(c) ==
  /\ client[c].pc = "off" /\ ctl # "dead"
  /\ client' = [client EXCEPT ![c] = [Prompt(Off) EXCEPT !.connected = TRUE]]
  /\ UNCHANGED <<ctlVars, ctl, cur, queue, dispVars, crashes, displays>>

MsgSend(c, m, pc) ==
  /\ IF client[c].connected
     THEN /\ client' = [client EXCEPT ![c].pc = pc, ![c].msg = m]
          /\ queue' = Append(queue, c)
     ELSE /\ client' = [client EXCEPT ![c] = SendFails(@, m)]
          /\ UNCHANGED queue
  /\ UNCHANGED <<ctlVars, ctl, cur, dispVars, crashes, displays>>

TypeCommand(c) ==
  /\ client[c].pc = "prompt"
  /\ \E d \in Typed : MsgSend(c, [data |-> d, extra |-> 0], "send")

SwitchOnCode(c) ==
  /\ client[c].pc = "switch"
  /\ client' = [client EXCEPT ![c] =
       CASE @.rsp = "EXTRA"      -> [@ EXCEPT !.pc = "ask", !.status = "ok"]
         [] @.rsp = "DISCONNECT" -> Off
         [] OTHER                -> Prompt(@)]
  /\ UNCHANGED <<ctlVars, ctl, cur, queue, dispVars, crashes, displays>>

(* A slip: the number's line is copied to msg.data as well.                 *)
TypeNumberAsCommand(c) ==
  /\ client[c].pc = "ask"
  /\ \E n \in Extras : MsgSend(c, [data |-> "other", extra |-> n], "send_number")

TypeNumber(c) ==
  /\ client[c].pc = "ask"
  /\ \E n \in Extras : MsgSend(c, [client[c].msg EXCEPT !.extra = n], "send_number")

(* A user interrupts a client.  A client that is being served is gone when  *)
(* the reply comes, and MsgReply fails.                                     *)
ClientDies(c) ==
  /\ client[c].pc # "off"
  /\ client' = [client EXCEPT ![c] = Off]
  /\ queue' = TakenBack(queue, c)
  /\ cur' = IF cur = c THEN NoClient ELSE cur
  /\ UNCHANGED <<ctlVars, ctl, dispVars, crashes, displays>>

-----------------------------------------------------------------------------
(* des_controller *)

(* The handler has written the log when update_display sends the pulse.     *)
Receive ==
  /\ ctl = "receive" /\ queue # <<>> /\ Head(queue) \in Clients
  /\ Ctl!CallHandler(client[Head(queue)].msg)
  /\ cur' = Head(queue) /\ queue' = Tail(queue)
  /\ ctl' = IF notify' THEN "pulse" ELSE "reply"
  /\ UNCHANGED <<client, dispVars, crashes, displays>>

(* A slip: the next person may start although nobody has left.              *)
ReceivePulseRestarts ==
  /\ ctl = "receive" /\ queue # <<>> /\ Head(queue) = Pulse
  /\ code' = "UNEXPECTED" /\ notify' = FALSE /\ next_state' = "start"
  /\ cur' = NoClient /\ queue' = Tail(queue) /\ ctl' = "reply"
  /\ UNCHANGED <<context, disp_log, client, dispVars, crashes, displays>>

ReceivePulse ==
  /\ ctl = "receive" /\ queue # <<>> /\ Head(queue) = Pulse
  /\ code' = "UNEXPECTED" /\ notify' = FALSE
  /\ cur' = NoClient /\ queue' = Tail(queue) /\ ctl' = "reply"
  /\ UNCHANGED <<next_state, context, disp_log, client, dispVars, crashes, displays>>

(* A slip: only the first update is announced.                              *)
SendPulseOnce ==
  /\ ctl = "pulse" /\ (linked => pulses < MaxPulses)
  /\ IF linked /\ ~told THEN pulses' = pulses + 1 /\ told' = TRUE
                        ELSE UNCHANGED <<pulses, told>>
  /\ ctl' = "reply"
  /\ UNCHANGED <<ctlVars, cur, queue, client, disp, linked, shown, crashes, displays>>

(* MsgSendPulse to a display that is gone fails and is only reported.       *)
SendPulse ==
  /\ ctl = "pulse" /\ (linked => pulses < MaxPulses)
  /\ IF linked THEN pulses' = pulses + 1 /\ told' = TRUE
               ELSE UNCHANGED <<pulses, told>>
  /\ ctl' = "reply"
  /\ UNCHANGED <<ctlVars, cur, queue, client, disp, linked, shown, crashes, displays>>

(* A slip: the loop waits for a client to reply to.                         *)
ReplyToClient ==
  /\ ctl = "reply" /\ cur # NoClient
  /\ client' = [client EXCEPT ![cur] = Replied(@, code)]
  /\ ctl' = "receive" /\ cur' = NoClient
  /\ UNCHANGED <<ctlVars, queue, dispVars, crashes, displays>>

(* A slip: the loop goes on after a refused event without a reply.          *)
ReplyUnlessRefused ==
  /\ ctl = "reply"
  /\ client' = [c \in Clients |-> IF c = cur /\ code # "INVAL" THEN Replied(client[c], code)
                                                               ELSE client[c]]
  /\ ctl' = "receive" /\ cur' = NoClient
  /\ UNCHANGED <<ctlVars, queue, dispVars, crashes, displays>>

Reply ==
  /\ ctl = "reply"
  /\ client' = [c \in Clients |-> IF c = cur THEN Replied(client[c], code)
                                             ELSE client[c]]
  /\ ctl' = "receive" /\ cur' = NoClient
  /\ UNCHANGED <<ctlVars, queue, dispVars, crashes, displays>>

(* Some other process sends the controller a pulse, one at a time.          *)
StrayPulse ==
  /\ ctl # "dead" /\ \A i \in DOMAIN queue : queue[i] # Pulse
  /\ queue' = Append(queue, Pulse)
  /\ UNCHANGED <<ctlVars, ctl, cur, client, dispVars, crashes, displays>>

(* The controller dies: its memory is lost, the log in shared memory stays, *)
(* blocked clients' MsgSend fails and so will all others on the connection. *)
Crash ==
  /\ ctl # "dead" /\ crashes < MaxCrashes /\ crashes' = crashes + 1
  /\ ctl' = "dead" /\ cur' = NoClient /\ queue' = <<>>
  /\ client' = [c \in Clients |->
       [IF Blocked(c) THEN SendFails(client[c], client[c].msg) ELSE client[c]
          EXCEPT !.connected = FALSE]]
  /\ next_state' = "start" /\ context' = Ctl!FirstContext
  /\ code' = "NONE" /\ notify' = FALSE
  /\ linked' = FALSE /\ told' = FALSE
  /\ UNCHANGED <<disp_log, disp, pulses, shown, displays>>

(* main connects to the display, so the display must run first.             *)
Restart ==
  /\ ctl = "dead" /\ disp = "up"
  /\ ctl' = "receive" /\ linked' = TRUE
  /\ UNCHANGED <<ctlVars, cur, queue, client, disp, pulses, shown, told,
                 crashes, displays>>

-----------------------------------------------------------------------------
(* des_display *)

(* A slip: no lseek, so that only the first read returns anything.          *)
PrintLogNoSeek ==
  /\ disp = "up" /\ pulses > 0
  /\ pulses' = pulses - 1 /\ shown' = IF shown = NoLog THEN disp_log ELSE shown
  /\ UNCHANGED <<ctlVars, ctl, cur, queue, client, disp, linked, told,
                 crashes, displays>>

PrintLog ==
  /\ disp = "up" /\ pulses > 0
  /\ pulses' = pulses - 1 /\ shown' = disp_log
  /\ UNCHANGED <<ctlVars, ctl, cur, queue, client, disp, linked, told,
                 crashes, displays>>

DisplayDies ==
  /\ disp = "up" /\ displays < MaxDisplays /\ displays' = displays + 1
  /\ disp' = "down" /\ linked' = FALSE /\ told' = FALSE
  /\ pulses' = 0 /\ shown' = NoLog
  /\ UNCHANGED <<ctlVars, ctl, cur, queue, client, crashes>>

DisplayStarts ==
  /\ disp = "down" /\ disp' = "up"
  /\ UNCHANGED <<ctlVars, ctl, cur, queue, client, linked, pulses, shown, told,
                 crashes, displays>>

-----------------------------------------------------------------------------
(* The display runs first, then the controller, then the clients.           *)
Init ==
  /\ Ctl!Init
  /\ ctl = "receive" /\ cur = NoClient /\ queue = <<>>
  /\ client = [c \in Clients |-> Off]
  /\ disp = "up" /\ linked = TRUE /\ pulses = 0 /\ shown = NoLog
  /\ told = FALSE /\ crashes = 0 /\ displays = 0

Controller == Receive \/ ReceivePulse \/ SendPulse \/ Reply

Next ==
  \/ Controller \/ StrayPulse \/ Crash \/ Restart
  \/ PrintLog \/ DisplayDies \/ DisplayStarts
  \/ \E c \in Clients : \/ Launch(c) \/ TypeCommand(c) \/ TypeNumber(c)
                        \/ SwitchOnCode(c) \/ ClientDies(c)

Spec == Init /\ [][Next]_vars

(* The processes that run are scheduled; users owe nothing, and nothing has *)
(* to die or to be started again.                                           *)
Fairness ==
  /\ WF_vars(Controller) /\ WF_vars(PrintLog)
  /\ \A c \in Clients : WF_vars(SwitchOnCode(c))

FairSpec == Spec /\ Fairness

-----------------------------------------------------------------------------
ClientT ==
  [pc : {"off", "prompt", "send", "switch", "ask", "send_number"}, msg : Ctl!Msgs,
   rsp : RspCodes, status : {"ok", "failed"}, connected : BOOLEAN]

TypeOK ==
  /\ next_state \in Ctl!States /\ context \in Ctl!Contexts
  /\ code \in RspCodes /\ disp_log \in Ctl!Contexts \cup {NoLog}
  /\ notify \in BOOLEAN
  /\ ctl \in {"receive", "pulse", "reply", "dead"}
  /\ cur \in Clients \cup {NoClient}
  /\ queue \in Seq(Clients \cup {Pulse})
  /\ client \in [Clients -> ClientT]
  /\ disp \in {"up", "down"} /\ linked \in BOOLEAN /\ told \in BOOLEAN
  /\ pulses \in 0..MaxPulses /\ shown \in Ctl!Contexts \cup {NoLog}
  /\ crashes \in 0..MaxCrashes /\ displays \in 0..MaxDisplays

(* Every client that is blocked in MsgSend is in the controller's queue or  *)
(* is being served, once, and nobody else is: none is forgotten by a crash, *)
(* a death or the reply, and none is served twice.                          *)
BlockedAccountedFor ==
  \A c \in Clients :
    /\ (In(queue, c) \/ cur = c) = Blocked(c)
    /\ ~(In(queue, c) /\ cur = c)
    /\ Once(queue, c)

(* Once this controller has pulsed this display, and no update or pulse is   *)
(* under way, the screen shows the doors and guards as the controller has   *)
(* them and the log as it is, although the display reads it only later and  *)
(* may find a newer one than the pulse was for.                             *)
ScreenAgrees ==
  told /\ pulses = 0 /\ ctl \in {"receive", "reply"} =>
    /\ shown = disp_log /\ shown # NoLog
    /\ \A f \in Ctl!Actuators : shown[f] = context[f]

(* With one des_inputs running, a number other than zero given to an EXTRA  *)
(* prompt is accepted, so that it does no harm that the response is ignored;*)
(* this is so across deaths and restarts on either side.                    *)
NumberAccepted ==
  \A c \in Clients :
    Clients = {c} /\ cur = c /\ ctl = "reply" /\ client[c].pc = "send_number"
      /\ client[c].msg.extra # 0 => code = "OK"

(* While a controller lives, the doors and guards it commands are the        *)
(* chamber of Airlock, whoever sends commands, in whatever order they are   *)
(* queued and whichever clients die; a new controller starts with the       *)
(* chamber empty and shut.                                                  *)
AirlockBetweenDeaths ==
  /\ Ctl!A!Init
  /\ [][Ctl!A!Next \/ (ctl' = "dead" /\ Ctl!A!Init')]_(Ctl!A!avars)

(* A client blocked in MsgSend is released, by a reply or by the death of    *)
(* the controller.                                                          *)
ClientReleased == \A c \in Clients : Blocked(c) ~> ~Blocked(c)

(* How many steps of the controller, at most, until its reply to a blocked  *)
(* client: three for each before it in the queue and for itself, and what   *)
(* is left of the turn under way.                                           *)
Due == CASE ctl = "receive" -> 0 [] ctl = "reply" -> 1 [] OTHER -> 2

Left(c) == Due + (IF cur = c THEN 0 ELSE 3 * Place(queue, c))

(* The loop turns for every client: as long as one is blocked, whatever     *)
(* others send, however they die, whatever pulses come and whatever the     *)
(* handlers make of the events, no step moves it away from its reply and    *)
(* every step of the controller brings it nearer; none is received and then *)
(* left without a reply.                                                    *)
BlockedMovesUp ==
  [][\A c \in Clients : Blocked(c) /\ Blocked(c)' =>
       Left(c)' <= Left(c) /\ (Controller => Left(c)' < Left(c))]_vars

(* When events stop coming, the screen settles on the last log.             *)
ScreenSettles ==
  <>[](told /\ ctl = "receive" /\ queue = <<>>) => <>[](shown = disp_log)

(* After a MsgSend that failed, the switch sees -1, "Error in MsgSend()",    *)
(* as the first case of des_inputs says.  The code does not do this.        *)
FailedSendNoticed ==
  \A c \in Clients :
    client[c].pc = "switch" /\ client[c].status = "failed" => client[c].rsp = "-1"
=============================================================================
