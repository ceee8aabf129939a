---------------------------- MODULE MyDeviceProofs ----------------------------
(***************************************************************************)
(* my_device for any words, any writers, any size of the reader's buffer    *)
(* and any number of controllers: server_coid leads to the controller that  *)
(* runs, who reads with a buffer for all of the text gets it once, and the  *)
(* controller's pulses are neither lost nor overtaken.                      *)
(***************************************************************************)
EXTENDS MyDevice, TLAPS, SequenceTheorems

(* What is known of a reader before the end: it has read all of the text    *)
(* and is at its end, or nothing and is at its start.                       *)
ReadOnce ==
  ~rd.rewritten /\ rd.size >= data.len =>
    \/ rd.got = <<>> /\ rd.offset = 0
    \/ /\ data # Empty /\ rd.offset = data.len
       /\ Len(rd.got) = 1 /\ rd.got[1].text = data /\ rd.got[1].n = data.len
       /\ rd.got[1].from = rd.got[1].at

(* Only at the end has it been told so.                                     *)
ToldAtEnd == rd.pc = "eof" /\ ~rd.rewritten => rd.offset = data.len

(* The pulse of the alert that due stands for waits at the controller, and  *)
(* no other pulse is marked.                                                *)
DueWaits ==
  /\ due => CtlUp /\ \E i \in DOMAIN alerts : alerts[i].due
  /\ \A i, j \in DOMAIN alerts : alerts[i].due /\ alerts[j].due => i = j
  /\ \A i \in DOMAIN alerts : alerts[i].due => due

(* A controller that was told still has to read that, or has the pulse that *)
(* makes it read, or the one of the device's end.                           *)
ToldWaits ==
  told => /\ CtlUp /\ data.word = Closed /\ server_coid = ctl.id
          /\ alerts # <<>> \/ ctl.pc \in {"open", "read"} \/ gone

(* Whoever had the device open when it ended is sent a pulse.               *)
EndIsKnown == dev = "down" /\ Looping => gone

(* The inductive invariant.                                                 *)
IInv ==
  /\ TypeOK /\ CoidIsController /\ ReadOnce /\ ToldAtEnd
  /\ DueWaits /\ ToldWaits /\ EndIsKnown

LEMMA InitIInv == Init => IInv
<1> SUFFICES ASSUME Init PROVE IInv OBVIOUS
<1>1. TypeOK
  <2>1. Len(alerts) = 0 /\ alerts \in Seq([value : 1..99, due : BOOLEAN])
    BY EmptySeq DEF Init
  <2>2. rd.got \in Seq([text : Texts, at : Nat, from : Nat, n : Nat])
    BY EmptySeq DEF Init
  <2>3. rd \in [pc : {"closed", "open", "eof"}, size : Nat, offset : Nat, rewritten : BOOLEAN,
               got : Seq([text : Texts, at : Nat, from : Nat, n : Nat])]
    BY <2>2 DEF Init
  <2>4. 0 \in None..MaxControllers /\ 0 <= MaxAlerts
    BY MyDeviceAssumption DEF None
  <2>5. ctl \in [pc : {"off", "start", "open", "read", "wait"}, id : None..MaxControllers]
    BY <2>4 DEF Init, None
  <2> QED BY <2>1, <2>3, <2>4, <2>5 DEF Init, TypeOK, Texts, None
<1>2. CoidIsController /\ ReadOnce /\ ToldAtEnd
  BY DEF Init, CoidIsController, Looping, ReadOnce, ToldAtEnd
<1>3. DueWaits /\ ToldWaits /\ EndIsKnown
  BY DEF Init, DueWaits, ToldWaits, EndIsKnown
<1> QED BY <1>1, <1>2, <1>3 DEF IInv

-----------------------------------------------------------------------------
(* The type of the whole state: a write of the alert may add one pulse,     *)
(* a read one piece, and everything else only chooses among fixed values.   *)
LEMMA AlertTypeOK ==
  ASSUME TypeOK, NEW w \in Writers, NEW n \in Numbers, io_write_alert(w, n)
  PROVE  TypeOK'
<1>1. UNCHANGED <<dev, data, server_coid, ctl, gone, wr, rd>>
  BY DEF io_write_alert
<1>2. /\ alerts' \in Seq([value : 1..99, due : BOOLEAN]) /\ Len(alerts') <= MaxAlerts
      /\ due' \in BOOLEAN /\ told' \in BOOLEAN
  <2>1. CASE ~InRange(n)
    BY <2>1 DEF io_write_alert, TypeOK
  <2>2. CASE InRange(n)
    <3>1. n \in 1..99
      BY <2>2, MyDeviceAssumption DEF InRange
    <3>2. PICK watched \in {FALSE, Looping /\ ~due} :
            /\ alerts' = IF CtlUp /\ server_coid = ctl.id
                         THEN Append(alerts, [value |-> n, due |-> watched]) ELSE alerts
            /\ due' = (due \/ watched)
      BY <2>2 DEF io_write_alert, SendPulse
    <3>3. told' \in BOOLEAN
      BY <2>2 DEF io_write_alert, SendPulse
    <3>4. due' \in BOOLEAN /\ watched \in BOOLEAN
      BY <3>2
    <3>5. /\ Append(alerts, [value |-> n, due |-> watched]) \in Seq([value : 1..99, due : BOOLEAN])
          /\ Len(Append(alerts, [value |-> n, due |-> watched])) = Len(alerts) + 1
      BY <3>1, <3>4, AppendProperties DEF TypeOK
    <3>6. Len(alerts) < MaxAlerts /\ Len(alerts) \in Nat
      BY LenProperties DEF io_write_alert, TypeOK
    <3>7. alerts' \in Seq([value : 1..99, due : BOOLEAN])
      BY <3>2, <3>5 DEF TypeOK
    <3>8. Len(alerts') <= MaxAlerts
      BY <3>2, <3>5, <3>6, MyDeviceAssumption
    <3> QED BY <3>3, <3>4, <3>7, <3>8
  <2> QED BY <2>1, <2>2
<1> QED BY <1>1, <1>2 DEF TypeOK

LEMMA StatusTypeOK ==
  ASSUME TypeOK, NEW w \in Writers, NEW t \in Words, io_write_status(w, t)
  PROVE  TypeOK'
  BY DEF io_write_status, TypeOK, Texts

(* A read's length and place stay numbers.                                  *)
LEMMA TextLen == ASSUME NEW t \in Texts PROVE t.len \in Nat /\ (t = Empty <=> t.len = 0)
<1>1. Empty.len = 0
  BY DEF Empty
<1>2. CASE t \in Words
  BY <1>1, <1>2, MyDeviceAssumption
<1>3. CASE t = Empty
  BY <1>1, <1>3
<1> QED BY <1>2, <1>3 DEF Texts

(* What a read makes of the reader.                                         *)
LEMMA ReadMakes ==
  ASSUME TypeOK, ReaderReads, ~AtEOF(rd)
  PROVE  /\ rd.pc = "open" /\ nbytes(rd.size) \in Nat
         /\ rd'.pc = rd.pc /\ rd'.size = rd.size /\ rd'.rewritten = rd.rewritten
         /\ rd'.offset = rd.offset + nbytes(rd.size)
         /\ rd'.got = Append(rd.got, [text |-> data, at |-> rd.offset, from |-> 0,
                                      n |-> nbytes(rd.size)])
         /\ rd' \in [pc : {"closed", "open", "eof"}, size : Nat, offset : Nat, rewritten : BOOLEAN,
                     got : Seq([text : Texts, at : Nat, from : Nat, n : Nat])]
<1>1. nbytes(rd.size) \in Nat
  BY TextLen DEF TypeOK, nbytes
<1>2. rd' = io_read(rd) /\ rd.pc = "open"
  BY DEF ReaderReads
<1>3. Append(rd.got, [text |-> data, at |-> rd.offset, from |-> 0, n |-> nbytes(rd.size)])
        \in Seq([text : Texts, at : Nat, from : Nat, n : Nat])
  BY <1>1, AppendProperties DEF TypeOK
<1>4. rd.offset + nbytes(rd.size) \in Nat
  BY <1>1 DEF TypeOK
<1> QED BY <1>1, <1>2, <1>3, <1>4 DEF TypeOK, io_read

LEMMA ReaderTypeOK == ASSUME TypeOK, ReaderOpens \/ ReaderReads PROVE TypeOK'
<1>1. CASE ReaderOpens
  <2>1. /\ UNCHANGED <<dev, data, wr, ctlVars>> /\ server_coid' = ctl.id
        /\ \E size \in Sizes : rd' = [pc |-> "open", size |-> size, offset |-> 0,
                                      got |-> <<>>, rewritten |-> FALSE]
    BY <1>1 DEF ReaderOpens, io_open
  <2>2. rd' \in [pc : {"closed", "open", "eof"}, size : Nat, offset : Nat, rewritten : BOOLEAN,
                 got : Seq([text : Texts, at : Nat, from : Nat, n : Nat])]
    BY <2>1, EmptySeq, MyDeviceAssumption
  <2> QED BY <2>1, <2>2 DEF TypeOK, ctlVars
<1>2. CASE ReaderReads
  <2>1. UNCHANGED <<dev, data, server_coid, wr, ctlVars>>
    BY <1>2 DEF ReaderReads
  <2>2. rd' \in [pc : {"closed", "open", "eof"}, size : Nat, offset : Nat, rewritten : BOOLEAN,
                 got : Seq([text : Texts, at : Nat, from : Nat, n : Nat])]
    <3>1. CASE AtEOF(rd)
      BY <1>2, <3>1 DEF ReaderReads, TypeOK
    <3>2. CASE ~AtEOF(rd)
      BY <1>2, <3>2, ReadMakes
    <3> QED BY <3>1, <3>2
  <2> QED BY <2>1, <2>2 DEF TypeOK, ctlVars
<1> QED BY <1>1, <1>2

(* The controller's and the other steps leave the reader alone.             *)
Others ==
  \/ ControllerStep \/ NameAttach \/ ControllerKilled \/ DeviceEnds
  \/ \E w \in Writers : WriterOpens(w) \/ WriterCloses(w)

LEMMA OthersTypeOK == ASSUME TypeOK, Others PROVE TypeOK' /\ UNCHANGED <<data, rd>>
<1> USE DEF TypeOK, Others, ControllerStep
<1>1. ASSUME CtlGoes PROVE /\ ctl' \in [pc : {"off", "start", "open", "read", "wait"}, id : None..MaxControllers]
                           /\ alerts' \in Seq([value : 1..99, due : BOOLEAN]) /\ Len(alerts') <= MaxAlerts
                           /\ gone' \in BOOLEAN /\ due' \in BOOLEAN /\ told' \in BOOLEAN
  <2>1. 0 <= MaxAlerts
    BY MyDeviceAssumption
  <2> QED BY <1>1, <2>1, EmptySeq DEF CtlGoes
<1>2. CASE Fopen  BY <1>2 DEF Fopen, io_open
<1>3. CASE FopenFails  BY <1>3, <1>1 DEF FopenFails
<1>4. CASE Fscanf
  <2>1. UNCHANGED <<dev, data, server_coid, wr, rd>>
    BY <1>4 DEF Fscanf
  <2>2. CASE CtlGoes  BY <2>1, <2>2, <1>1
  <2>3. CASE ~CtlGoes
    <3>1. ctl' = [ctl EXCEPT !.pc = "wait"] /\ UNCHANGED <<alerts, gone, due, told>>
      BY <1>4, <2>3 DEF Fscanf
    <3> QED BY <2>1, <3>1
  <2> QED BY <2>2, <2>3
<1>5. CASE ReceiveAlert
  <2>1. Tail(alerts) \in Seq([value : 1..99, due : BOOLEAN]) /\ Len(Tail(alerts)) <= MaxAlerts
    <3>1. /\ Tail(alerts) \in Seq([value : 1..99, due : BOOLEAN])
          /\ Len(Tail(alerts)) = Len(alerts) - 1
      BY <1>5, HeadTailProperties DEF ReceiveAlert
    <3> QED BY <3>1, LenProperties, MyDeviceAssumption
  <2>2. (due /\ ~Head(alerts).due) \in BOOLEAN
    OBVIOUS
  <2> QED BY <1>5, <2>1, <2>2 DEF ReceiveAlert
<1>6. CASE UnexpectedPulse  BY <1>6, <1>1 DEF UnexpectedPulse
<1>7. CASE NameAttach
  BY <1>7, MyDeviceAssumption DEF NameAttach, None
<1>8. CASE ControllerKilled  BY <1>8, <1>1 DEF ControllerKilled
<1>9. CASE DeviceEnds  BY <1>9 DEF DeviceEnds
<1>10. CASE \E w \in Writers : WriterOpens(w) \/ WriterCloses(w)
  <2>1. None \in None..MaxControllers
    BY MyDeviceAssumption DEF None
  <2>2. server_coid' \in None..MaxControllers
    BY <1>10, <2>1 DEF WriterOpens, WriterCloses, io_open, io_open_fails
  <2>3. wr' \in [Writers -> {"closed", "open"}] /\ UNCHANGED <<dev, data, rd, ctlVars>>
    BY <1>10 DEF WriterOpens, WriterCloses, io_open, io_open_fails
  <2> QED BY <2>2, <2>3 DEF ctlVars
<1> QED BY <1>2, <1>3, <1>4, <1>5, <1>6, <1>7, <1>8, <1>9, <1>10

-----------------------------------------------------------------------------
(* Whoever opens the device sets server_coid to the controller there is,    *)
(* and the controller itself opens it before it waits.                      *)
LEMMA CoidStep == ASSUME IInv, Next PROVE CoidIsController'
<1> USE DEF IInv, CoidIsController, Looping
<1>1. CASE ControllerStep \/ NameAttach \/ ControllerKilled \/ DeviceEnds
  BY <1>1 DEF TypeOK, ControllerStep, Fopen, io_open, FopenFails, Fscanf, ReceiveAlert,
     UnexpectedPulse, NameAttach, ControllerKilled, DeviceEnds, CtlGoes
<1>2. CASE \E w \in Writers : WriterOpens(w) \/ WriterCloses(w)
  BY <1>2 DEF WriterOpens, WriterCloses, io_open, io_open_fails, Attached, CtlUp, ctlVars
<1>3. CASE \E w \in Writers : \/ \E n \in Numbers : io_write_alert(w, n)
                              \/ \E t \in Words : io_write_status(w, t)
  BY <1>3 DEF io_write_alert, io_write_status
<1>4. CASE ReaderOpens \/ ReaderReads
  BY <1>4 DEF ReaderOpens, ReaderReads, io_open, ctlVars
<1> QED BY <1>1, <1>2, <1>3, <1>4 DEF Next

(* The reader's own steps; what others do to the text is remembered.        *)
LEMMA ReadStep == ASSUME IInv, Next PROVE ReadOnce' /\ ToldAtEnd'
<1> USE DEF IInv
<1>1. CASE UNCHANGED <<data, rd>>
  BY <1>1 DEF ReadOnce, ToldAtEnd
<1>2. CASE \E w \in Writers : \E t \in Words : io_write_status(w, t)
  BY <1>2 DEF TypeOK, io_write_status, ReadOnce, ToldAtEnd
<1>3. CASE ReaderOpens
  BY <1>3 DEF ReaderOpens, ReadOnce, ToldAtEnd
<1>4. CASE ReaderReads
  <2>1. data' = data /\ rd.pc = "open"
    BY <1>4 DEF ReaderReads
  <2>2. CASE AtEOF(rd)
    BY <1>4, <2>1, <2>2 DEF ReaderReads, AtEOF, TypeOK, ReadOnce, ToldAtEnd
  <2>3. CASE ~AtEOF(rd)
    <3>1. /\ rd'.pc = "open" /\ rd'.size = rd.size /\ rd'.rewritten = rd.rewritten
          /\ rd'.offset = rd.offset + nbytes(rd.size)
          /\ rd'.got = Append(rd.got, [text |-> data, at |-> rd.offset, from |-> 0,
                                       n |-> nbytes(rd.size)])
      BY <1>4, <2>3, ReadMakes
    <3>2. ToldAtEnd'
      BY <3>1 DEF ToldAtEnd
    <3>3. ASSUME ~rd.rewritten, rd.size >= data.len
          PROVE  /\ data # Empty /\ rd'.offset = data.len
                 /\ Len(rd'.got) = 1 /\ rd'.got[1].text = data /\ rd'.got[1].n = data.len
                 /\ rd'.got[1].from = rd'.got[1].at
      <4>1. rd.got = <<>> /\ rd.offset = 0
        BY <2>1, <2>3, <3>3 DEF ReadOnce, AtEOF
      <4>2. data.len \in Nat /\ data # Empty /\ rd.size \in Nat
        BY <2>3, <4>1, TextLen DEF AtEOF, TypeOK
      <4>3. nbytes(rd.size) = data.len
        BY <3>3, <4>2 DEF nbytes
      <4> QED BY <3>1, <4>1, <4>2, <4>3
    <3> QED BY <2>1, <3>1, <3>2, <3>3 DEF ReadOnce
  <2> QED BY <2>2, <2>3
<1>5. CASE Others
  BY <1>5, <1>1, OthersTypeOK
<1>6. CASE \E w \in Writers : \E n \in Numbers : io_write_alert(w, n)
  BY <1>6, <1>1 DEF io_write_alert
<1> QED BY <1>2, <1>3, <1>4, <1>5, <1>6 DEF Next, Others

-----------------------------------------------------------------------------
(* What an alert in range adds for a controller that has the device open is *)
(* one pulse at the end, marked only where none was.                        *)
LEMMA DuePulse ==
  ASSUME IInv, NEW w \in Writers, NEW n \in Numbers, io_write_alert(w, n)
  PROVE  DueWaits' /\ ToldWaits'
<1>1. UNCHANGED <<dev, data, server_coid, ctl, gone, wr, rd>>
  BY DEF io_write_alert
<1>2. CASE ~InRange(n)
  BY <1>1, <1>2 DEF IInv, io_write_alert, DueWaits, ToldWaits, CtlUp
<1>3. CASE InRange(n)
  <2>1. PICK watched \in {FALSE, Looping /\ ~due} :
          /\ alerts' = IF CtlUp /\ server_coid = ctl.id
                       THEN Append(alerts, [value |-> n, due |-> watched]) ELSE alerts
          /\ due' = (due \/ watched)
    BY <1>3 DEF io_write_alert, SendPulse
  <2>2. told' = (told \/ (Looping /\ data.word = Closed))
    BY <1>3 DEF io_write_alert, SendPulse
  <2>3. CtlUp' = CtlUp /\ Looping' = Looping
    BY <1>1 DEF CtlUp, Looping
  <2>4. CASE ~(CtlUp /\ server_coid = ctl.id)
    <3>1. ~Looping
      BY <2>4 DEF IInv, CoidIsController, Looping, CtlUp
    <3>2. alerts' = alerts /\ (due' <=> due) /\ (told' <=> told)
      BY <2>1, <2>2, <2>4, <3>1
    <3> QED BY <1>1, <2>3, <3>2 DEF IInv, DueWaits, ToldWaits
  <2>5. CASE CtlUp /\ server_coid = ctl.id
    <3> DEFINE p == [value |-> n, due |-> watched]
    <3>1. p.due = watched
      OBVIOUS
    <3> HIDE DEF p
    <3>2. alerts' = Append(alerts, p)
      BY <2>1, <2>5 DEF p
    <3>3. /\ Len(alerts) \in Nat /\ DOMAIN alerts = 1..Len(alerts)
          /\ DOMAIN alerts' = 1..(Len(alerts) + 1) /\ alerts' # <<>>
          /\ \A i \in 1..Len(alerts) : alerts'[i] = alerts[i]
          /\ alerts'[Len(alerts) + 1] = p
      BY <3>2, LenProperties DEF IInv, TypeOK
    <3>4. watched => ~due
      BY <2>1
    <3>5. DueWaits'
      <4>1. due' => CtlUp' /\ \E i \in DOMAIN alerts' : alerts'[i].due
        <5>1. CASE due
          <6>1. PICK i \in DOMAIN alerts : alerts[i].due
            BY <5>1 DEF IInv, DueWaits
          <6>2. i \in DOMAIN alerts' /\ alerts'[i].due
            BY <3>3, <6>1
          <6> QED BY <2>3, <2>5, <6>2
        <5>2. CASE ~due
          <6>1. ASSUME due' PROVE Len(alerts) + 1 \in DOMAIN alerts' /\ alerts'[Len(alerts) + 1].due
            <7>1. watched
              BY <2>1, <5>2, <6>1
            <7>2. p.due
              BY <3>1, <7>1
            <7>3. Len(alerts) + 1 \in DOMAIN alerts'
              BY <3>3
            <7> QED BY <3>3, <7>2, <7>3
          <6> QED BY <2>3, <2>5, <6>1
        <5> QED BY <5>1, <5>2
      <4>2. ASSUME NEW i \in DOMAIN alerts', alerts'[i].due
            PROVE  (i \in DOMAIN alerts /\ alerts[i].due /\ due) \/ (i = Len(alerts) + 1 /\ watched)
        <5>1. CASE i \in 1..Len(alerts)
          <6>1. i \in DOMAIN alerts /\ alerts[i].due
            BY <3>3, <4>2, <5>1
          <6> QED BY <6>1 DEF IInv, DueWaits
        <5>2. CASE i = Len(alerts) + 1
          BY <3>1, <3>3, <4>2, <5>2
        <5> QED BY <3>3, <5>1, <5>2
      <4>3. \A i, j \in DOMAIN alerts' : alerts'[i].due /\ alerts'[j].due => i = j
        BY <3>4, <4>2 DEF IInv, DueWaits
      <4>4. \A i \in DOMAIN alerts' : alerts'[i].due => due'
        BY <2>1, <4>2
      <4> QED BY <4>1, <4>3, <4>4 DEF DueWaits
    <3>6. ToldWaits'
      BY <1>1, <2>2, <2>3, <2>5, <3>3 DEF IInv, ToldWaits
    <3> QED BY <3>5, <3>6
  <2> QED BY <2>4, <2>5
<1> QED BY <1>2, <1>3

(* A received pulse leaves the queue at its front.                          *)
LEMMA Received ==
  ASSUME TypeOK, ReceiveAlert
  PROVE  /\ Len(alerts) \in Nat /\ DOMAIN alerts = 1..Len(alerts) /\ Len(alerts) >= 1
         /\ DOMAIN alerts' = 1..(Len(alerts) - 1) /\ Head(alerts) = alerts[1]
         /\ \A i \in 1..(Len(alerts) - 1) : alerts'[i] = alerts[i + 1]
<1>1. alerts # <<>> /\ alerts' = Tail(alerts)
  BY DEF ReceiveAlert
<1>2. alerts \in Seq([value : 1..99, due : BOOLEAN])
  BY DEF TypeOK
<1> HIDE DEF TypeOK
<1>3. Len(alerts) \in Nat /\ DOMAIN alerts = 1..Len(alerts) /\ Len(alerts) >= 1
  BY <1>1, <1>2, LenProperties, EmptySeq
<1> QED BY <1>1, <1>2, <1>3, HeadTailProperties

(* Of the pulses that wait, it is the one in front that is displayed.       *)
LEMMA DueReceived == ASSUME IInv, ReceiveAlert PROVE DueWaits' /\ ToldWaits'
<1>1. /\ Len(alerts) \in Nat /\ DOMAIN alerts = 1..Len(alerts) /\ Len(alerts) >= 1
      /\ DOMAIN alerts' = 1..(Len(alerts) - 1) /\ Head(alerts) = alerts[1]
      /\ \A i \in 1..(Len(alerts) - 1) : alerts'[i] = alerts[i + 1]
  BY Received DEF IInv
<1>2. /\ ctl' = [ctl EXCEPT !.pc = "open"] /\ (due' <=> due /\ ~alerts[1].due)
      /\ UNCHANGED <<dev, data, server_coid, wr, rd, gone, told>>
  BY <1>1 DEF ReceiveAlert
<1>3. ctl'.pc = "open" /\ ctl'.id = ctl.id /\ CtlUp'
  BY <1>2 DEF IInv, TypeOK, CtlUp
<1>4. due' => \E i \in DOMAIN alerts' : alerts'[i].due
  <2> SUFFICES ASSUME due' PROVE \E i \in DOMAIN alerts' : alerts'[i].due
    OBVIOUS
  <2>1. PICK i \in DOMAIN alerts : alerts[i].due
    BY <1>2 DEF IInv, DueWaits
  <2>2. i # 1
    BY <1>2, <2>1
  <2>3. i - 1 \in DOMAIN alerts' /\ (i - 1) + 1 = i
    BY <1>1, <2>1, <2>2
  <2>4. alerts'[i - 1].due
    BY <1>1, <2>1, <2>3
  <2> QED BY <2>3, <2>4
<1>5. ASSUME NEW i \in DOMAIN alerts', alerts'[i].due
      PROVE  i \in Int /\ i + 1 \in DOMAIN alerts /\ alerts[i + 1].due /\ due'
  <2>1. i \in Int /\ i + 1 \in DOMAIN alerts /\ alerts[i + 1].due /\ i + 1 # 1 /\ 1 \in DOMAIN alerts
    BY <1>1, <1>5
  <2> DEFINE k == i + 1
  <2>2. k \in DOMAIN alerts /\ alerts[k].due /\ k # 1 /\ 1 \in DOMAIN alerts
    BY <2>1
  <2> HIDE DEF k
  <2>3. due /\ ~alerts[1].due
    BY <2>2 DEF IInv, DueWaits
  <2> QED BY <1>2, <2>1, <2>3
<1>6. \A i, j \in DOMAIN alerts' : alerts'[i].due /\ alerts'[j].due => i = j
  <2> SUFFICES ASSUME NEW i \in DOMAIN alerts', NEW j \in DOMAIN alerts', alerts'[i].due, alerts'[j].due
               PROVE  i = j
    OBVIOUS
  <2>1. i \in Int /\ j \in Int /\ i + 1 = j + 1
    BY <1>5 DEF IInv, DueWaits
  <2> QED BY <2>1
<1>7. DueWaits'
  BY <1>3, <1>4, <1>5, <1>6 DEF DueWaits
<1>8. ToldWaits'
  BY <1>2, <1>3 DEF IInv, ToldWaits
<1> QED BY <1>7, <1>8

(* The controller that goes takes with it what it owed.                     *)
LEMMA NothingOwed == ASSUME CtlGoes, TypeOK PROVE DueWaits' /\ ToldWaits' /\ EndIsKnown'
<1>1. alerts' = <<>> /\ ~due' /\ ~told' /\ ctl'.pc = "off"
  BY DEF CtlGoes, TypeOK
<1> QED BY <1>1 DEF DueWaits, ToldWaits, EndIsKnown, Looping

LEMMA OwedStep == ASSUME IInv, Next PROVE DueWaits' /\ ToldWaits' /\ EndIsKnown'
<1> USE DEF IInv
<1>1. CASE Fopen
  BY <1>1 DEF TypeOK, Fopen, io_open, DueWaits, ToldWaits, EndIsKnown, CtlUp
<1>2. CASE FopenFails \/ UnexpectedPulse \/ ControllerKilled
  BY <1>2, NothingOwed DEF FopenFails, UnexpectedPulse, ControllerKilled
<1>3. CASE Fscanf
  <2>1. CASE CtlGoes
    BY <2>1, NothingOwed
  <2>2. CASE ~CtlGoes
    <3>1. /\ ctl.pc = "read" /\ ctl' = [ctl EXCEPT !.pc = "wait"] /\ ~(dev = "up" /\ data.word = Closed)
          /\ UNCHANGED <<dev, data, server_coid, wr, rd, alerts, gone, due, told>>
      BY <1>3, <2>2 DEF Fscanf
    <3>2. told => gone
      BY <3>1 DEF ToldWaits, EndIsKnown, Looping, TypeOK
    <3> QED BY <3>1, <3>2 DEF TypeOK, DueWaits, ToldWaits, EndIsKnown, Looping, CtlUp
  <2> QED BY <2>1, <2>2
<1>4. CASE ReceiveAlert
  <2>1. Looping /\ UNCHANGED <<dev, gone>>
    BY <1>4 DEF ReceiveAlert, Looping
  <2> QED BY <1>4, <2>1, DueReceived DEF EndIsKnown
<1>5. CASE NameAttach
  BY <1>5 DEF TypeOK, NameAttach, DueWaits, ToldWaits, EndIsKnown, Looping, CtlUp
<1>6. CASE DeviceEnds
  BY <1>6 DEF DeviceEnds, DueWaits, ToldWaits, EndIsKnown, Looping, CtlUp
<1>7. CASE \E w \in Writers : WriterOpens(w) \/ WriterCloses(w)
  <2>1. /\ UNCHANGED <<dev, data, ctl, alerts, gone, due, told>>
        /\ server_coid' = server_coid \/ server_coid' = ctl.id \/ ~CtlUp
    BY <1>7 DEF WriterOpens, WriterCloses, io_open, io_open_fails, ctlVars, Attached
  <2> QED BY <2>1 DEF DueWaits, ToldWaits, EndIsKnown, Looping, CtlUp
<1>8. CASE \E w \in Writers : \E n \in Numbers : io_write_alert(w, n)
  <2>1. PICK w \in Writers, n \in Numbers : io_write_alert(w, n)
    BY <1>8
  <2>2. UNCHANGED <<dev, ctl, gone>>
    BY <2>1 DEF io_write_alert
  <2> QED BY <2>1, <2>2, DuePulse DEF EndIsKnown, Looping
<1>9. CASE \E w \in Writers : \E t \in Words : io_write_status(w, t)
  BY <1>9 DEF io_write_status, DueWaits, ToldWaits, EndIsKnown, Looping, CtlUp
<1>10. CASE ReaderOpens \/ ReaderReads
  <2>1. /\ UNCHANGED <<dev, data, ctl, alerts, gone, due, told>>
        /\ server_coid' = server_coid \/ server_coid' = ctl.id
    BY <1>10 DEF ReaderOpens, ReaderReads, io_open, ctlVars
  <2> QED BY <2>1 DEF DueWaits, ToldWaits, EndIsKnown, Looping, CtlUp
<1> QED BY <1>1, <1>2, <1>3, <1>4, <1>5, <1>6, <1>7, <1>8, <1>9, <1>10 DEF Next, ControllerStep

LEMMA Invariance == Spec => []IInv
<1>1. IInv /\ Next => TypeOK'
  BY AlertTypeOK, StatusTypeOK, ReaderTypeOK, OthersTypeOK DEF IInv, Next, Others
<1>2. IInv /\ UNCHANGED vars => IInv'
  BY DEF vars, ctlVars, IInv, TypeOK, CoidIsController, Looping, ReadOnce, ToldAtEnd,
     DueWaits, ToldWaits, EndIsKnown, CtlUp
<1>3. IInv /\ [Next]_vars => IInv'
  BY <1>1, <1>2, CoidStep, ReadStep, OwedStep DEF IInv
<1> QED BY InitIInv, <1>3, PTL DEF Spec

-----------------------------------------------------------------------------
THEOREM TypeCorrect == Spec => []TypeOK
<1>1. IInv => TypeOK  BY DEF IInv
<1> QED BY Invariance, <1>1, PTL

(* Alerts go to the controller that runs, whoever opened and wrote.         *)
THEOREM AlertsGoToTheController == Spec => []CoidIsController
<1>1. IInv => CoidIsController  BY DEF IInv
<1> QED BY Invariance, <1>1, PTL

(* The whole text once, by ReadOnce at its end.                             *)
THEOREM TextReadOnce == Spec => []WholeTextOnce
<1>1. IInv => WholeTextOnce
  <2> SUFFICES ASSUME IInv, rd.pc = "eof", ~rd.rewritten, rd.size >= data.len
               PROVE  IF data = Empty THEN rd.got = <<>>
                      ELSE Len(rd.got) = 1 /\ rd.got[1].text = data /\ rd.got[1].n = data.len
    BY DEF WholeTextOnce
  <2>1. rd.offset = data.len /\ (data = Empty <=> data.len = 0)
    BY TextLen DEF IInv, ToldAtEnd, TypeOK
  <2> QED BY <2>1 DEF IInv, ReadOnce
<1> QED BY Invariance, <1>1, PTL

-----------------------------------------------------------------------------
(* What the controller owes keeps it going: when an alert is due, when it   *)
(* was told that the status is closed or when the device has ended, it      *)
(* never waits for a pulse with none under way.                             *)
WaitsForSomething ==
  ctl.pc = "wait" /\ (due \/ told \/ dev = "down") => alerts # <<>> \/ gone

(* The safety core of AlertsShown, EndsIfStaysClosed and EndsWithDevice.    *)
THEOREM NeverWaitsForNothing == Spec => []WaitsForSomething
<1>1. IInv => WaitsForSomething
  <2> SUFFICES ASSUME IInv, ctl.pc = "wait", due \/ told \/ dev = "down"
               PROVE  alerts # <<>> \/ gone
    BY DEF WaitsForSomething
  <2>1. CASE due
    BY <2>1 DEF IInv, DueWaits
  <2>2. CASE told
    BY <2>2 DEF IInv, ToldWaits
  <2>3. CASE dev = "down"
    BY <2>3 DEF IInv, EndIsKnown, Looping
  <2> QED BY <2>1, <2>2, <2>3
<1> QED BY Invariance, <1>1, PTL

(* The alert that is due keeps its place while others come in behind it,    *)
(* and each pulse that is received takes it one place up.                   *)
DuePlace(i) == i \in DOMAIN alerts /\ alerts[i].due
DueMovesUp ==
  [][\A i \in 1..MaxAlerts : DuePlace(i) /\ due' =>
       IF ReceiveAlert THEN i > 1 /\ DuePlace(i - 1)' ELSE DuePlace(i)']_vars

(* So no alert is overtaken or dropped by a controller that lives: with the *)
(* scheduling of the controller, which makes it receive, this is AlertsShown.*)
THEOREM AlertNotOvertaken == Spec => DueMovesUp
<1>1. ASSUME IInv, Next, NEW i \in 1..MaxAlerts, DuePlace(i), due'
      PROVE  IF ReceiveAlert THEN i > 1 /\ DuePlace(i - 1)' ELSE DuePlace(i)'
  <2>1. i \in DOMAIN alerts /\ alerts[i].due /\ i \in Int
    BY <1>1 DEF DuePlace
  <2>2. CASE ReceiveAlert
    <3>1. /\ Len(alerts) \in Nat /\ DOMAIN alerts = 1..Len(alerts)
          /\ DOMAIN alerts' = 1..(Len(alerts) - 1) /\ Head(alerts) = alerts[1]
          /\ \A k \in 1..(Len(alerts) - 1) : alerts'[k] = alerts[k + 1]
      BY <2>2, <1>1, Received DEF IInv
    <3>2. i # 1
      BY <1>1, <2>1, <2>2, <3>1 DEF ReceiveAlert
    <3>3. i - 1 \in DOMAIN alerts' /\ (i - 1) + 1 = i /\ i > 1
      BY <2>1, <3>1, <3>2
    <3>4. alerts'[i - 1].due
      BY <2>1, <3>1, <3>3
    <3> QED BY <2>2, <3>3, <3>4 DEF DuePlace
  <2>3. CASE \E w \in Writers : \E n \in Numbers : io_write_alert(w, n)
    <3>1. PICK w \in Writers, n \in Numbers : io_write_alert(w, n)
      BY <2>3
    <3>2. \/ alerts' = alerts
          \/ \E watched \in {FALSE, Looping /\ ~due} : alerts' = Append(alerts, [value |-> n, due |-> watched])
      BY <3>1 DEF io_write_alert, SendPulse
    <3>3. i \in DOMAIN alerts' /\ alerts'[i] = alerts[i]
      <4>1. CASE alerts' = alerts
        BY <2>1, <4>1
      <4>2. ASSUME NEW p, alerts' = Append(alerts, p)
            PROVE  i \in DOMAIN alerts' /\ alerts'[i] = alerts[i]
        <5>1. /\ Len(alerts) \in Nat /\ DOMAIN alerts = 1..Len(alerts)
              /\ DOMAIN alerts' = 1..(Len(alerts) + 1)
              /\ \A k \in 1..Len(alerts) : alerts'[k] = alerts[k]
          BY <1>1, <4>2, LenProperties DEF IInv, TypeOK
        <5> QED BY <2>1, <5>1
      <4> QED BY <3>2, <4>1, <4>2
    <3>4. ~ReceiveAlert
      BY <3>1, <1>1 DEF io_write_alert, ReceiveAlert, IInv, TypeOK
    <3> QED BY <2>1, <3>3, <3>4 DEF DuePlace
  <2>4. CASE ~ReceiveAlert /\ ~(\E w \in Writers : \E n \in Numbers : io_write_alert(w, n))
    <3>1. ~CtlGoes
      BY <1>1 DEF CtlGoes
    <3>2. alerts' = alerts
      BY <1>1, <2>4, <3>1 DEF Next, ControllerStep, Fopen, FopenFails, Fscanf, UnexpectedPulse, NameAttach,
         ControllerKilled, DeviceEnds, WriterOpens, WriterCloses, io_write_status, ReaderOpens, ReaderReads, ctlVars
    <3> QED BY <2>1, <2>4, <3>2 DEF DuePlace
  <2> QED BY <2>2, <2>3, <2>4
<1>2. IInv /\ [Next]_vars =>
        [\A i \in 1..MaxAlerts : DuePlace(i) /\ due' =>
           IF ReceiveAlert THEN i > 1 /\ DuePlace(i - 1)' ELSE DuePlace(i)']_vars
  BY <1>1
<1> QED BY Invariance, <1>2, PTL DEF Spec, DueMovesUp

(* ReadContinues where it does hold: an undisturbed reader with a buffer    *)
(* for the whole text.  It fails without (MCMyDeviceSmallReads.cfg).            *)
UndisturbedReadContinues ==
  ~rd.rewritten /\ rd.size >= data.len => ReadContinues

THEOREM WholeReadContinues == Spec => []UndisturbedReadContinues
<1>1. IInv => UndisturbedReadContinues
  <2> SUFFICES ASSUME IInv, ~rd.rewritten, rd.size >= data.len, NEW i \in DOMAIN rd.got
               PROVE  rd.got[i].from = rd.got[i].at
    BY DEF UndisturbedReadContinues, ReadContinues
  <2>1. rd.got # <<>>
    OBVIOUS
  <2>2. Len(rd.got) = 1 /\ rd.got[1].from = rd.got[1].at
    BY <2>1 DEF IInv, ReadOnce
  <2>3. i = 1
    BY <2>2, LenProperties DEF IInv, TypeOK
  <2> QED BY <2>2, <2>3
<1> QED BY Invariance, <1>1, PTL
=============================================================================
