---------------------------- MODULE DesSystemProofs ----------------------------
(***************************************************************************)
(* The door entry system for any number of clients, deaths and pulses: its  *)
(* types, that every blocked client is accounted for, that the screen       *)
(* agrees with the controller, that one client's number is accepted, that   *)
(* the chamber keeps to the airlock, and that no blocked client is          *)
(* overtaken or left alone.                                                 *)
(***************************************************************************)
EXTENDS DesSystem, TLAPS, SequenceTheorems

-----------------------------------------------------------------------------
(* What one call of a handler does to the controller's state.               *)
Agree(log, ctx) == \A f \in Ctl!Actuators : log[f] = ctx[f]

(* The handlers that answer EXTRA, and to what.                             *)
Expects(s, d) == (s = "start" /\ d \in {"ls", "rs"}) \/ (s = "opened" /\ d = "ws")

ControllerT ==
  /\ next_state \in Ctl!States /\ context \in Ctl!Contexts
  /\ code \in RspCodes /\ disp_log \in Ctl!Contexts \cup {NoLog} /\ notify \in BOOLEAN

(* A call leaves the controller ready for the next one; it announces what   *)
(* it changed and nothing else; and an EXTRA is asked for what will do.     *)
Handled(m) ==
  /\ ControllerT' /\ Ctl!Chamber'
  /\ ~notify' => UNCHANGED <<next_state, context, disp_log>>
  /\ notify' => disp_log' \in Ctl!Contexts /\ Agree(disp_log', context')
  /\ code' = "EXTRA" => ~notify' /\ Expects(next_state, m.data)
  /\ Expects(next_state, m.data) /\ m.extra # 0 => code' = "OK"

LEMMA AnswerIs ==
  ASSUME ControllerT, Ctl!Chamber, NEW m, NEW c \in Ctl!Codes, Ctl!Answer(c),
         c = "EXTRA" => Expects(next_state, m.data),
         ~(Expects(next_state, m.data) /\ m.extra # 0)
  PROVE  Handled(m)
  BY DEF Handled, ControllerT, RspCodes, Ctl!Answer, Ctl!Chamber

LEMMA OtherwiseIs ==
  ASSUME ControllerT, Ctl!Chamber, NEW m, NEW expected, Ctl!Otherwise(m, expected),
         \A d : Expects(next_state, d) => d \in expected
  PROVE  Handled(m)
<1>1. "DISCONNECT" \in Ctl!Codes /\ "INVAL" \in Ctl!Codes /\ ~Expects(next_state, "exit")
  BY DEF Ctl!Codes, Expects
<1>2. ~Expects(next_state, m.data)
  BY <1>1 DEF Ctl!Otherwise
<1> QED BY <1>1, <1>2, AnswerIs DEF Ctl!Otherwise, Ctl!state_exit

LEMMA AcceptIs ==
  ASSUME NEW m, NEW ctx \in Ctl!Contexts, NEW to \in Ctl!States,
         Ctl!ChamberAt(to, ctx), Ctl!Accept(ctx, to)
  PROVE  Handled(m)
  BY DEF Handled, ControllerT, RspCodes, Ctl!Codes, Agree, Ctl!Accept, Ctl!update_display, Ctl!Chamber

LEMMA RestartIs ==
  ASSUME NEW m, NEW shown0 \in Ctl!Contexts, Ctl!get_first_state(shown0),
         Ctl!Position(shown0, FALSE, FALSE, TRUE, TRUE)
  PROVE  Handled(m)
<1>1. /\ disp_log' = shown0 /\ notify' = TRUE
      /\ context' = Ctl!FirstContext /\ next_state' = "start" /\ code' = "OK"
  BY DEF Ctl!get_first_state, Ctl!update_display
<1>2. Ctl!FirstContext \in Ctl!Contexts
  BY SystemAssumption DEF Ctl!FirstContext, Ctl!Contexts
<1>3. ControllerT'
  BY <1>1, <1>2 DEF ControllerT, RspCodes, Ctl!States, Ctl!Codes
<1>4. Ctl!Chamber'
  BY <1>1 DEF Ctl!Chamber, Ctl!ChamberAt, Ctl!Position, Ctl!FirstContext
<1>5. Agree(shown0, Ctl!FirstContext)
  <2>1. shown0["left_door_open"] = Ctl!FirstContext["left_door_open"]
    BY DEF Ctl!Position, Ctl!FirstContext
  <2>2. shown0["right_door_open"] = Ctl!FirstContext["right_door_open"]
    BY DEF Ctl!Position, Ctl!FirstContext
  <2>3. shown0["left_guard_locked"] = Ctl!FirstContext["left_guard_locked"]
    BY DEF Ctl!Position, Ctl!FirstContext
  <2>4. shown0["right_guard_locked"] = Ctl!FirstContext["right_guard_locked"]
    BY DEF Ctl!Position, Ctl!FirstContext
  <2> QED BY <2>1, <2>2, <2>3, <2>4 DEF Agree, Ctl!Actuators
<1> QED BY <1>1, <1>3, <1>4, <1>5 DEF Handled

LEMMA HandlerIs ==
  ASSUME ControllerT, Ctl!Chamber, NEW m \in Ctl!Msgs, Ctl!CallHandler(m)
  PROVE  Handled(m)
<1> USE OtherwiseIs, AcceptIs
    DEF ControllerT, Expects, Ctl!Chamber, Ctl!ChamberAt, Ctl!Position, Ctl!Contexts, Ctl!States, Ctl!Msgs
<1>1. CASE Ctl!state_start(m)
  BY <1>1, AnswerIs DEF Ctl!state_start, Ctl!Codes
<1>2. CASE Ctl!state_gll_alpha(m)
  BY <1>2 DEF Ctl!state_gll_alpha
<1>3. CASE Ctl!state_grl_alpha(m)
  BY <1>3 DEF Ctl!state_grl_alpha
<1>4. CASE Ctl!state_lc_alpha(m)
  BY <1>4 DEF Ctl!state_lc_alpha
<1>5. CASE Ctl!state_rc_alpha(m)
  BY <1>5 DEF Ctl!state_rc_alpha
<1>6. CASE Ctl!state_opened(m)
  BY <1>6, AnswerIs DEF Ctl!state_opened, Ctl!Codes
<1>7. CASE Ctl!state_weight(m)
  BY <1>7, AnswerIs DEF Ctl!state_weight, Ctl!Codes
<1>8. CASE Ctl!state_lc_beta(m)
  BY <1>8 DEF Ctl!state_lc_beta
<1>9. CASE Ctl!state_rc_beta(m)
  BY <1>9 DEF Ctl!state_rc_beta
<1>10. CASE Ctl!state_guard_locked(m)
  BY <1>10 DEF Ctl!state_guard_locked
<1>11. CASE Ctl!state_glu(m)
  BY <1>11 DEF Ctl!state_glu
<1>12. CASE Ctl!state_gru(m)
  BY <1>12 DEF Ctl!state_gru
<1>13. CASE Ctl!state_lo(m)
  BY <1>13 DEF Ctl!state_lo
<1>14. CASE Ctl!state_ro(m)
  BY <1>14 DEF Ctl!state_ro
<1>15. CASE Ctl!state_lc_gamma(m)
  <2>1. CASE Ctl!Otherwise(m, {"gll"})
    BY <1>15, <2>1 DEF Ctl!state_lc_gamma
  <2>2. CASE Ctl!get_first_state([context EXCEPT !.left_guard_locked = TRUE])
    BY <1>15, <2>2, RestartIs DEF Ctl!state_lc_gamma
  <2> QED BY <1>15, <2>1, <2>2 DEF Ctl!state_lc_gamma
<1>16. CASE Ctl!state_rc_gamma(m)
  <2>1. CASE Ctl!Otherwise(m, {"grl"})
    BY <1>16, <2>1 DEF Ctl!state_rc_gamma
  <2>2. CASE Ctl!get_first_state([context EXCEPT !.right_guard_locked = TRUE])
    BY <1>16, <2>2, RestartIs DEF Ctl!state_rc_gamma
  <2> QED BY <1>16, <2>1, <2>2 DEF Ctl!state_rc_gamma
<1> QED
  BY <1>1, <1>2, <1>3, <1>4, <1>5, <1>6, <1>7, <1>8,
     <1>9, <1>10, <1>11, <1>12, <1>13, <1>14, <1>15, <1>16 DEF Ctl!CallHandler

-----------------------------------------------------------------------------
(* A queue without a client that was in it once at most.                    *)
LEMMA TakenBackType ==
  ASSUME NEW S, NEW q \in Seq(S), NEW c,
         Once(q, c)
  PROVE  /\ TakenBack(q, c) \in Seq(S) /\ ~In(TakenBack(q, c), c)
         /\ \A x : x # c =>
              (In(TakenBack(q, c), x) <=> In(q, x)) /\ (Once(q, x) => Once(TakenBack(q, c), x))
<1> USE DEF In, Once
<1> DEFINE t == TakenBack(q, c)
<1>0. Len(q) \in Nat /\ DOMAIN q = 1..Len(q) /\ q \in [1..Len(q) -> S]
  BY LenProperties
<1>1. CASE ~In(q, c)
  <2>1. t = q
    BY <1>1 DEF TakenBack
  <2> QED BY <1>1, <2>1
<1>2. CASE In(q, c)
  <2> DEFINE at == CHOOSE i \in DOMAIN q : q[i] = c
             n  == Len(q) - 1
  <2>1. at \in DOMAIN q /\ q[at] = c
    BY <1>2
  <2>2. t = [i \in 1..n |-> IF i < at THEN q[i] ELSE q[i + 1]]
    BY <1>2 DEF TakenBack
  <2> HIDE DEF at, t
  <2>3. n \in Nat /\ at \in 1..(n + 1) /\ DOMAIN q = 1..(n + 1)
    BY <1>0, <2>1
  <2>4. \A i \in DOMAIN q : q[i] = c => i = at
    BY <2>1
  <2> HIDE DEF n
  <2>5. DOMAIN t = 1..n
    BY <2>2
  <2>6. \A i \in 1..n : t[i] = (IF i < at THEN q[i] ELSE q[i + 1])
    BY <2>2
  <2>7. t \in Seq(S)
    <3>1. \A i \in 1..n : t[i] \in S
      BY <1>0, <2>3, <2>6
    <3> QED BY <2>2, <2>3, <3>1, SeqDef
  <2>8. \A i \in 1..n : t[i] # c
    BY <2>3, <2>4, <2>6
  <2>9. ASSUME NEW x, x # c
        PROVE  /\ (\E i \in 1..n : t[i] = x) <=> \E i \in DOMAIN q : q[i] = x
               /\ (\A i, j \in DOMAIN q : q[i] = x /\ q[j] = x => i = j) =>
                    \A i, j \in 1..n : t[i] = x /\ t[j] = x => i = j
    <3>1. ASSUME NEW i \in 1..n, t[i] = x PROVE \E j \in DOMAIN q : q[j] = x
      <4>1. i \in DOMAIN q /\ i + 1 \in DOMAIN q
        BY <2>3
      <4> QED BY <2>6, <3>1, <4>1
    <3>2. ASSUME NEW i \in DOMAIN q, q[i] = x PROVE \E j \in 1..n : t[j] = x
      <4>1. i # at
        BY <2>1, <2>9, <3>2
      <4>2. CASE i < at
        <5>1. i \in 1..n
          BY <2>3, <4>2
        <5> QED BY <2>6, <3>2, <4>2, <5>1
      <4>3. CASE i > at
        <5>1. i - 1 \in 1..n /\ ~(i - 1 < at) /\ (i - 1) + 1 = i
          BY <2>3, <4>3
        <5> QED BY <2>6, <3>2, <5>1
      <4> QED BY <2>3, <4>1, <4>2, <4>3
    <3>3. ASSUME \A i, j \in DOMAIN q : q[i] = x /\ q[j] = x => i = j,
                 NEW i \in 1..n, NEW j \in 1..n, t[i] = x, t[j] = x
          PROVE  i = j
      <4> DEFINE old(k) == IF k < at THEN k ELSE k + 1
      <4>1. old(i) \in DOMAIN q /\ old(j) \in DOMAIN q
        BY <2>3
      <4>2. q[old(i)] = x /\ q[old(j)] = x
        BY <2>6, <3>3
      <4>3. old(i) = old(j)
        BY <3>3, <4>1, <4>2
      <4> QED BY <2>3, <4>3
    <3> QED BY <3>1, <3>2, <3>3
  <2> QED BY <2>5, <2>7, <2>8, <2>9 DEF t
<1> QED BY <1>1, <1>2

(* A message or a pulse at the end of a queue.                              *)
LEMMA AppendIs ==
  ASSUME NEW S, NEW q \in Seq(S), NEW x \in S
  PROVE  /\ Append(q, x) \in Seq(S) /\ Append(q, x)[Len(q) + 1] = x
         /\ DOMAIN Append(q, x) = DOMAIN q \cup {Len(q) + 1} /\ Len(q) + 1 \notin DOMAIN q
         /\ \A i \in DOMAIN q : Append(q, x)[i] = q[i]
<1>1. Len(q) \in Nat /\ DOMAIN q = 1..Len(q)
  BY LenProperties
<1>2. /\ Append(q, x) \in Seq(S) /\ Len(Append(q, x)) = Len(q) + 1
      /\ Append(q, x)[Len(q) + 1] = x /\ \A i \in 1..Len(q) : Append(q, x)[i] = q[i]
  BY AppendProperties
<1>3. DOMAIN Append(q, x) = 1..(Len(q) + 1)
  BY <1>2, LenProperties
<1>4. 1..(Len(q) + 1) = 1..Len(q) \cup {Len(q) + 1} /\ Len(q) + 1 \notin 1..Len(q)
  BY <1>1
<1> QED BY <1>1, <1>2, <1>3, <1>4

LEMMA AppendPlaces ==
  ASSUME NEW S, NEW q \in Seq(S), NEW x \in S
  PROVE  Append(q, x) \in Seq(S) /\ In(Append(q, x), x) /\ (~In(q, x) => Once(Append(q, x), x))
  BY AppendIs DEF In, Once

LEMMA AppendKeeps ==
  ASSUME NEW S, NEW q \in Seq(S), NEW x \in S, NEW y, y # x
  PROVE  (In(Append(q, x), y) <=> In(q, y)) /\ (Once(q, y) => Once(Append(q, x), y))
  BY AppendIs DEF In, Once

(* The first of a queue leaves it.                                          *)
LEMMA TailPlaces ==
  ASSUME NEW S, NEW q \in Seq(S), q # <<>>, NEW y, Once(q, y)
  PROVE  /\ Tail(q) \in Seq(S) /\ Head(q) \in S /\ Once(Tail(q), y)
         /\ Head(q) = y <=> In(q, y) /\ ~In(Tail(q), y)
         /\ In(Tail(q), y) => In(q, y)
<1> USE DEF In, Once
<1> DEFINE t == Tail(q)
           n == Len(q) - 1
<1>1. n \in Nat /\ DOMAIN q = 1..(n + 1) /\ Head(q) = q[1]
  BY LenProperties, EmptySeq
<1>2. t \in Seq(S) /\ Len(t) = n /\ Head(q) \in S /\ \A i \in 1..n : t[i] = q[i + 1]
  BY HeadTailProperties
<1>3. DOMAIN t = 1..n
  BY <1>2, LenProperties
<1> HIDE DEF t, n
<1>4. \A i \in 1..n : i + 1 \in DOMAIN q /\ i + 1 # 1
  BY <1>1
<1>5. \A i \in DOMAIN q : i = 1 \/ (i - 1 \in 1..n /\ (i - 1) + 1 = i)
  BY <1>1
<1>6. (\E i \in DOMAIN t : t[i] = y) => \E i \in DOMAIN q : q[i] = y
  BY <1>2, <1>3, <1>4
<1>7. Head(q) = y => ~(\E i \in DOMAIN t : t[i] = y) /\ \E i \in DOMAIN q : q[i] = y
  <2>1. 1 \in DOMAIN q
    BY <1>1
  <2> QED BY <1>1, <1>2, <1>3, <1>4, <2>1
<1>8. ASSUME NEW i \in DOMAIN q, q[i] = y, ~(\E j \in DOMAIN t : t[j] = y) PROVE Head(q) = y
  <2>1. CASE i = 1
    BY <1>1, <1>8, <2>1
  <2>2. CASE i # 1
    <3>1. i - 1 \in DOMAIN t /\ t[i - 1] = q[i]
      BY <1>2, <1>3, <1>5, <2>2
    <3> QED BY <1>8, <3>1
  <2> QED BY <2>1, <2>2
<1>9. ASSUME NEW i \in DOMAIN t, NEW j \in DOMAIN t, t[i] = y, t[j] = y PROVE i = j
  <2>1. i + 1 = j + 1
    BY <1>2, <1>3, <1>4, <1>9
  <2> QED BY <1>1, <1>3, <2>1
<1> QED BY <1>2, <1>6, <1>7, <1>8, <1>9 DEF t

-----------------------------------------------------------------------------
(* A display that was told is linked, by a controller that is up.           *)
ToldOK == told => linked /\ ctl # "dead"

(* What this controller announces or has announced agrees with its context; *)
(* the log an earlier one left need not.                                    *)
LogOK == told \/ ctl = "pulse" => disp_log \in Ctl!Contexts /\ Agree(disp_log, context)

(* The last update is on the screen or on its way.                          *)
ShownOK == told /\ pulses = 0 /\ ctl \in {"receive", "reply"} => shown = disp_log

(* Nobody is served between replies.                                        *)
Idle == ctl \in {"receive", "dead"} => cur = NoClient

(* BlockedAccountedFor for one client.                                      *)
Heard(c) ==
  /\ In(queue, c) \/ cur = c <=> Blocked(c)
  /\ ~(In(queue, c) /\ cur = c)
  /\ Once(queue, c)

ScreenInv == ToldOK /\ LogOK /\ ShownOK

(* The inductive invariant.                                                 *)
IInv ==
  /\ TypeOK /\ Ctl!Chamber /\ ScreenInv /\ Idle
  /\ \A c \in Clients : Heard(c)

Others == Clients \cup {Pulse}

LEMMA TypeParts ==
  TypeOK <=>
    /\ ControllerT
    /\ ctl \in {"receive", "pulse", "reply", "dead"} /\ cur \in Clients \cup {NoClient}
    /\ queue \in Seq(Others) /\ client \in [Clients -> ClientT]
    /\ disp \in {"up", "down"} /\ linked \in BOOLEAN /\ told \in BOOLEAN
    /\ pulses \in 0..MaxPulses /\ shown \in Ctl!Contexts \cup {NoLog}
    /\ crashes \in 0..MaxCrashes /\ displays \in 0..MaxDisplays
  BY DEF TypeOK, ControllerT, Others

(* The records clients are made of.                                         *)
LEMMA FixedTypes == NoMsg \in Ctl!Msgs /\ Off \in ClientT /\ ~(Off.pc \in {"send", "send_number"})
                    /\ Off.connected = FALSE
  BY SystemAssumption DEF NoMsg, Off, Ctl!Msgs, Ctl!Commands, ClientT, RspCodes, Ctl!Codes

LEMMA PromptType ==
  ASSUME NEW r \in ClientT
  PROVE  /\ Prompt(r) \in ClientT /\ Prompt(r).pc = "prompt" /\ Prompt(r).rsp = r.rsp
         /\ Prompt(r).connected = r.connected /\ Prompt(r).msg = NoMsg
  BY FixedTypes DEF Prompt, ClientT

LEMMA SendFailsType ==
  ASSUME NEW r \in ClientT, NEW m \in Ctl!Msgs
  PROVE  /\ SendFails(r, m) \in ClientT /\ SendFails(r, m).pc \in {"prompt", "switch"}
         /\ SendFails(r, m).connected = r.connected
<1>1. CASE r.pc \in {"ask", "send_number"}
  BY <1>1, PromptType DEF SendFails
<1>2. CASE r.pc \notin {"ask", "send_number"}
  BY <1>2 DEF SendFails, ClientT
<1> QED BY <1>1, <1>2

LEMMA RepliedType ==
  ASSUME NEW r \in ClientT, NEW k \in RspCodes
  PROVE  /\ Replied(r, k) \in ClientT /\ Replied(r, k).connected = r.connected
         /\ Replied(r, k).rsp = k
         /\ IF r.pc = "send_number" THEN Replied(r, k).pc = "prompt"
            ELSE Replied(r, k).pc = "switch" /\ Replied(r, k).msg = r.msg
<1>1. CASE r.pc = "send_number"
  <2> DEFINE p == Prompt(r)
  <2>1. p \in ClientT /\ p.pc = "prompt" /\ p.connected = r.connected
    BY PromptType
  <2>2. Replied(r, k) = [p EXCEPT !.rsp = k]
    BY <1>1 DEF Replied
  <2> HIDE DEF p
  <2> QED BY <1>1, <2>1, <2>2 DEF ClientT
<1>2. CASE r.pc # "send_number"
  BY <1>2 DEF Replied, ClientT
<1> QED BY <1>1, <1>2

LEMMA InitIInv == Init => IInv
<1> SUFFICES ASSUME Init PROVE IInv OBVIOUS
<1>1. ControllerT
  BY SystemAssumption DEF Init, Ctl!Init, ControllerT, Ctl!States, Ctl!Contexts, RspCodes, Ctl!Codes,
                          Ctl!FirstContext
<1>2. queue \in Seq(Others) /\ DOMAIN queue = {}
  BY EmptySeq DEF Init
<1>3. client \in [Clients -> ClientT] /\ \A c \in Clients : client[c] = Off
  BY FixedTypes DEF Init
<1>4. TypeOK
  <2>1. /\ ctl = "receive" /\ cur = NoClient /\ disp = "up" /\ linked = TRUE /\ told = FALSE
        /\ pulses = 0 /\ shown = NoLog /\ crashes = 0 /\ displays = 0
    BY DEF Init
  <2>2. 0 \in 0..MaxPulses /\ 0 \in 0..MaxCrashes /\ 0 \in 0..MaxDisplays
    BY SystemAssumption
  <2> QED BY <1>1, <1>2, <1>3, <2>1, <2>2, TypeParts
<1>5. Ctl!Chamber
  BY DEF Init, Ctl!Init, Ctl!Chamber, Ctl!ChamberAt, Ctl!Position, Ctl!FirstContext
<1>6. ScreenInv /\ Idle
  BY DEF Init, ScreenInv, ToldOK, LogOK, ShownOK, Idle
<1>7. ASSUME NEW c \in Clients PROVE Heard(c)
  BY <1>2, <1>3, FixedTypes, SystemAssumption DEF Init, Heard, In, Once, Blocked
<1> QED BY <1>4, <1>5, <1>6, <1>7 DEF IInv

-----------------------------------------------------------------------------
(* des_inputs.  One client's step leaves the controller and the display     *)
(* alone; what it does to the queue, and whether it is blocked, fit.        *)
LEMMA ClientStep ==
  ASSUME IInv, NEW c \in Clients, UNCHANGED <<ctlVars, ctl, dispVars, crashes, displays>>,
         client' \in [Clients -> ClientT], \A d \in Clients \ {c} : client'[d] = client[d],
         cur' \in Clients \cup {NoClient}, queue' \in Seq(Others), Idle', Heard(c)',
         \A d \in Clients \ {c} : (cur' = d <=> cur = d) /\ (In(queue', d) <=> In(queue, d))
                                 /\ (Once(queue, d) => Once(queue', d))
  PROVE  IInv'
<1>0. UNCHANGED <<next_state, context, code, disp_log, notify, ctl, disp, linked, pulses, shown, told,
                  crashes, displays>>
  BY DEF ctlVars, dispVars
<1>1. TypeOK'
  BY <1>0 DEF IInv, TypeOK, Others
<1>2. Ctl!Chamber' /\ ScreenInv'
  BY <1>0 DEF IInv, Ctl!Chamber, ScreenInv, ToldOK, LogOK, ShownOK
<1>3. ASSUME NEW d \in Clients, d # c PROVE Heard(d)'
  BY <1>3 DEF IInv, Heard, Blocked
<1> QED BY <1>1, <1>2, <1>3 DEF IInv

(* One that is not blocked and does not become so.                          *)
LEMMA FreeStep ==
  ASSUME IInv, NEW c \in Clients, UNCHANGED <<ctlVars, ctl, cur, queue, dispVars, crashes, displays>>,
         client' \in [Clients -> ClientT], \A d \in Clients \ {c} : client'[d] = client[d],
         ~Blocked(c), client'[c].pc \notin {"send", "send_number"}
  PROVE  IInv'
<1>1. cur' \in Clients \cup {NoClient} /\ queue' \in Seq(Others) /\ Idle'
  BY DEF IInv, TypeOK, Others, Idle
<1>2. Heard(c)'
  BY DEF IInv, Heard, Blocked
<1> QED BY <1>1, <1>2, ClientStep

LEMMA SetClient ==
  ASSUME client \in [Clients -> ClientT], NEW c \in Clients, NEW new \in ClientT,
         client' = [client EXCEPT ![c] = new]
  PROVE  /\ client' \in [Clients -> ClientT] /\ client'[c] = new
         /\ \A d \in Clients \ {c} : client'[d] = client[d]
  OBVIOUS

LEMMA LaunchIInv == ASSUME IInv, NEW c \in Clients, Launch(c) PROVE IInv'
<1> DEFINE new == [Prompt(Off) EXCEPT !.connected = TRUE]
<1>1. new \in ClientT /\ new.pc = "prompt"
  <2> DEFINE p == Prompt(Off)
  <2>1. p \in ClientT /\ p.pc = "prompt"
    BY PromptType, FixedTypes
  <2> HIDE DEF p
  <2>2. [p EXCEPT !.connected = TRUE] \in ClientT /\ [p EXCEPT !.connected = TRUE].pc = "prompt"
    BY <2>1 DEF ClientT
  <2> QED BY <2>2 DEF p
<1>2. /\ client' = [client EXCEPT ![c] = new] /\ client \in [Clients -> ClientT] /\ ~Blocked(c)
      /\ UNCHANGED <<ctlVars, ctl, cur, queue, dispVars, crashes, displays>>
  BY DEF Launch, IInv, TypeOK, Blocked
<1> HIDE DEF new
<1> QED BY <1>1, <1>2, SetClient, FreeStep

LEMMA SwitchIInv == ASSUME IInv, NEW c \in Clients, SwitchOnCode(c) PROVE IInv'
<1> DEFINE r   == client[c]
           new == CASE r.rsp = "EXTRA"      -> [r EXCEPT !.pc = "ask", !.status = "ok"]
                    [] r.rsp = "DISCONNECT" -> Off
                    [] OTHER                -> Prompt(r)
<1>1. r \in ClientT
  BY DEF IInv, TypeOK
<1>2. new \in ClientT /\ new.pc \in {"ask", "off", "prompt"}
  <2> HIDE DEF r
  <2>1. [r EXCEPT !.pc = "ask", !.status = "ok"] \in ClientT
        /\ [r EXCEPT !.pc = "ask", !.status = "ok"].pc = "ask"
    BY <1>1 DEF ClientT
  <2>2. Off.pc = "off"
    BY DEF Off
  <2>3. new \in {[r EXCEPT !.pc = "ask", !.status = "ok"], Off, Prompt(r)}
    OBVIOUS
  <2> HIDE DEF new
  <2> QED BY <1>1, <2>1, <2>2, <2>3, FixedTypes, PromptType
<1>3. /\ client' = [client EXCEPT ![c] = new] /\ client \in [Clients -> ClientT] /\ ~Blocked(c)
      /\ UNCHANGED <<ctlVars, ctl, cur, queue, dispVars, crashes, displays>>
  BY DEF SwitchOnCode, IInv, TypeOK, Blocked
<1> HIDE DEF new
<1> QED BY <1>2, <1>3, SetClient, FreeStep

(* What MsgSend does.                                                       *)
LEMMA SendIs ==
  ASSUME client \in [Clients -> ClientT], NEW c \in Clients, NEW m \in Ctl!Msgs,
         NEW pc \in {"send", "send_number"}, MsgSend(c, m, pc)
  PROVE  /\ UNCHANGED <<ctlVars, ctl, cur, dispVars, crashes, displays>>
         /\ client' \in [Clients -> ClientT] /\ \A d \in Clients \ {c} : client'[d] = client[d]
         /\ client'[c].connected = client[c].connected
         /\ client[c].connected => /\ queue' = Append(queue, c)
                                   /\ client'[c].pc = pc /\ client'[c].msg = m
         /\ ~client[c].connected => queue' = queue /\ client'[c].pc \in {"prompt", "switch"}
<1> DEFINE r   == client[c]
           new == IF r.connected THEN [r EXCEPT !.pc = pc, !.msg = m] ELSE SendFails(r, m)
<1>1. r \in ClientT
  OBVIOUS
<1>2. /\ new \in ClientT /\ new.connected = r.connected
      /\ r.connected => new.pc = pc /\ new.msg = m
      /\ ~r.connected => new.pc \in {"prompt", "switch"}
  <2> HIDE DEF r
  <2>1. [r EXCEPT !.pc = pc, !.msg = m] \in ClientT
        /\ [r EXCEPT !.pc = pc, !.msg = m].pc = pc /\ [r EXCEPT !.pc = pc, !.msg = m].msg = m
        /\ [r EXCEPT !.pc = pc, !.msg = m].connected = r.connected
    BY <1>1 DEF ClientT
  <2> QED BY <1>1, <2>1, SendFailsType
<1>3. client' = [client EXCEPT ![c] = new]
  BY DEF MsgSend
<1>4. /\ UNCHANGED <<ctlVars, ctl, cur, dispVars, crashes, displays>>
      /\ client[c].connected => queue' = Append(queue, c)
      /\ ~client[c].connected => queue' = queue
  BY DEF MsgSend
<1> HIDE DEF new
<1> QED BY <1>2, <1>3, <1>4, SetClient

LEMMA SendIInv ==
  ASSUME IInv, NEW c \in Clients, NEW m \in Ctl!Msgs, NEW pc \in {"send", "send_number"},
         MsgSend(c, m, pc), ~Blocked(c)
  PROVE  IInv'
<1>1. client \in [Clients -> ClientT] /\ queue \in Seq(Others) /\ cur \in Clients \cup {NoClient}
      /\ c \in Others /\ Heard(c) /\ Idle
  BY DEF IInv, TypeOK, Others
<1>2. CASE ~client[c].connected
  BY <1>1, <1>2, SendIs, FreeStep
<1>3. CASE client[c].connected
  <2>1. /\ UNCHANGED <<ctlVars, ctl, cur, dispVars, crashes, displays>>
        /\ client' \in [Clients -> ClientT] /\ \A d \in Clients \ {c} : client'[d] = client[d]
        /\ queue' = Append(queue, c) /\ client'[c].pc = pc
    BY <1>1, <1>3, SendIs
  <2>2. queue' \in Seq(Others) /\ In(queue', c) /\ (~In(queue, c) => Once(queue', c))
    BY <1>1, <2>1, AppendPlaces
  <2>3. \A d \in Clients \ {c} : (In(queue', d) <=> In(queue, d)) /\ (Once(queue, d) => Once(queue', d))
    BY <1>1, <2>1, AppendKeeps
  <2>4. Heard(c)'
    BY <1>1, <2>1, <2>2 DEF Heard, Blocked
  <2>5. Idle'
    BY <1>1, <2>1 DEF Idle
  <2> QED BY <1>1, <2>1, <2>2, <2>3, <2>4, <2>5, ClientStep
<1> QED BY <1>2, <1>3

LEMMA TypedIs ==
  ASSUME NEW c \in Clients, client[c] \in ClientT
  PROVE  /\ \A d \in Typed : [data |-> d, extra |-> 0] \in Ctl!Msgs
         /\ \A n \in Extras : [client[c].msg EXCEPT !.extra = n] \in Ctl!Msgs
  BY SystemAssumption, TypedAssumption DEF ClientT, Ctl!Msgs

LEMMA TypeIInv == ASSUME IInv, NEW c \in Clients, TypeCommand(c) \/ TypeNumber(c) PROVE IInv'
<1>1. client[c] \in ClientT /\ ~Blocked(c)
  BY DEF IInv, TypeOK, TypeCommand, TypeNumber, Blocked
<1>2. CASE TypeCommand(c)
  <2> PICK d \in Typed : MsgSend(c, [data |-> d, extra |-> 0], "send")
    BY <1>2 DEF TypeCommand
  <2> QED BY <1>1, TypedIs, SendIInv
<1>3. CASE TypeNumber(c)
  <2> PICK n \in Extras : MsgSend(c, [client[c].msg EXCEPT !.extra = n], "send_number")
    BY <1>3 DEF TypeNumber
  <2> QED BY <1>1, TypedIs, SendIInv
<1> QED BY <1>2, <1>3

LEMMA DiesIInv == ASSUME IInv, NEW c \in Clients, ClientDies(c) PROVE IInv'
<1>1. /\ client \in [Clients -> ClientT] /\ queue \in Seq(Others) /\ cur \in Clients \cup {NoClient}
      /\ Heard(c) /\ Idle
  BY DEF IInv, TypeOK, Others
<1>2. /\ UNCHANGED <<ctlVars, ctl, dispVars, crashes, displays>>
      /\ client' = [client EXCEPT ![c] = Off] /\ queue' = TakenBack(queue, c)
      /\ cur' = IF cur = c THEN NoClient ELSE cur
  BY DEF ClientDies
<1>3. /\ client' \in [Clients -> ClientT] /\ client'[c] = Off
      /\ \A d \in Clients \ {c} : client'[d] = client[d]
  BY <1>1, <1>2, FixedTypes, SetClient
<1>4. /\ queue' \in Seq(Others) /\ ~In(queue', c)
      /\ \A d : d # c => (In(queue', d) <=> In(queue, d)) /\ (Once(queue, d) => Once(queue', d))
  BY <1>1, <1>2, TakenBackType DEF Heard
<1>5. Once(queue', c)
  BY <1>4 DEF In, Once
<1>6. Heard(c)' /\ Idle' /\ cur' \in Clients \cup {NoClient}
        /\ \A d \in Clients \ {c} : cur' = d <=> cur = d
  <2>1. cur' # c
    BY <1>2, SystemAssumption
  <2>2. ~Blocked(c)'
    BY <1>3, FixedTypes DEF Blocked
  <2> QED BY <1>1, <1>2, <1>4, <1>5, <2>1, <2>2, SystemAssumption DEF Heard, Idle
<1> QED BY <1>2, <1>3, <1>4, <1>6, ClientStep

-----------------------------------------------------------------------------
(* des_controller.                                                          *)
LEMMA HeadIs ==
  ASSUME IInv, queue # <<>>
  PROVE  /\ Tail(queue) \in Seq(Others) /\ Head(queue) \in Others
         /\ \A c \in Clients : /\ Once(Tail(queue), c)
                               /\ Head(queue) = c <=> In(queue, c) /\ ~In(Tail(queue), c)
                               /\ In(Tail(queue), c) => In(queue, c)
<1>1. queue \in Seq(Others)
  BY DEF IInv, TypeOK, Others
<1>2. Tail(queue) \in Seq(Others) /\ Head(queue) \in Others
  BY <1>1, HeadTailProperties
<1>3. ASSUME NEW c \in Clients
      PROVE  /\ Once(Tail(queue), c)
             /\ Head(queue) = c <=> In(queue, c) /\ ~In(Tail(queue), c)
             /\ In(Tail(queue), c) => In(queue, c)
  BY <1>1, <1>3, TailPlaces DEF IInv, Heard
<1> QED BY <1>2, <1>3

LEMMA ReceiveIInv == ASSUME IInv, Receive PROVE IInv'
<1>1. /\ ctl = "receive" /\ queue # <<>> /\ Head(queue) \in Clients
      /\ Ctl!CallHandler(client[Head(queue)].msg)
      /\ cur' = Head(queue) /\ queue' = Tail(queue)
      /\ ctl' = IF notify' THEN "pulse" ELSE "reply"
      /\ UNCHANGED <<client, disp, linked, pulses, shown, told, crashes, displays>>
  BY DEF Receive, dispVars
<1>2. ControllerT /\ Ctl!Chamber /\ cur = NoClient
  BY <1>1, TypeParts DEF IInv, Idle
<1>3. client[Head(queue)].msg \in Ctl!Msgs
  BY <1>1 DEF IInv, TypeOK, ClientT
<1>4. Handled(client[Head(queue)].msg)
  BY <1>1, <1>2, <1>3, HandlerIs
<1>5. TypeOK'
  BY <1>1, <1>4, HeadIs DEF IInv, TypeOK, Handled, ControllerT, Others
<1>6. Ctl!Chamber' /\ Idle'
  BY <1>1, <1>4 DEF Handled, Idle
<1>7. ScreenInv'
  BY <1>1, <1>4 DEF IInv, ScreenInv, ToldOK, LogOK, ShownOK, Handled, Agree
<1>8. ASSUME NEW c \in Clients PROVE Heard(c)'
  BY <1>1, <1>2, HeadIs, SystemAssumption DEF IInv, Heard, Blocked
<1> QED BY <1>5, <1>6, <1>7, <1>8 DEF IInv

LEMMA ReceivePulseIInv == ASSUME IInv, ReceivePulse PROVE IInv'
<1>1. /\ ctl = "receive" /\ queue # <<>> /\ Head(queue) = Pulse
      /\ code' = "UNEXPECTED" /\ notify' = FALSE
      /\ cur' = NoClient /\ queue' = Tail(queue) /\ ctl' = "reply"
      /\ UNCHANGED <<next_state, context, disp_log, client, disp, linked, pulses, shown, told,
                     crashes, displays>>
  BY DEF ReceivePulse, dispVars
<1>2. cur = NoClient
  BY <1>1 DEF IInv, Idle
<1>3. TypeOK'
  BY <1>1, HeadIs DEF IInv, TypeOK, RspCodes, Others
<1>4. Ctl!Chamber' /\ Idle' /\ ScreenInv'
  BY <1>1 DEF IInv, Ctl!Chamber, Idle, ScreenInv, ToldOK, LogOK, ShownOK
<1>5. ASSUME NEW c \in Clients PROVE Heard(c)'
  BY <1>1, <1>2, HeadIs, SystemAssumption DEF IInv, Heard, Blocked
<1> QED BY <1>3, <1>4, <1>5 DEF IInv

LEMMA SendPulseIInv == ASSUME IInv, SendPulse PROVE IInv'
<1>1. /\ ctl = "pulse" /\ (linked => pulses < MaxPulses) /\ ctl' = "reply"
      /\ IF linked THEN pulses' = pulses + 1 /\ told' = TRUE ELSE UNCHANGED <<pulses, told>>
      /\ UNCHANGED <<next_state, context, code, disp_log, notify, cur, queue, client,
                     disp, linked, shown, crashes, displays>>
  BY DEF SendPulse, ctlVars
<1>2. pulses' \in 0..MaxPulses /\ (linked => pulses' # 0)
  BY <1>1, SystemAssumption DEF IInv, TypeOK
<1>3. TypeOK'
  BY <1>1, <1>2 DEF IInv, TypeOK
<1>4. Ctl!Chamber' /\ Idle' /\ ScreenInv'
  BY <1>1, <1>2 DEF IInv, Ctl!Chamber, Idle, ScreenInv, ToldOK, LogOK, ShownOK
<1>5. ASSUME NEW c \in Clients PROVE Heard(c)'
  BY <1>1 DEF IInv, Heard, Blocked
<1> QED BY <1>3, <1>4, <1>5 DEF IInv

LEMMA ReplyIInv == ASSUME IInv, Reply PROVE IInv'
<1>1. /\ ctl = "reply" /\ ctl' = "receive" /\ cur' = NoClient
      /\ client' = [c \in Clients |-> IF c = cur THEN Replied(client[c], code) ELSE client[c]]
      /\ UNCHANGED <<next_state, context, code, disp_log, notify, queue, disp, linked, pulses,
                     shown, told, crashes, displays>>
  BY DEF Reply, ctlVars, dispVars
<1>2. ASSUME NEW c \in Clients
      PROVE  /\ client'[c] \in ClientT
             /\ c = cur => client'[c].pc \in {"prompt", "switch"}
             /\ c # cur => client'[c] = client[c]
  <2>1. client[c] \in ClientT /\ code \in RspCodes
    BY DEF IInv, TypeOK
  <2> QED BY <1>1, <2>1, RepliedType
<1>3. client' \in [Clients -> ClientT]
  BY <1>1, <1>2
<1>4. TypeOK'
  BY <1>1, <1>3 DEF IInv, TypeOK
<1>5. Ctl!Chamber' /\ Idle' /\ ScreenInv'
  BY <1>1 DEF IInv, Ctl!Chamber, Idle, ScreenInv, ToldOK, LogOK, ShownOK
<1>6. ASSUME NEW c \in Clients PROVE Heard(c)'
  BY <1>1, <1>2, SystemAssumption DEF IInv, Heard, Blocked
<1> QED BY <1>4, <1>5, <1>6 DEF IInv

LEMMA StrayPulseIInv == ASSUME IInv, StrayPulse PROVE IInv'
<1>1. /\ queue' = Append(queue, Pulse)
      /\ UNCHANGED <<next_state, context, code, disp_log, notify, ctl, cur, client, disp, linked,
                     pulses, shown, told, crashes, displays>>
  BY DEF StrayPulse, ctlVars, dispVars
<1>2. queue \in Seq(Others) /\ Pulse \in Others
  BY DEF IInv, TypeOK, Others
<1>3. queue' \in Seq(Others)
  BY <1>1, <1>2, AppendPlaces
<1>4. TypeOK'
  BY <1>1, <1>3 DEF IInv, TypeOK, Others
<1>5. Ctl!Chamber' /\ Idle' /\ ScreenInv'
  BY <1>1 DEF IInv, Ctl!Chamber, Idle, ScreenInv, ToldOK, LogOK, ShownOK
<1>6. ASSUME NEW c \in Clients PROVE Heard(c)'
  <2>1. c # Pulse
    BY SystemAssumption
  <2>2. (In(queue', c) <=> In(queue, c)) /\ (Once(queue, c) => Once(queue', c))
    BY <1>1, <1>2, <2>1, AppendKeeps
  <2> QED BY <1>1, <2>2 DEF IInv, Heard, Blocked
<1> QED BY <1>4, <1>5, <1>6 DEF IInv

(* A client after the controller's death: not blocked and not connected.    *)
LEMMA BereftType ==
  ASSUME NEW r \in ClientT
  PROVE  LET s == IF r.pc \in {"send", "send_number"} THEN SendFails(r, r.msg) ELSE r
         IN  /\ [s EXCEPT !.connected = FALSE] \in ClientT
             /\ [s EXCEPT !.connected = FALSE].pc \notin {"send", "send_number"}
             /\ [s EXCEPT !.connected = FALSE].connected = FALSE
<1> DEFINE s == IF r.pc \in {"send", "send_number"} THEN SendFails(r, r.msg) ELSE r
<1>1. r.msg \in Ctl!Msgs
  BY DEF ClientT
<1>2. s \in ClientT /\ s.pc \notin {"send", "send_number"}
  BY <1>1, SendFailsType
<1> HIDE DEF s
<1>3. /\ [s EXCEPT !.connected = FALSE] \in ClientT
      /\ [s EXCEPT !.connected = FALSE].pc \notin {"send", "send_number"}
      /\ [s EXCEPT !.connected = FALSE].connected = FALSE
  BY <1>2 DEF ClientT
<1> QED BY <1>3 DEF s

LEMMA CrashIInv == ASSUME IInv, Crash PROVE IInv'
<1>1. /\ crashes < MaxCrashes /\ crashes' = crashes + 1
      /\ ctl' = "dead" /\ cur' = NoClient /\ queue' = <<>>
      /\ client' = [c \in Clients |->
           [IF Blocked(c) THEN SendFails(client[c], client[c].msg) ELSE client[c]
              EXCEPT !.connected = FALSE]]
      /\ next_state' = "start" /\ context' = Ctl!FirstContext
      /\ code' = "NONE" /\ notify' = FALSE /\ linked' = FALSE /\ told' = FALSE
      /\ UNCHANGED <<disp_log, disp, pulses, shown, displays>>
  BY DEF Crash
<1>2. ASSUME NEW c \in Clients
      PROVE  /\ client'[c] \in ClientT /\ client'[c].pc \notin {"send", "send_number"}
             /\ client'[c].connected = FALSE
  <2>1. client[c] \in ClientT
    BY DEF IInv, TypeOK
  <2> QED BY <1>1, <2>1, BereftType DEF Blocked
<1>3. client' \in [Clients -> ClientT]
  BY <1>1, <1>2
<1>4. crashes' \in 0..MaxCrashes
  BY <1>1, SystemAssumption DEF IInv, TypeOK
<1>5. queue' \in Seq(Others) /\ DOMAIN queue' = {}
  BY <1>1, EmptySeq
<1>6. ControllerT'
  BY <1>1, SystemAssumption
     DEF IInv, TypeOK, ControllerT, Ctl!States, Ctl!Contexts, RspCodes, Ctl!Codes, Ctl!FirstContext
<1>7. TypeOK'
  BY <1>1, <1>3, <1>4, <1>5, <1>6 DEF IInv, TypeOK, ControllerT, Others
<1>8. Ctl!Chamber' /\ Idle' /\ ScreenInv'
  BY <1>1 DEF Ctl!Chamber, Ctl!ChamberAt, Ctl!Position, Ctl!FirstContext,
              Idle, ScreenInv, ToldOK, LogOK, ShownOK
<1>9. ASSUME NEW c \in Clients PROVE Heard(c)'
  BY <1>1, <1>2, <1>5, SystemAssumption DEF Heard, In, Once, Blocked
<1> QED BY <1>7, <1>8, <1>9 DEF IInv

LEMMA RestartIInv == ASSUME IInv, Restart PROVE IInv'
<1>1. /\ ctl = "dead" /\ ctl' = "receive" /\ linked' = TRUE
      /\ UNCHANGED <<next_state, context, code, disp_log, notify, cur, queue, client, disp, pulses,
                     shown, told, crashes, displays>>
  BY DEF Restart, ctlVars
<1>2. TypeOK'
  BY <1>1 DEF IInv, TypeOK
<1>3. Ctl!Chamber' /\ Idle' /\ ScreenInv'
  BY <1>1 DEF IInv, Ctl!Chamber, Idle, ScreenInv, ToldOK, LogOK, ShownOK
<1>4. ASSUME NEW c \in Clients PROVE Heard(c)'
  BY <1>1 DEF IInv, Heard, Blocked
<1> QED BY <1>2, <1>3, <1>4 DEF IInv

-----------------------------------------------------------------------------
(* des_display.  Its steps touch only what it shows and has been told.      *)
LEMMA DisplayStep ==
  ASSUME IInv, UNCHANGED <<ctlVars, ctl, cur, queue, client, crashes>>,
         disp' \in {"up", "down"}, linked' \in BOOLEAN, told' \in BOOLEAN, pulses' \in 0..MaxPulses,
         shown' \in Ctl!Contexts \cup {NoLog}, displays' \in 0..MaxDisplays,
         told' => told /\ linked' /\ (pulses' = 0 => shown' = disp_log \/ (pulses = 0 /\ shown' = shown))
  PROVE  IInv'
<1>1. UNCHANGED <<next_state, context, code, disp_log, notify, ctl, cur, queue, client, crashes>>
  BY DEF ctlVars
<1>2. TypeOK'
  BY <1>1 DEF IInv, TypeOK
<1>3. Ctl!Chamber' /\ Idle'
  BY <1>1 DEF IInv, Ctl!Chamber, Idle
<1>4. ScreenInv'
  BY <1>1 DEF IInv, ScreenInv, ToldOK, LogOK, ShownOK
<1>5. ASSUME NEW c \in Clients PROVE Heard(c)'
  BY <1>1 DEF IInv, Heard, Blocked
<1> QED BY <1>2, <1>3, <1>4, <1>5 DEF IInv

LEMMA PrintLogIInv == ASSUME IInv, PrintLog PROVE IInv'
<1>1. pulses > 0 /\ pulses \in 0..MaxPulses /\ pulses' = pulses - 1
  BY DEF PrintLog, IInv, TypeOK
<1>2. pulses' \in 0..MaxPulses
  BY <1>1, SystemAssumption
<1>3. /\ shown' = disp_log
      /\ UNCHANGED <<ctlVars, ctl, cur, queue, client, disp, linked, told, crashes, displays>>
  BY DEF PrintLog
<1> QED BY <1>2, <1>3, DisplayStep DEF IInv, TypeOK, ScreenInv, ToldOK

LEMMA DisplayDiesIInv == ASSUME IInv, DisplayDies PROVE IInv'
<1>1. displays' \in 0..MaxDisplays
  BY SystemAssumption DEF DisplayDies, IInv, TypeOK
<1>2. 0 \in 0..MaxPulses
  BY SystemAssumption
<1> QED BY <1>1, <1>2, DisplayStep DEF DisplayDies

LEMMA DisplayStartsIInv == ASSUME IInv, DisplayStarts PROVE IInv'
<1>1. /\ disp' = "up"
      /\ UNCHANGED <<ctlVars, ctl, cur, queue, client, linked, pulses, shown, told, crashes, displays>>
  BY DEF DisplayStarts
<1>2. /\ linked \in BOOLEAN /\ told \in BOOLEAN /\ pulses \in 0..MaxPulses
      /\ shown \in Ctl!Contexts \cup {NoLog} /\ displays \in 0..MaxDisplays /\ (told => linked)
  BY DEF IInv, TypeOK, ScreenInv, ToldOK
<1> QED BY <1>1, <1>2, DisplayStep

-----------------------------------------------------------------------------
LEMMA StepIInv == ASSUME IInv, [Next]_vars PROVE IInv'
<1>1. CASE Controller
  BY <1>1, ReceiveIInv, ReceivePulseIInv, SendPulseIInv, ReplyIInv DEF Controller
<1>2. CASE StrayPulse \/ Crash \/ Restart
  BY <1>2, StrayPulseIInv, CrashIInv, RestartIInv
<1>3. CASE PrintLog \/ DisplayDies \/ DisplayStarts
  BY <1>3, PrintLogIInv, DisplayDiesIInv, DisplayStartsIInv
<1>4. ASSUME NEW c \in Clients,
             Launch(c) \/ TypeCommand(c) \/ TypeNumber(c) \/ SwitchOnCode(c) \/ ClientDies(c)
      PROVE  IInv'
  BY <1>4, LaunchIInv, TypeIInv, SwitchIInv, DiesIInv
<1>5. CASE UNCHANGED vars
  <2>1. UNCHANGED <<ctlVars, ctl, cur, queue, client, crashes>>
        /\ UNCHANGED <<disp, linked, pulses, shown, told, displays>>
    BY <1>5 DEF vars, dispVars
  <2>2. /\ disp \in {"up", "down"} /\ linked \in BOOLEAN /\ told \in BOOLEAN /\ pulses \in 0..MaxPulses
        /\ shown \in Ctl!Contexts \cup {NoLog} /\ displays \in 0..MaxDisplays /\ (told => linked)
    BY DEF IInv, TypeOK, ScreenInv, ToldOK
  <2> QED BY <2>1, <2>2, DisplayStep
<1> QED BY <1>1, <1>2, <1>3, <1>4, <1>5 DEF Next

(* The inductive invariant holds of every reachable state.                  *)
THEOREM Invariance == Spec => []IInv
<1>1. IInv /\ [Next]_vars => IInv'
  BY StepIInv
<1> QED BY InitIInv, <1>1, PTL DEF Spec

(* The variables of the three processes keep their types, whatever clients, *)
(* controllers and displays die and start.                                  *)
THEOREM TypeCorrect == Spec => []TypeOK
<1>1. IInv => TypeOK
  BY DEF IInv
<1> QED BY Invariance, <1>1, PTL

(* A client blocked in MsgSend is in the controller's queue or being served,*)
(* once, and nobody else is: through deaths on both sides and replies to    *)
(* nobody (main, connectAttach and the loop of des_controller).             *)
THEOREM EveryBlockedAccountedFor == Spec => []BlockedAccountedFor
<1>1. IInv => BlockedAccountedFor
  <2> SUFFICES ASSUME IInv, NEW c \in Clients
               PROVE  /\ (In(queue, c) \/ cur = c) = Blocked(c)
                      /\ ~(In(queue, c) /\ cur = c)
                      /\ Once(queue, c)
    BY DEF BlockedAccountedFor
  <2>1. Heard(c)
    BY DEF IInv
  <2>2. (In(queue, c) \/ cur = c) \in BOOLEAN /\ Blocked(c) \in BOOLEAN
    BY DEF Blocked
  <2> QED BY <2>1, <2>2 DEF Heard
<1> QED BY Invariance, <1>1, PTL

(* With no update or pulse under way, a display this controller has pulsed  *)
(* shows the log as it is and the doors and guards as the controller has    *)
(* them (update_display and the display's loop).                            *)
THEOREM ScreenIsRight == Spec => []ScreenAgrees
<1>1. IInv => ScreenAgrees
  <2> SUFFICES ASSUME IInv, told, pulses = 0, ctl \in {"receive", "reply"}
               PROVE  /\ shown = disp_log /\ shown # NoLog
                      /\ \A f \in Ctl!Actuators : shown[f] = context[f]
    BY DEF ScreenAgrees
  <2>1. shown = disp_log /\ disp_log \in Ctl!Contexts /\ Agree(disp_log, context)
    BY DEF IInv, ScreenInv, LogOK, ShownOK
  <2> QED BY <2>1, TypedAssumption DEF Agree
<1> QED BY Invariance, <1>1, PTL

-----------------------------------------------------------------------------
(* One client's number.  From the EXTRA that asks for it to the handler     *)
(* that gets it, the controller stays in the state that asked: with no other*)
(* client only that number moves it, and a death ends the connection.       *)
Number(c) ==
  /\ client[c].connected => ctl # "dead"
  /\ Blocked(c) => client[c].connected
  /\ client[c].connected /\ client[c].pc = "ask" => Expects(next_state, client[c].msg.data)
  /\ client[c].connected /\ client[c].pc = "switch" /\ client[c].rsp = "EXTRA" =>
       Expects(next_state, client[c].msg.data)
  /\ client[c].pc = "send_number" /\ cur # c => Expects(next_state, client[c].msg.data)
  /\ client[c].pc = "send_number" /\ cur = c /\ client[c].msg.extra # 0 => code = "OK"
  /\ client[c].pc = "send" /\ cur = c /\ code = "EXTRA" =>
       Expects(next_state, client[c].msg.data)

NumberInv == \A c \in Clients : Clients = {c} => Number(c)

(* It is kept by steps that leave alone the client, the handler, and the    *)
(* code of a message that is being served.                                  *)
LEMMA NumberStays ==
  ASSUME NEW c \in Clients, Number(c), client'[c] = client[c], next_state' = next_state,
         cur' = c <=> cur = c, cur = c => code' = code, ctl' = "dead" => ctl = "dead"
  PROVE  Number(c)'
  BY DEF Number, Blocked

(* It holds of a client that is at its prompt, or has no connection.        *)
LEMMA NumberForgotten ==
  ASSUME NEW c \in Clients, client'[c].pc \notin {"send", "send_number"},
         client'[c].connected => ctl' # "dead" /\ client'[c].pc \in {"prompt", "off"}
  PROVE  Number(c)'
  BY DEF Number, Blocked

LEMMA ClientNumber ==
  ASSUME IInv, NEW c \in Clients, Number(c),
         Launch(c) \/ TypeCommand(c) \/ TypeNumber(c) \/ SwitchOnCode(c) \/ ClientDies(c)
  PROVE  Number(c)'
<1>1. client \in [Clients -> ClientT] /\ client[c] \in ClientT /\ Heard(c)
  BY DEF IInv, TypeOK
<1>2. CASE Launch(c)
  <2> DEFINE p == Prompt(Off)
  <2>1. p \in ClientT /\ p.pc = "prompt"
    BY PromptType, FixedTypes
  <2>2. client'[c] = [p EXCEPT !.connected = TRUE] /\ ctl' # "dead"
    BY <1>1, <1>2 DEF Launch
  <2> HIDE DEF p
  <2>3. client'[c].pc = "prompt"
    BY <2>1, <2>2 DEF ClientT
  <2> QED BY <2>2, <2>3, NumberForgotten
<1>3. CASE TypeCommand(c) \/ TypeNumber(c)
  <2>1. ~Blocked(c) /\ cur # c
    BY <1>1, <1>3 DEF TypeCommand, TypeNumber, Blocked, Heard
  <2>2. ASSUME NEW m \in Ctl!Msgs, NEW pc \in {"send", "send_number"}, MsgSend(c, m, pc),
               pc = "send_number" /\ client[c].connected => Expects(next_state, m.data)
        PROVE  Number(c)'
    <3>1. /\ ctl' = ctl /\ cur' = cur /\ next_state' = next_state
          /\ client'[c].connected = client[c].connected
          /\ client[c].connected => client'[c].pc = pc /\ client'[c].msg = m
          /\ ~client[c].connected => client'[c].pc \in {"prompt", "switch"}
      BY <1>1, <2>2, SendIs DEF ctlVars
    <3>2. CASE ~client[c].connected
      BY <3>1, <3>2, NumberForgotten
    <3>3. CASE client[c].connected
      BY <2>1, <2>2, <3>1, <3>3 DEF Number, Blocked
    <3> QED BY <3>2, <3>3
  <2>3. CASE TypeCommand(c)
    <3> PICK d \in Typed : MsgSend(c, [data |-> d, extra |-> 0], "send")
      BY <2>3 DEF TypeCommand
    <3> QED BY <1>1, <2>2, TypedIs
  <2>4. CASE TypeNumber(c)
    <3> PICK n \in Extras : MsgSend(c, [client[c].msg EXCEPT !.extra = n], "send_number")
      BY <2>4 DEF TypeNumber
    <3>1. [client[c].msg EXCEPT !.extra = n].data = client[c].msg.data
      BY <1>1 DEF ClientT, Ctl!Msgs
    <3>2. client[c].connected => Expects(next_state, client[c].msg.data)
      BY <2>4 DEF TypeNumber, Number
    <3> QED BY <1>1, <2>2, <3>1, <3>2, TypedIs
  <2> QED BY <1>3, <2>3, <2>4
<1>4. CASE SwitchOnCode(c)
  <2> DEFINE r == client[c]
  <2>1. /\ r.pc = "switch" /\ UNCHANGED <<ctlVars, ctl, cur>>
        /\ client'[c] = CASE r.rsp = "EXTRA"      -> [r EXCEPT !.pc = "ask", !.status = "ok"]
                          [] r.rsp = "DISCONNECT" -> Off
                          [] OTHER                -> Prompt(r)
    BY <1>1, <1>4 DEF SwitchOnCode
  <2>2. CASE r.rsp = "EXTRA"
    <3>1. client'[c] = [r EXCEPT !.pc = "ask", !.status = "ok"]
      BY <2>1, <2>2
    <3>2. /\ client'[c].pc = "ask" /\ client'[c].connected = client[c].connected
          /\ client'[c].msg = client[c].msg
      BY <1>1, <3>1 DEF ClientT
    <3> QED BY <2>1, <2>2, <3>2 DEF Number, Blocked, ctlVars
  <2>3. CASE r.rsp # "EXTRA"
    <3>1. client'[c] \in {Off, Prompt(r)}
      BY <2>1, <2>3
    <3>2. client'[c].pc \in {"prompt", "off"} /\ (client'[c].connected => client[c].connected)
      <4>1. Off.pc = "off" /\ Off.connected = FALSE
        BY DEF Off
      <4> QED BY <1>1, <3>1, <4>1, PromptType
    <3> QED BY <2>1, <3>2, NumberForgotten DEF Number
  <2> QED BY <2>2, <2>3
<1>5. CASE ClientDies(c)
  <2>1. client'[c] = Off
    BY <1>1, <1>5 DEF ClientDies
  <2> QED BY <2>1, FixedTypes, NumberForgotten
<1> QED BY <1>2, <1>3, <1>4, <1>5

LEMMA ReceiveNumber == ASSUME IInv, NEW c \in Clients, Clients = {c}, Number(c), Receive PROVE Number(c)'
<1>1. /\ ctl = "receive" /\ queue # <<>> /\ Head(queue) = c /\ Ctl!CallHandler(client[c].msg)
      /\ cur' = c /\ ctl' \in {"pulse", "reply"} /\ client' = client
  BY DEF Receive
<1>2. ControllerT /\ Ctl!Chamber /\ client[c].msg \in Ctl!Msgs /\ cur = NoClient
  BY <1>1, TypeParts DEF IInv, Idle, ClientT
<1>3. Handled(client[c].msg)
  BY <1>1, <1>2, HandlerIs
<1>4. Blocked(c) /\ cur # c
  BY <1>1, <1>2, HeadIs, SystemAssumption DEF IInv, Heard
<1>5. client[c].pc = "send_number" /\ client[c].msg.extra # 0 => code' = "OK"
  BY <1>3, <1>4 DEF Number, Handled
<1>6. code' = "EXTRA" => Expects(next_state', client[c].msg.data)
  BY <1>3 DEF Handled
<1> QED BY <1>1, <1>4, <1>5, <1>6 DEF Number, Blocked

LEMMA ReplyNumber == ASSUME IInv, NEW c \in Clients, Number(c), Reply PROVE Number(c)'
<1>1. /\ ctl' = "receive" /\ cur' = NoClient /\ UNCHANGED <<next_state, code>>
      /\ client'[c] = IF c = cur THEN Replied(client[c], code) ELSE client[c]
  BY DEF Reply, ctlVars
<1>2. NoClient # c
  BY SystemAssumption
<1>3. CASE c # cur
  BY <1>1, <1>2, <1>3, NumberStays
<1>4. CASE c = cur
  <2>1. client[c] \in ClientT /\ code \in RspCodes /\ Blocked(c)
    BY <1>4 DEF IInv, TypeOK, Heard
  <2> DEFINE s == client'[c]
  <2>2. /\ s.connected = client[c].connected /\ s.rsp = code
        /\ IF client[c].pc = "send_number" THEN s.pc = "prompt"
           ELSE s.pc = "switch" /\ s.msg = client[c].msg
    BY <1>1, <1>4, <2>1, RepliedType
  <2>3. CASE client[c].pc = "send_number"
    BY <1>1, <2>2, <2>3, NumberForgotten
  <2>4. CASE client[c].pc = "send"
    BY <1>1, <1>4, <2>2, <2>4 DEF Number, Blocked
  <2> QED BY <2>1, <2>3, <2>4 DEF Blocked
<1> QED BY <1>3, <1>4

LEMMA StepNumber == ASSUME IInv, NumberInv, [Next]_vars PROVE NumberInv'
<1> SUFFICES ASSUME NEW c \in Clients, Clients = {c} PROVE Number(c)'
  BY DEF NumberInv
<1>1. Number(c)
  BY DEF NumberInv
<1>2. CASE Receive \/ Reply
  BY <1>1, <1>2, ReceiveNumber, ReplyNumber
<1>3. CASE ReceivePulse
  <2>1. cur # c /\ cur' # c
    BY <1>3, SystemAssumption DEF ReceivePulse, IInv, Idle
  <2> QED BY <1>1, <1>3, <2>1, NumberStays DEF ReceivePulse
<1>4. CASE SendPulse \/ StrayPulse \/ Restart
  BY <1>1, <1>4, NumberStays DEF SendPulse, StrayPulse, Restart, ctlVars
<1>5. CASE Crash
  <2>1. client[c] \in ClientT
    BY DEF IInv, TypeOK
  <2> QED BY <1>5, <2>1, BereftType, NumberForgotten DEF Crash, Blocked
<1>6. CASE PrintLog \/ DisplayDies \/ DisplayStarts
  BY <1>1, <1>6, NumberStays DEF PrintLog, DisplayDies, DisplayStarts, ctlVars
<1>7. ASSUME NEW d \in Clients,
             Launch(d) \/ TypeCommand(d) \/ TypeNumber(d) \/ SwitchOnCode(d) \/ ClientDies(d)
      PROVE  Number(c)'
  BY <1>1, <1>7, ClientNumber
<1>8. CASE UNCHANGED vars
  BY <1>1, <1>8, NumberStays DEF vars, ctlVars
<1> QED BY <1>2, <1>3, <1>4, <1>5, <1>6, <1>7, <1>8 DEF Next, Controller

(* With one des_inputs running, a number other than zero given to an EXTRA  *)
(* prompt is accepted, across deaths and restarts of the controller and the *)
(* display (promptUser, state_start and state_opened).                      *)
THEOREM NumberIsAccepted == Spec => []NumberAccepted
<1>1. Init => NumberInv
  <2> SUFFICES ASSUME Init, NEW c \in Clients PROVE Number(c) BY DEF NumberInv
  <2>1. client[c] = Off
    BY DEF Init
  <2> QED BY <2>1, FixedTypes DEF Number, Blocked, Off
<1>2. IInv /\ NumberInv /\ [Next]_vars => NumberInv'
  BY StepNumber
<1>3. NumberInv => NumberAccepted
  BY DEF NumberInv, Number, NumberAccepted
<1> QED BY Invariance, <1>1, <1>2, <1>3, PTL DEF Spec

-----------------------------------------------------------------------------
(* The doors and guards a controller commands are the chamber of Airlock.   *)
LEMMA ChamberAtRest ==
  ASSUME next_state = "start", context = Ctl!FirstContext
  PROVE  Ctl!A!Init
  BY DEF Ctl!A!Init, Ctl!FirstContext, Ctl!SidesOf, Ctl!A!NoSide

LEMMA Unmoved ==
  ASSUME UNCHANGED <<next_state, context>>
  PROVE  UNCHANGED Ctl!A!avars
  BY DEF Ctl!A!avars

(* Every handler takes one step of the chamber or none.                     *)
LEMMA CommandMoves ==
  ASSUME ControllerT, Ctl!Chamber, NEW msg \in Ctl!Msgs, Ctl!CallHandler(msg)
  PROVE  Ctl!A!Next \/ UNCHANGED Ctl!A!avars
<1>a. Ctl!Chamber /\ Ctl!Chamber' BY HandlerIs DEF Handled
<1>b. ASSUME NEW expected, Ctl!Otherwise(msg, expected) PROVE UNCHANGED Ctl!A!avars
  BY <1>b, Unmoved DEF Ctl!Otherwise, Ctl!state_exit, Ctl!Answer
<1>c. ASSUME NEW c, Ctl!Answer(c) PROVE UNCHANGED Ctl!A!avars
  BY <1>c, Unmoved DEF Ctl!Answer
<1>1. CASE Ctl!state_start(msg)
  <2>1. CASE next_state' = "gll_alpha"
    <3>1. Ctl!A!Identify("left")
      BY <1>1, <2>1, <1>a DEF Ctl!state_start, Ctl!Chamber, Ctl!ChamberAt, Ctl!Position, Ctl!SidesOf,
         Ctl!Weighed, Ctl!Leaving, Ctl!A!Identify
    <3> QED BY <3>1 DEF Ctl!A!Next
  <2>2. CASE next_state' = "grl_alpha"
    <3>1. Ctl!A!Identify("right")
      BY <1>1, <2>2, <1>a DEF Ctl!state_start, Ctl!Chamber, Ctl!ChamberAt, Ctl!Position, Ctl!SidesOf,
         Ctl!Weighed, Ctl!Leaving, Ctl!A!Identify
    <3> QED BY <3>1 DEF Ctl!A!Next
  <2> QED BY <1>1, <1>b, <1>c, <2>1, <2>2 DEF Ctl!state_start, Ctl!Accept
<1>2. CASE Ctl!state_gll_alpha(msg)
  <2>1. CASE next_state' = "lc_alpha"
    <3>1. Ctl!A!Admit("left")
      BY <1>2, <2>1, <1>a DEF Ctl!state_gll_alpha, Ctl!Chamber, Ctl!ChamberAt, Ctl!Position, Ctl!SidesOf,
         Ctl!Weighed, Ctl!Leaving, Ctl!A!Admit
    <3> QED BY <3>1 DEF Ctl!A!Next
  <2> QED BY <1>2, <1>b, <2>1 DEF Ctl!state_gll_alpha, Ctl!Accept
<1>3. CASE Ctl!state_grl_alpha(msg)
  <2>1. CASE next_state' = "rc_alpha"
    <3>1. Ctl!A!Admit("right")
      BY <1>3, <2>1, <1>a DEF Ctl!state_grl_alpha, Ctl!Chamber, Ctl!ChamberAt, Ctl!Position, Ctl!SidesOf,
         Ctl!Weighed, Ctl!Leaving, Ctl!A!Admit
    <3> QED BY <3>1 DEF Ctl!A!Next
  <2> QED BY <1>3, <1>b, <2>1 DEF Ctl!state_grl_alpha, Ctl!Accept
<1>4. CASE Ctl!state_lc_alpha(msg)
  <2>1. CASE next_state' = "opened"
    <3>1. Ctl!Position(context, FALSE, FALSE, FALSE, TRUE)
      BY <1>4, <1>a DEF Ctl!state_lc_alpha, Ctl!Chamber, Ctl!ChamberAt
    <3>2. Ctl!Position(context', TRUE, FALSE, FALSE, TRUE)
      BY <1>4, <2>1, <3>1 DEF Ctl!state_lc_alpha, Ctl!Otherwise, Ctl!state_exit, Ctl!Answer, Ctl!Accept,
         Ctl!Position, ControllerT, Ctl!Contexts
    <3>3. Ctl!A!Open("left")
      BY <1>4, <2>1, <3>1, <3>2 DEF Ctl!state_lc_alpha, Ctl!Position, Ctl!SidesOf, Ctl!Weighed, Ctl!Leaving,
         Ctl!A!Open, Ctl!A!NoSide
    <3> QED BY <3>3 DEF Ctl!A!Next
  <2> QED BY <1>4, <1>b, <2>1 DEF Ctl!state_lc_alpha, Ctl!Accept
<1>5. CASE Ctl!state_rc_alpha(msg)
  <2>1. CASE next_state' = "opened"
    <3>1. Ctl!Position(context, FALSE, FALSE, TRUE, FALSE)
      BY <1>5, <1>a DEF Ctl!state_rc_alpha, Ctl!Chamber, Ctl!ChamberAt
    <3>2. Ctl!Position(context', FALSE, TRUE, TRUE, FALSE)
      BY <1>5, <2>1, <3>1 DEF Ctl!state_rc_alpha, Ctl!Otherwise, Ctl!state_exit, Ctl!Answer, Ctl!Accept,
         Ctl!Position, ControllerT, Ctl!Contexts
    <3>3. Ctl!A!Open("right")
      BY <1>5, <2>1, <3>1, <3>2 DEF Ctl!state_rc_alpha, Ctl!Position, Ctl!SidesOf, Ctl!Weighed, Ctl!Leaving,
         Ctl!A!Open, Ctl!A!NoSide
    <3> QED BY <3>3 DEF Ctl!A!Next
  <2> QED BY <1>5, <1>b, <2>1 DEF Ctl!state_rc_alpha, Ctl!Accept
<1>6. CASE Ctl!state_opened(msg)
  <2>1. CASE next_state' = "weight"
    <3>1. \A f \in Ctl!Actuators : context'[f] = context[f]
      BY <1>6, <2>1 DEF Ctl!state_opened, Ctl!Otherwise, Ctl!state_exit, Ctl!Answer, Ctl!Accept,
         ControllerT, Ctl!Contexts, Ctl!Actuators
    <3>2. context.left_door_open \/ context.right_door_open
      BY <1>6, <1>a DEF Ctl!state_opened, Ctl!Chamber, Ctl!ChamberAt, Ctl!Position
    <3>3. Ctl!A!Weigh
      BY <1>6, <2>1, <3>1, <3>2 DEF Ctl!state_opened, Ctl!Actuators, Ctl!SidesOf, Ctl!Weighed, Ctl!Leaving,
         Ctl!A!Weigh
    <3> QED BY <3>3 DEF Ctl!A!Next
  <2> QED BY <1>6, <1>b, <1>c, <2>1 DEF Ctl!state_opened, Ctl!Accept
<1>7. CASE Ctl!state_weight(msg)
  <2>1. CASE next_state' = "lc_beta"
    <3>1. context.left_door_open
      BY <1>7, <2>1 DEF Ctl!state_weight, Ctl!Otherwise, Ctl!state_exit, Ctl!Answer, Ctl!Accept
    <3>2. Ctl!Position(context, TRUE, FALSE, FALSE, TRUE)
      BY <1>7, <1>a, <3>1 DEF Ctl!state_weight, Ctl!Chamber, Ctl!ChamberAt, Ctl!Position
    <3>3. Ctl!Position(context', FALSE, FALSE, FALSE, TRUE)
      BY <2>1, <1>a DEF Ctl!Chamber, Ctl!ChamberAt
    <3>4. Ctl!A!Close("left")
      BY <1>7, <2>1, <3>2, <3>3 DEF Ctl!state_weight, Ctl!Position, Ctl!SidesOf, Ctl!Weighed, Ctl!Leaving,
         Ctl!A!Close
    <3> QED BY <3>4 DEF Ctl!A!Next
  <2>2. CASE next_state' = "rc_beta"
    <3>1. context.right_door_open
      BY <1>7, <2>2 DEF Ctl!state_weight, Ctl!Otherwise, Ctl!state_exit, Ctl!Answer, Ctl!Accept
    <3>2. Ctl!Position(context, FALSE, TRUE, TRUE, FALSE)
      BY <1>7, <1>a, <3>1 DEF Ctl!state_weight, Ctl!Chamber, Ctl!ChamberAt, Ctl!Position
    <3>3. Ctl!Position(context', FALSE, FALSE, TRUE, FALSE)
      BY <2>2, <1>a DEF Ctl!Chamber, Ctl!ChamberAt
    <3>4. Ctl!A!Close("right")
      BY <1>7, <2>2, <3>2, <3>3 DEF Ctl!state_weight, Ctl!Position, Ctl!SidesOf, Ctl!Weighed, Ctl!Leaving,
         Ctl!A!Close
    <3> QED BY <3>4 DEF Ctl!A!Next
  <2> QED BY <1>7, <1>b, <1>c, <2>1, <2>2 DEF Ctl!state_weight, Ctl!Otherwise, Ctl!state_exit, Ctl!Answer, Ctl!Accept
<1>8. CASE Ctl!state_lc_beta(msg)
  <2>1. CASE next_state' = "guard_locked"
    <3>1. Ctl!A!Lock("left")
      BY <1>8, <2>1, <1>a DEF Ctl!state_lc_beta, Ctl!Chamber, Ctl!ChamberAt, Ctl!Position, Ctl!SidesOf,
         Ctl!Weighed, Ctl!Leaving, Ctl!A!Lock
    <3> QED BY <3>1 DEF Ctl!A!Next
  <2> QED BY <1>8, <1>b, <2>1 DEF Ctl!state_lc_beta, Ctl!Accept
<1>9. CASE Ctl!state_rc_beta(msg)
  <2>1. CASE next_state' = "guard_locked"
    <3>1. Ctl!A!Lock("right")
      BY <1>9, <2>1, <1>a DEF Ctl!state_rc_beta, Ctl!Chamber, Ctl!ChamberAt, Ctl!Position, Ctl!SidesOf,
         Ctl!Weighed, Ctl!Leaving, Ctl!A!Lock
    <3> QED BY <3>1 DEF Ctl!A!Next
  <2> QED BY <1>9, <1>b, <2>1 DEF Ctl!state_rc_beta, Ctl!Accept
<1>10. CASE Ctl!state_guard_locked(msg)
  <2>1. CASE next_state' = "glu"
    <3>1. Ctl!A!Release("left")
      BY <1>10, <2>1, <1>a DEF Ctl!state_guard_locked, Ctl!Chamber, Ctl!ChamberAt, Ctl!Position, Ctl!SidesOf,
         Ctl!Weighed, Ctl!Leaving, Ctl!A!Release
    <3> QED BY <3>1 DEF Ctl!A!Next
  <2>2. CASE next_state' = "gru"
    <3>1. Ctl!A!Release("right")
      BY <1>10, <2>2, <1>a DEF Ctl!state_guard_locked, Ctl!Chamber, Ctl!ChamberAt, Ctl!Position, Ctl!SidesOf,
         Ctl!Weighed, Ctl!Leaving, Ctl!A!Release
    <3> QED BY <3>1 DEF Ctl!A!Next
  <2> QED BY <1>10, <1>b, <2>1, <2>2 DEF Ctl!state_guard_locked, Ctl!Accept
<1>11. CASE Ctl!state_glu(msg)
  <2>1. CASE next_state' = "lo"
    <3>1. Ctl!A!Open("left")
      BY <1>11, <2>1, <1>a DEF Ctl!state_glu, Ctl!Chamber, Ctl!ChamberAt, Ctl!Position, Ctl!SidesOf,
         Ctl!Weighed, Ctl!Leaving, Ctl!A!Open, Ctl!A!NoSide
    <3> QED BY <3>1 DEF Ctl!A!Next
  <2> QED BY <1>11, <1>b, <2>1 DEF Ctl!state_glu, Ctl!Accept
<1>12. CASE Ctl!state_gru(msg)
  <2>1. CASE next_state' = "ro"
    <3>1. Ctl!A!Open("right")
      BY <1>12, <2>1, <1>a DEF Ctl!state_gru, Ctl!Chamber, Ctl!ChamberAt, Ctl!Position, Ctl!SidesOf,
         Ctl!Weighed, Ctl!Leaving, Ctl!A!Open, Ctl!A!NoSide
    <3> QED BY <3>1 DEF Ctl!A!Next
  <2> QED BY <1>12, <1>b, <2>1 DEF Ctl!state_gru, Ctl!Accept
<1>13. CASE Ctl!state_lo(msg)
  <2>1. CASE next_state' = "lc_gamma"
    <3>1. Ctl!A!Close("left")
      BY <1>13, <2>1, <1>a DEF Ctl!state_lo, Ctl!Chamber, Ctl!ChamberAt, Ctl!Position, Ctl!SidesOf,
         Ctl!Weighed, Ctl!Leaving, Ctl!A!Close
    <3> QED BY <3>1 DEF Ctl!A!Next
  <2> QED BY <1>13, <1>b, <2>1 DEF Ctl!state_lo, Ctl!Accept
<1>14. CASE Ctl!state_ro(msg)
  <2>1. CASE next_state' = "rc_gamma"
    <3>1. Ctl!A!Close("right")
      BY <1>14, <2>1, <1>a DEF Ctl!state_ro, Ctl!Chamber, Ctl!ChamberAt, Ctl!Position, Ctl!SidesOf,
         Ctl!Weighed, Ctl!Leaving, Ctl!A!Close
    <3> QED BY <3>1 DEF Ctl!A!Next
  <2> QED BY <1>14, <1>b, <2>1 DEF Ctl!state_ro, Ctl!Accept
<1>15. CASE Ctl!state_lc_gamma(msg)
  <2>1. CASE next_state' = "start"
    <3>1. Ctl!A!Lock("left")
      BY <1>15, <2>1, <1>a DEF Ctl!state_lc_gamma, Ctl!Chamber, Ctl!ChamberAt, Ctl!Position, Ctl!SidesOf,
         Ctl!Weighed, Ctl!Leaving, Ctl!A!Lock
    <3> QED BY <3>1 DEF Ctl!A!Next
  <2> QED BY <1>15, <1>b, <2>1 DEF Ctl!state_lc_gamma, Ctl!get_first_state
<1>16. CASE Ctl!state_rc_gamma(msg)
  <2>1. CASE next_state' = "start"
    <3>1. Ctl!A!Lock("right")
      BY <1>16, <2>1, <1>a DEF Ctl!state_rc_gamma, Ctl!Chamber, Ctl!ChamberAt, Ctl!Position, Ctl!SidesOf,
         Ctl!Weighed, Ctl!Leaving, Ctl!A!Lock
    <3> QED BY <3>1 DEF Ctl!A!Next
  <2> QED BY <1>16, <1>b, <2>1 DEF Ctl!state_rc_gamma, Ctl!get_first_state
<1> QED
  BY <1>1, <1>2, <1>3, <1>4, <1>5, <1>6, <1>7, <1>8,
     <1>9, <1>10, <1>11, <1>12, <1>13, <1>14, <1>15, <1>16 DEF Ctl!CallHandler

(* Whoever sends the commands and whichever clients and pulses come between *)
(* them, the chamber takes its steps in order; only a controller's death    *)
(* puts it back to its start (Receive, Crash and Restart).                  *)
THEOREM ChamberBetweenDeaths == Spec => AirlockBetweenDeaths
<1>1. Init => Ctl!A!Init
  BY ChamberAtRest DEF Init, Ctl!Init
<1>2. IInv /\ [Next]_vars => [Ctl!A!Next \/ (ctl' = "dead" /\ Ctl!A!Init')]_(Ctl!A!avars)
  <2> SUFFICES ASSUME IInv, [Next]_vars
               PROVE  Ctl!A!Next \/ (ctl' = "dead" /\ Ctl!A!Init') \/ UNCHANGED Ctl!A!avars
    OBVIOUS
  <2>1. CASE Receive
    <3>1. /\ Ctl!CallHandler(client[Head(queue)].msg) /\ client[Head(queue)].msg \in Ctl!Msgs
          /\ ControllerT /\ Ctl!Chamber
      BY <2>1, TypeParts DEF Receive, IInv, TypeOK, ClientT
    <3> QED BY <3>1, CommandMoves
  <2>2. CASE Crash
    <3>1. next_state' = "start" /\ context' = Ctl!FirstContext /\ ctl' = "dead"
      BY <2>2 DEF Crash
    <3>2. Ctl!A!Init'
      BY <3>1 DEF Ctl!A!Init, Ctl!FirstContext, Ctl!SidesOf, Ctl!A!NoSide
    <3> QED BY <3>1, <3>2
  <2>3. CASE ReceivePulse \/ SendPulse \/ Reply \/ StrayPulse \/ Restart
    BY <2>3, Unmoved DEF ReceivePulse, SendPulse, Reply, StrayPulse, Restart, ctlVars
  <2>4. CASE PrintLog \/ DisplayDies \/ DisplayStarts \/ UNCHANGED vars
    BY <2>4, Unmoved DEF PrintLog, DisplayDies, DisplayStarts, vars, ctlVars
  <2>5. ASSUME NEW c \in Clients,
               Launch(c) \/ TypeCommand(c) \/ TypeNumber(c) \/ SwitchOnCode(c) \/ ClientDies(c)
        PROVE  UNCHANGED Ctl!A!avars
    BY <2>5, Unmoved DEF Launch, TypeCommand, TypeNumber, MsgSend, SwitchOnCode, ClientDies, ctlVars
  <2> QED BY <2>1, <2>2, <2>3, <2>4, <2>5 DEF Next, Controller
<1> QED BY Invariance, <1>1, <1>2, PTL DEF Spec, AirlockBetweenDeaths

(* The two doors are never open together, nor the two guards unlocked, in   *)
(* the composed system: whichever process dies, and whatever a new          *)
(* controller is sent first.                                                *)
THEOREM InterlockInSystem == Spec => []Ctl!Interlock
<1>1. IInv => Ctl!Interlock
  BY DEF IInv, TypeOK, Ctl!States, Ctl!Chamber, Ctl!ChamberAt, Ctl!Position, Ctl!Interlock
<1> QED BY Invariance, <1>1, PTL

-----------------------------------------------------------------------------
(* Places in the queue.                                                     *)
LEMMA PlaceIs ==
  ASSUME NEW q, NEW x, Once(q, x), NEW i \in DOMAIN q, q[i] = x
  PROVE  Place(q, x) = i
  BY DEF Place, Once, In

LEMMA PlaceExists ==
  ASSUME NEW S, NEW q \in Seq(S), NEW x, In(q, x)
  PROVE  Place(q, x) \in DOMAIN q /\ q[Place(q, x)] = x /\ Place(q, x) \in Nat \ {0}
<1>1. Place(q, x) \in DOMAIN q /\ q[Place(q, x)] = x
  BY DEF Place, In
<1>2. DOMAIN q = 1..Len(q) /\ Len(q) \in Nat
  BY LenProperties
<1> QED BY <1>1, <1>2

(* Who comes later goes to the end, ...                                     *)
LEMMA AppendPlace ==
  ASSUME NEW S, NEW q \in Seq(S), NEW x, NEW y \in S, x # y, In(q, x), Once(q, x)
  PROVE  Place(Append(q, y), x) = Place(q, x)
<1>1. Place(q, x) \in DOMAIN q /\ q[Place(q, x)] = x
  BY PlaceExists
<1>2. Place(q, x) \in DOMAIN Append(q, y) /\ Append(q, y)[Place(q, x)] = x
  BY <1>1, AppendIs
<1>3. Once(Append(q, y), x)
  BY AppendKeeps
<1> QED BY <1>2, <1>3, PlaceIs

(* ... all move up when the first is received, ...                          *)
LEMMA TailPlace ==
  ASSUME NEW S, NEW q \in Seq(S), NEW x, In(q, x), Once(q, x), Head(q) # x
  PROVE  In(Tail(q), x) /\ Place(Tail(q), x) = Place(q, x) - 1
<1> DEFINE p == Place(q, x)
           t == Tail(q)
           n == Len(q) - 1
<1>1. p \in DOMAIN q /\ q[p] = x /\ p \in Nat \ {0}
  BY PlaceExists
<1> HIDE DEF p
<1>2. q # <<>>
  BY <1>1
<1>3. n \in Nat /\ DOMAIN q = 1..(n + 1) /\ Head(q) = q[1]
  BY <1>2, LenProperties, EmptySeq
<1>4. t \in Seq(S) /\ Len(t) = n /\ \A i \in 1..n : t[i] = q[i + 1]
  BY <1>2, HeadTailProperties
<1>5. DOMAIN t = 1..n /\ Once(t, x)
  BY <1>2, <1>4, LenProperties, TailPlaces
<1> HIDE DEF t, n
<1>6. p # 1
  BY <1>1, <1>3
<1>7. p - 1 \in 1..n /\ (p - 1) + 1 = p
  BY <1>1, <1>3, <1>6
<1>8. p - 1 \in DOMAIN t /\ t[p - 1] = x
  BY <1>1, <1>4, <1>5, <1>7
<1>9. Place(t, x) = p - 1 /\ In(t, x)
  BY <1>5, <1>8, PlaceIs DEF In
<1> QED BY <1>9 DEF p, t

(* ... and those behind one that is killed move up, too.                    *)
LEMMA TakenBackPlace ==
  ASSUME NEW S, NEW q \in Seq(S), NEW c, NEW x, x # c, Once(q, c), In(q, x), Once(q, x)
  PROVE  Place(TakenBack(q, c), x) \in {Place(q, x), Place(q, x) - 1}
<1> DEFINE t == TakenBack(q, c)
           p == Place(q, x)
<1>1. p \in DOMAIN q /\ q[p] = x /\ p \in Nat \ {0}
  BY PlaceExists
<1>2. Once(t, x)
  BY TakenBackType
<1>3. CASE ~In(q, c)
  BY <1>3 DEF TakenBack
<1>4. CASE In(q, c)
  <2> DEFINE at == CHOOSE i \in DOMAIN q : q[i] = c
             n  == Len(q) - 1
  <2>1. at \in DOMAIN q /\ q[at] = c
    BY <1>4 DEF In
  <2>2. t = [i \in 1..n |-> IF i < at THEN q[i] ELSE q[i + 1]]
    BY <1>4 DEF TakenBack
  <2>3. DOMAIN q = 1..Len(q) /\ Len(q) \in Nat
    BY LenProperties
  <2> HIDE DEF at, t, p
  <2>4. n \in Nat /\ at \in 1..(n + 1) /\ p \in 1..(n + 1) /\ p # at
    BY <1>1, <2>1, <2>3
  <2> HIDE DEF n
  <2>5. CASE p < at
    <3>1. p \in 1..n
      BY <2>4, <2>5
    <3>2. p \in DOMAIN t /\ t[p] = x
      BY <1>1, <2>2, <2>5, <3>1
    <3> QED BY <1>2, <3>2, PlaceIs DEF t, p
  <2>6. CASE p > at
    <3>1. p - 1 \in 1..n /\ ~(p - 1 < at) /\ (p - 1) + 1 = p
      BY <2>4, <2>6
    <3>2. p - 1 \in DOMAIN t /\ t[p - 1] = x
      BY <1>1, <2>2, <3>1
    <3>3. Place(t, x) = p - 1
      BY <1>2, <3>2, PlaceIs
    <3> QED BY <3>3 DEF t, p
  <2> QED BY <2>4, <2>5, <2>6
<1> QED BY <1>3, <1>4

-----------------------------------------------------------------------------
(* How far a blocked client is from its reply.                              *)
LEMMA LeftType ==
  ASSUME IInv, NEW c \in Clients, Blocked(c)
  PROVE  /\ ctl \in {"receive", "reply", "pulse", "dead"}
         /\ Due = (IF ctl = "receive" THEN 0 ELSE IF ctl = "reply" THEN 1 ELSE 2)
         /\ cur = c => Left(c) = Due /\ ctl \in {"reply", "pulse"}
         /\ cur # c => /\ In(queue, c) /\ Once(queue, c) /\ queue \in Seq(Others)
                       /\ Place(queue, c) \in Nat \ {0} /\ Left(c) = Due + 3 * Place(queue, c)
<1>1. ctl \in {"receive", "reply", "pulse", "dead"} /\ queue \in Seq(Others) /\ Heard(c)
  BY DEF IInv, TypeOK, Others
<1>2. Due = (IF ctl = "receive" THEN 0 ELSE IF ctl = "reply" THEN 1 ELSE 2)
  BY DEF Due
<1>3. cur = c => Left(c) = Due /\ ctl \in {"reply", "pulse"}
  <2>1. cur = c => ctl \in {"reply", "pulse"}
    BY <1>1, SystemAssumption DEF IInv, Idle
  <2> QED BY <1>2, <2>1 DEF Left
<1>4. cur # c => In(queue, c) /\ Once(queue, c)
  BY <1>1 DEF Heard
<1>5. cur # c => Place(queue, c) \in Nat \ {0}
  BY <1>1, <1>4, PlaceExists
<1>6. cur # c => Left(c) = Due + 3 * Place(queue, c)
  BY DEF Left
<1> QED BY <1>1, <1>2, <1>3, <1>4, <1>5, <1>6

(* What another client does to the queue moves nobody back.                 *)
LEMMA OtherMovesUp ==
  ASSUME IInv, IInv', NEW c \in Clients, Blocked(c), Blocked(c)', ctl' = ctl, cur = c => cur' = c,
         cur # c => cur' # c /\ Place(queue, c)' \in {Place(queue, c), Place(queue, c) - 1}
  PROVE  Left(c)' <= Left(c)
<1>1. Due' = Due /\ Due \in 0..2
  BY DEF Due
<1>2. CASE cur = c
  BY <1>1, <1>2 DEF Left
<1>3. CASE cur # c
  <2> DEFINE p == Place(queue, c)
  <2>1. p \in Nat \ {0}
    BY <1>3, LeftType
  <2>2. Left(c) = Due + 3 * p /\ Left(c)' = Due + 3 * p'
    BY <1>1, <1>3 DEF Left
  <2>3. p' = p \/ p' = p - 1
    BY <1>3
  <2> HIDE DEF p
  <2>4. CASE p' = p
    BY <1>1, <2>1, <2>2, <2>4
  <2>5. CASE p' = p - 1
    BY <1>1, <2>1, <2>2, <2>5
  <2> QED BY <2>3, <2>4, <2>5
<1> QED BY <1>2, <1>3

LEMMA ControllerMovesUp ==
  ASSUME IInv, IInv', NEW c \in Clients, Blocked(c), Blocked(c)', Controller
  PROVE  Left(c)' < Left(c)
<1> DEFINE p == Place(queue, c)
<1>1. /\ Due = (IF ctl = "receive" THEN 0 ELSE IF ctl = "reply" THEN 1 ELSE 2)
      /\ Due' = (IF ctl' = "receive" THEN 0 ELSE IF ctl' = "reply" THEN 1 ELSE 2)
  BY DEF Due
<1>2. /\ Left(c) = Due + (IF cur = c THEN 0 ELSE 3 * p)
      /\ Left(c)' = Due' + (IF cur' = c THEN 0 ELSE 3 * p')
  BY DEF Left
<1>3. /\ cur = c => ctl \in {"reply", "pulse"}
      /\ cur # c => In(queue, c) /\ Once(queue, c) /\ queue \in Seq(Others) /\ p \in Nat \ {0}
  BY LeftType
<1>4. c # NoClient /\ c # Pulse
  BY SystemAssumption
<1>5. CASE Receive \/ ReceivePulse
  <2>1. /\ ctl = "receive" /\ queue' = Tail(queue) /\ ctl' \in {"reply", "pulse"} /\ cur # c
        /\ cur' = (IF Head(queue) \in Clients THEN Head(queue) ELSE NoClient)
        /\ Head(queue) \in Clients \/ Head(queue) = Pulse
        /\ Head(queue) \notin Clients => ctl' = "reply"
    BY <1>3, <1>5, SystemAssumption DEF Receive, ReceivePulse
  <2>2. CASE Head(queue) = c
    <3>1. cur' = c
      BY <2>1, <2>2
    <3> HIDE DEF p
    <3> QED BY <1>1, <1>2, <1>3, <2>1, <3>1
  <2>3. CASE Head(queue) # c
    <3>1. p' = p - 1 /\ cur' # c
      BY <1>3, <1>4, <2>1, <2>3, TailPlace
    <3> HIDE DEF p
    <3> QED BY <1>1, <1>2, <1>3, <2>1, <3>1
  <2> QED BY <2>2, <2>3
<1>6. CASE SendPulse
  <2>1. ctl = "pulse" /\ ctl' = "reply" /\ cur' = cur /\ p' = p
    BY <1>6 DEF SendPulse
  <2> HIDE DEF p
  <2> QED BY <1>1, <1>2, <1>3, <2>1
<1>7. CASE Reply
  <2>1. ctl = "reply" /\ ctl' = "receive" /\ cur' = NoClient /\ p' = p
    BY <1>7 DEF Reply
  <2>2. cur # c
    <3>1. ASSUME cur = c PROVE ~Blocked(c)'
      <4>1. client'[c] = Replied(client[c], code) /\ client[c] \in ClientT /\ code \in RspCodes
        BY <1>7, <3>1 DEF Reply, IInv, TypeOK
      <4>2. client'[c].pc \in {"prompt", "switch"}
        BY <4>1, RepliedType
      <4> QED BY <4>2 DEF Blocked
    <3> QED BY <3>1
  <2> HIDE DEF p
  <2> QED BY <1>1, <1>2, <1>3, <1>4, <2>1, <2>2
<1> QED BY <1>5, <1>6, <1>7 DEF Controller

LEMMA StepMovesUp ==
  ASSUME IInv, IInv', [Next]_vars, NEW c \in Clients, Blocked(c), Blocked(c)'
  PROVE  Left(c)' <= Left(c) /\ (Controller => Left(c)' < Left(c))
<1>1. Left(c) \in Int /\ Left(c)' \in Int
  <2>1. Due \in Int /\ Due' \in Int
    BY DEF Due
  <2>2. /\ cur # c => Place(queue, c) \in Nat
        /\ cur' # c => Place(queue, c)' \in Nat
    <3>1. Heard(c) /\ Heard(c)' /\ queue \in Seq(Others) /\ queue' \in Seq(Others)
      BY DEF IInv, TypeOK, Others
    <3> QED BY <3>1, PlaceExists DEF Heard
  <2> QED BY <2>1, <2>2 DEF Left
<1>2. CASE Controller
  BY <1>1, <1>2, ControllerMovesUp
<1>3. ASSUME ~Controller PROVE Left(c)' <= Left(c)
  <2>0. cur # c => In(queue, c) /\ Once(queue, c) /\ queue \in Seq(Others)
    BY LeftType
  <2>1. CASE StrayPulse
    <3>1. ctl' = ctl /\ cur' = cur /\ queue' = Append(queue, Pulse)
      BY <2>1 DEF StrayPulse
    <3>2. c # Pulse /\ Pulse \in Others
      BY SystemAssumption DEF Others
    <3> QED BY <2>0, <3>1, <3>2, AppendPlace, OtherMovesUp
  <2>2. CASE Crash
    <3>1. client[c] \in ClientT
      BY DEF IInv, TypeOK
    <3>2. ~Blocked(c)'
      BY <2>2, <3>1, BereftType DEF Crash, Blocked
    <3> QED BY <3>2
  <2>3. CASE Restart
    <3>1. ctl = "dead" /\ ctl' = "receive" /\ cur' = cur /\ queue' = queue
      BY <2>3 DEF Restart
    <3>2. cur # c /\ Due = 2 /\ Due' = 0 /\ Place(queue, c) \in Nat
      BY <3>1, LeftType DEF Due
    <3>3. Left(c) = 2 + 3 * Place(queue, c) /\ Left(c)' = 0 + 3 * Place(queue, c)
      BY <3>1, <3>2 DEF Left
    <3> QED BY <3>2, <3>3
  <2>4. CASE PrintLog \/ DisplayDies \/ DisplayStarts \/ UNCHANGED vars
    <3>1. ctl' = ctl /\ cur' = cur /\ queue' = queue
      BY <2>4 DEF PrintLog, DisplayDies, DisplayStarts, vars
    <3> QED BY <3>1, OtherMovesUp
  <2>5. ASSUME NEW d \in Clients, Launch(d) \/ SwitchOnCode(d) PROVE Left(c)' <= Left(c)
    <3>1. ctl' = ctl /\ cur' = cur /\ queue' = queue
      BY <2>5 DEF Launch, SwitchOnCode
    <3> QED BY <3>1, OtherMovesUp
  <2>6. ASSUME NEW d \in Clients, TypeCommand(d) \/ TypeNumber(d) PROVE Left(c)' <= Left(c)
    <3>1. ctl' = ctl /\ cur' = cur /\ (queue' = queue \/ queue' = Append(queue, d))
      BY <2>6 DEF TypeCommand, TypeNumber, MsgSend
    <3>2. d # c /\ d \in Others
      BY <2>6 DEF TypeCommand, TypeNumber, Blocked, Others
    <3>3. ASSUME cur # c PROVE Place(queue, c)' = Place(queue, c)
      <4>1. CASE queue' = queue
        BY <4>1
      <4>2. CASE queue' = Append(queue, d)
        <5>1. Place(Append(queue, d), c) = Place(queue, c)
          BY <2>0, <3>2, <3>3, AppendPlace
        <5> QED BY <4>2, <5>1
      <4> QED BY <3>1, <4>1, <4>2
    <3> QED BY <3>1, <3>3, OtherMovesUp
  <2>7. ASSUME NEW d \in Clients, ClientDies(d) PROVE Left(c)' <= Left(c)
    <3>1. /\ ctl' = ctl /\ queue' = TakenBack(queue, d) /\ client' = [client EXCEPT ![d] = Off]
          /\ cur' = IF cur = d THEN NoClient ELSE cur
      BY <2>7 DEF ClientDies
    <3>2. d # c
      <4>1. ASSUME d = c PROVE client'[c] = Off
        BY <3>1, <4>1 DEF IInv, TypeOK
      <4> QED BY <4>1, FixedTypes DEF Blocked
    <3>3. c # NoClient /\ Once(queue, d)
      BY SystemAssumption DEF IInv, Heard
    <3> QED BY <2>0, <3>1, <3>2, <3>3, TakenBackPlace, OtherMovesUp
  <2> QED BY <1>3, <2>1, <2>2, <2>3, <2>4, <2>5, <2>6, <2>7 DEF Next
<1> QED BY <1>1, <1>2, <1>3, ControllerMovesUp

(* Nobody is overtaken: no step moves a blocked client away from its reply, *)
(* and every step of the controller moves it nearer (the loop of            *)
(* des_controller and the order of its channel).                            *)
THEOREM NobodyOvertaken == Spec => BlockedMovesUp
<1> DEFINE Up == \A c \in Clients : Blocked(c) /\ Blocked(c)' =>
                   Left(c)' <= Left(c) /\ (Controller => Left(c)' < Left(c))
<1>1. IInv /\ IInv' /\ [Next]_vars => [Up]_vars
  BY StepMovesUp
<1> QED BY Invariance, <1>1, PTL DEF Spec, BlockedMovesUp

-----------------------------------------------------------------------------
(* What a blocked client waits for can happen: its controller lives, has    *)
(* something to receive when it receives, and the display makes room when   *)
(* its channel is full.                                                     *)
Attended ==
  \A c \in Clients : Blocked(c) =>
    /\ ctl # "dead"
    /\ ctl = "receive" => queue # <<>> /\ Head(queue) \in Clients \cup {Pulse}
    /\ ctl = "pulse" => (linked => pulses < MaxPulses) \/ (disp = "up" /\ pulses > 0)

(* A connection is to a controller that lives, and a link to a display.     *)
Joined(c) == (client[c].connected => ctl # "dead") /\ (Blocked(c) => client[c].connected)

Links == (linked => disp = "up") /\ (pulses > 0 => disp = "up")

LEMMA JoinedStays ==
  ASSUME NEW c \in Clients, Joined(c), client'[c] = client[c], ctl' = "dead" => ctl = "dead"
  PROVE  Joined(c)'
  BY DEF Joined, Blocked

LEMMA ClientJoined ==
  ASSUME IInv, NEW c \in Clients, Joined(c),
         Launch(c) \/ TypeCommand(c) \/ TypeNumber(c) \/ SwitchOnCode(c) \/ ClientDies(c)
  PROVE  Joined(c)'
<1>1. client \in [Clients -> ClientT] /\ client[c] \in ClientT
  BY DEF IInv, TypeOK
<1>2. CASE Launch(c)
  <2> DEFINE p == Prompt(Off)
  <2>1. p \in ClientT /\ p.pc = "prompt"
    BY PromptType, FixedTypes
  <2>2. client'[c] = [p EXCEPT !.connected = TRUE] /\ ctl' # "dead"
    BY <1>1, <1>2 DEF Launch
  <2> HIDE DEF p
  <2>3. client'[c].pc = "prompt"
    BY <2>1, <2>2 DEF ClientT
  <2> QED BY <2>2, <2>3 DEF Joined, Blocked
<1>3. ASSUME NEW m \in Ctl!Msgs, NEW pc \in {"send", "send_number"}, MsgSend(c, m, pc) PROVE Joined(c)'
  <2>1. /\ ctl' = ctl /\ client'[c].connected = client[c].connected
        /\ ~client[c].connected => client'[c].pc \in {"prompt", "switch"}
    BY <1>1, <1>3, SendIs
  <2> QED BY <2>1 DEF Joined, Blocked
<1>4. CASE TypeCommand(c)
  <2> PICK d \in Typed : MsgSend(c, [data |-> d, extra |-> 0], "send")
    BY <1>4 DEF TypeCommand
  <2> QED BY <1>1, <1>3, TypedIs
<1>5. CASE TypeNumber(c)
  <2> PICK n \in Extras : MsgSend(c, [client[c].msg EXCEPT !.extra = n], "send_number")
    BY <1>5 DEF TypeNumber
  <2> QED BY <1>1, <1>3, TypedIs
<1>6. CASE SwitchOnCode(c)
  <2> DEFINE r == client[c]
  <2>1. /\ ctl' = ctl
        /\ client'[c] \in {[r EXCEPT !.pc = "ask", !.status = "ok"], Off, Prompt(r)}
    BY <1>1, <1>6 DEF SwitchOnCode
  <2>2. LET s == [r EXCEPT !.pc = "ask", !.status = "ok"] IN s.pc = "ask" /\ s.connected = r.connected
    BY <1>1 DEF ClientT
  <2>3. client'[c].pc \in {"ask", "off", "prompt"} /\ (client'[c].connected => client[c].connected)
    <3>1. Off.pc = "off" /\ Off.connected = FALSE
      BY DEF Off
    <3> QED BY <1>1, <2>1, <2>2, <3>1, PromptType
  <2> QED BY <2>1, <2>3 DEF Joined, Blocked
<1>7. CASE ClientDies(c)
  <2>1. client'[c] = Off
    BY <1>1, <1>7 DEF ClientDies
  <2> QED BY <2>1, FixedTypes DEF Joined, Blocked
<1> QED BY <1>2, <1>4, <1>5, <1>6, <1>7

LEMMA StepJoined == ASSUME IInv, NEW c \in Clients, Joined(c), [Next]_vars PROVE Joined(c)'
<1>1. CASE Receive \/ ReceivePulse \/ SendPulse
  BY <1>1, JoinedStays DEF Receive, ReceivePulse, SendPulse
<1>2. CASE Reply
  <2>1. /\ ctl' = "receive" /\ client[c] \in ClientT /\ code \in RspCodes
        /\ client'[c] = IF c = cur THEN Replied(client[c], code) ELSE client[c]
    BY <1>2 DEF Reply, IInv, TypeOK
  <2>2. client'[c].connected = client[c].connected /\ (Blocked(c)' => Blocked(c))
    BY <2>1, RepliedType DEF Blocked
  <2> QED BY <2>1, <2>2 DEF Joined
<1>3. CASE StrayPulse \/ Restart
  BY <1>3, JoinedStays DEF StrayPulse, Restart
<1>4. CASE Crash
  <2>1. client[c] \in ClientT
    BY DEF IInv, TypeOK
  <2>2. client'[c].connected = FALSE /\ ~Blocked(c)'
    BY <1>4, <2>1, BereftType DEF Crash, Blocked
  <2> QED BY <2>2 DEF Joined
<1>5. CASE PrintLog \/ DisplayDies \/ DisplayStarts \/ UNCHANGED vars
  BY <1>5, JoinedStays DEF PrintLog, DisplayDies, DisplayStarts, vars
<1>6. ASSUME NEW d \in Clients,
             Launch(d) \/ TypeCommand(d) \/ TypeNumber(d) \/ SwitchOnCode(d) \/ ClientDies(d)
      PROVE  Joined(c)'
  <2>1. CASE d = c
    BY <1>6, <2>1, ClientJoined
  <2>2. CASE d # c
    <3>1. ctl' = ctl /\ client'[c] = client[c]
      BY <1>6, <2>2 DEF Launch, TypeCommand, TypeNumber, MsgSend, SwitchOnCode, ClientDies, IInv, TypeOK
    <3> QED BY <3>1, JoinedStays
  <2> QED BY <2>1, <2>2
<1> QED BY <1>1, <1>2, <1>3, <1>4, <1>5, <1>6 DEF Next, Controller

LEMMA StepLinks == ASSUME IInv, Links, [Next]_vars PROVE Links'
<1>1. CASE Receive \/ ReceivePulse \/ Reply \/ StrayPulse
  BY <1>1 DEF Receive, ReceivePulse, Reply, StrayPulse, dispVars, Links
<1>2. CASE SendPulse \/ Crash \/ Restart \/ PrintLog \/ DisplayDies \/ DisplayStarts
  BY <1>2 DEF SendPulse, Crash, Restart, PrintLog, DisplayDies, DisplayStarts, Links, IInv, TypeOK
<1>3. ASSUME NEW c \in Clients,
             Launch(c) \/ TypeCommand(c) \/ TypeNumber(c) \/ SwitchOnCode(c) \/ ClientDies(c)
      PROVE  Links'
  <2>1. UNCHANGED dispVars
    BY <1>3 DEF Launch, TypeCommand, TypeNumber, MsgSend, SwitchOnCode, ClientDies
  <2> QED BY <2>1 DEF dispVars, Links
<1>4. CASE UNCHANGED vars
  BY <1>4 DEF vars, dispVars, Links
<1> QED BY <1>1, <1>2, <1>3, <1>4 DEF Next, Controller

(* A blocked client is never stuck: the next step of NobodyOvertaken's      *)
(* count has its messages and its peer.                                     *)
THEOREM BlockedIsAttended == Spec => []Attended
<1> DEFINE JInv == Links /\ \A c \in Clients : Joined(c)
<1>1. Init => JInv
  <2> SUFFICES ASSUME Init PROVE Links /\ \A c \in Clients : Joined(c) OBVIOUS
  <2>1. Links
    BY DEF Init, Links
  <2>2. ASSUME NEW c \in Clients PROVE Joined(c)
    <3>1. client[c] = Off /\ ctl = "receive"
      BY DEF Init
    <3> QED BY <3>1, FixedTypes DEF Joined, Blocked
  <2> QED BY <2>1, <2>2
<1>2. IInv /\ JInv /\ [Next]_vars => JInv'
  BY StepJoined, StepLinks
<1>3. IInv /\ JInv => Attended
  <2> SUFFICES ASSUME IInv, JInv, NEW c \in Clients, Blocked(c)
               PROVE  /\ ctl # "dead"
                      /\ ctl = "receive" => queue # <<>> /\ Head(queue) \in Clients \cup {Pulse}
                      /\ ctl = "pulse" => (linked => pulses < MaxPulses) \/ (disp = "up" /\ pulses > 0)
    BY DEF Attended
  <2>1. Joined(c) /\ Links /\ Heard(c)
    BY DEF IInv
  <2>2. ctl # "dead"
    BY <2>1 DEF Joined
  <2>3. ASSUME ctl = "receive" PROVE queue # <<>> /\ Head(queue) \in Clients \cup {Pulse}
    <3>1. In(queue, c)
      BY <2>1, <2>3, SystemAssumption DEF IInv, Idle, Heard
    <3>2. queue # <<>>
      BY <3>1 DEF In
    <3> QED BY <3>2, HeadIs DEF Others
  <2>4. (linked => pulses < MaxPulses) \/ (disp = "up" /\ pulses > 0)
    BY <2>1, SystemAssumption DEF Links, IInv, TypeOK
  <2> QED BY <2>2, <2>3, <2>4
<1> QED BY Invariance, <1>1, <1>2, <1>3, PTL DEF Spec
=============================================================================
