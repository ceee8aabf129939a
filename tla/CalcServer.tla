------------------------------ MODULE CalcServer ------------------------------
(***************************************************************************)
(* lab5: calc_server, which answers messages on a channel whose id it puts  *)
(* into shared memory, and calc_client processes that are given its pid and *)
(* one calculation on their command line.                                   *)
(*                                                                          *)
(* A text is what strtol makes of it, val, and its length, chars.  Answers  *)
(* are fractions: the doubles of the code are exact for sums and products   *)
(* in range, and a quotient's rounding is not modelled, nor %.2f.  Messages *)
(* of equal priority wait in the order they came.                           *)
(***************************************************************************)
EXTENDS Integers, Sequences, Queues

CONSTANTS
  Servers,      (* server processes; a pid is not used again                *)
  Clients,
  INT_MAX,
  OPND_LEN,     (* of an operand's buffer, its NUL counted                  *)
  Operands,     (* texts typed as operands                                  *)
  Operators,    (* operators of one character                               *)
  MaxPulses     (* bound: pulses waiting at a server                        *)

INT_MIN == -INT_MAX - 1
UINT_MOD == 2 * (INT_MAX + 1)

Pulse  == "pulse"
Nobody == "nobody"

ASSUME CalcAssumption ==
  /\ INT_MAX \in Nat \ {0} /\ OPND_LEN \in Nat \ {0} /\ MaxPulses \in Nat
  /\ \A t \in Operands : t.val \in Int /\ t.chars \in Nat
  /\ Pulse \notin Clients /\ Nobody \notin Clients /\ Nobody \notin Servers

VARIABLES
  shm,      (* the channel id in the shared memory, or Nothing              *)
  srv,      (* each server: where it is, whom it serves, its local rsp      *)
  queue,    (* clients and pulses that wait on each server's channel        *)
  client

vars == <<shm, srv, queue, client>>

-----------------------------------------------------------------------------
CHID    == 1              (* a process's first channel *)
Nothing == 0              (* as shm: nothing written; as a chid read: not CHID *)
Long    == "long operator"
Junk    == <<0, 0>>

Msgs == [left_hand : INT_MIN..INT_MAX, operator : Operators, right_hand : INT_MIN..INT_MAX]

Calculation(l, o, r) == [left_hand |-> l, operator |-> o, right_hand |-> r]
NoMsg == Calculation(0, "none", 0)
NoRsp == [statusCode |-> "any", answer |-> Junk, errorMsg |-> NoMsg]

-----------------------------------------------------------------------------
(* calculate *)

(* The exact result as <<numerator, positive denominator>>.                 *)
result(m) ==
  LET l == m.left_hand
      r == m.right_hand
  IN CASE m.operator = "+" -> <<l + r, 1>>
       [] m.operator = "-" -> <<l - r, 1>>
       [] m.operator = "x" -> <<l * r, 1>>
       [] m.operator = "/" -> IF r > 0 THEN <<l, r>> ELSE <<-l, -r>>

OutOfRange(q) == q[1] < INT_MIN * q[2] \/ q[1] > INT_MAX * q[2]

fail(rsp, code, m) == [statusCode |-> code, answer |-> rsp.answer, errorMsg |-> m]
succeed(rsp, m)    == [statusCode |-> "OK", answer |-> result(m), errorMsg |-> rsp.errorMsg]

(* A slip: a quotient's status is left as it was.                           *)
calculate_stale(m, rsp) ==
  IF m.operator \notin {"+", "-", "x", "/"} THEN fail(rsp, "INVALID_OPERATOR", m)
  ELSE IF m.operator = "/" /\ m.right_hand = 0 THEN fail(rsp, "UNDEFINED", m)
  ELSE IF OutOfRange(result(m)) THEN fail(rsp, "OVERFLOW", m)
  ELSE IF m.operator = "/" THEN [rsp EXCEPT !.answer = result(m)]
  ELSE succeed(rsp, m)

(* A slip: quotients are taken to be in range.                              *)
calculate_quotient(m, rsp) ==
  IF m.operator \notin {"+", "-", "x", "/"} THEN fail(rsp, "INVALID_OPERATOR", m)
  ELSE IF m.operator = "/" /\ m.right_hand = 0 THEN fail(rsp, "UNDEFINED", m)
  ELSE IF m.operator # "/" /\ OutOfRange(result(m)) THEN fail(rsp, "OVERFLOW", m)
  ELSE succeed(rsp, m)

(* What it does not set of rsp is left from the message before.             *)
calculate(m, rsp) ==
  IF m.operator \notin {"+", "-", "x", "/"} THEN fail(rsp, "INVALID_OPERATOR", m)
  ELSE IF m.operator = "/" /\ m.right_hand = 0 THEN fail(rsp, "UNDEFINED", m)
  ELSE IF OutOfRange(result(m)) THEN fail(rsp, "OVERFLOW", m)
  ELSE succeed(rsp, m)

-----------------------------------------------------------------------------
(* calc_server: main *)

Up(s) == srv[s].pc \in {"create", "store", "receive", "reply"}

ChannelCreate(s) ==
  /\ srv[s].pc = "create" /\ srv' = [srv EXCEPT ![s].pc = "store"]
  /\ UNCHANGED <<shm, queue, client>>

(* A slip: the id is not written.                                           *)
SizeOnly(s) ==
  /\ srv[s].pc = "store" /\ srv' = [srv EXCEPT ![s].pc = "receive"]
  /\ UNCHANGED <<shm, queue, client>>

StoreChid(s) ==
  /\ srv[s].pc = "store" /\ srv' = [srv EXCEPT ![s].pc = "receive"]
  /\ shm' = CHID
  /\ UNCHANGED <<queue, client>>

Receive(s) ==
  /\ srv[s].pc = "receive" /\ queue[s] # <<>>
  /\ LET from == Head(queue[s])
     IN srv' = [srv EXCEPT ![s].pc = "reply", ![s].rcvid = from,
                           ![s].rsp = IF from = Pulse THEN @
                                      ELSE calculate(client[from].msg, @)]
  /\ queue' = [queue EXCEPT ![s] = Tail(@)]
  /\ UNCHANGED <<shm, client>>

Off == [pc |-> "off", msg |-> NoMsg, pid |-> Nobody, ready |-> FALSE, chid |-> Nothing,
        rsp |-> NoRsp, typed |-> NoMsg,
        out |-> [says |-> "none", calc |-> NoMsg, answer |-> Junk]]

Failed(c) == [Off EXCEPT !.pc = "failed", !.pid = client[c].pid, !.ready = client[c].ready]

(* The channel goes with the process; who is blocked on it is told so.      *)
Ends(s, how) ==
  /\ srv' = [srv EXCEPT ![s] = [pc |-> how, rcvid |-> Nobody, rsp |-> NoRsp]]
  /\ queue' = [queue EXCEPT ![s] = <<>>]
  /\ client' = [c \in Clients |->
       IF client[c].pc = "blocked" /\ client[c].pid = s THEN Failed(c) ELSE client[c]]
  /\ UNCHANGED shm

(* A slip: errors are not replied.                                          *)
ReplyIfOK(s) ==
  /\ srv[s].pc = "reply" /\ srv[s].rcvid \notin {Pulse, Nobody}
  /\ srv' = [srv EXCEPT ![s].pc = "receive", ![s].rcvid = Nobody]
  /\ client' = IF srv[s].rsp.statusCode # "OK" THEN client
               ELSE [client EXCEPT ![srv[s].rcvid].pc = "answered",
                                   ![srv[s].rcvid].rsp = srv[s].rsp]
  /\ UNCHANGED <<shm, queue>>

MsgReply(s) ==
  /\ srv[s].pc = "reply" /\ srv[s].rcvid \notin {Pulse, Nobody}
  /\ srv' = [srv EXCEPT ![s].pc = "receive", ![s].rcvid = Nobody]
  /\ client' = [client EXCEPT ![srv[s].rcvid].pc = "answered",
                              ![srv[s].rcvid].rsp = srv[s].rsp]
  /\ UNCHANGED <<shm, queue>>

(* A slip: a reply that fails is tried again.                               *)
ReplyRetried(s) ==
  /\ srv[s].pc = "reply" /\ srv[s].rcvid \in {Pulse, Nobody}
  /\ UNCHANGED vars

(* Receive id 0 of a pulse cannot be replied to, nor that of a client which *)
(* has gone; the server exits.                                              *)
ReplyFails(s) ==
  /\ srv[s].pc = "reply" /\ srv[s].rcvid \in {Pulse, Nobody}
  /\ Ends(s, "failed")

-----------------------------------------------------------------------------
(* calc_client *)

(* (int) of a long *)
ToInt(n) == ((n - INT_MIN) % UINT_MOD) + INT_MIN

Accepts(t) == t.chars < OPND_LEN /\ t.val \in INT_MIN..INT_MAX

(* process_args; ready is history, whether the server was up by then.       *)
StartClient(c) ==
  /\ client[c].pc \in {"off", "refused", "failed", "ended"}
  /\ \E pid \in Servers \cup {Nobody}, t1 \in Operands, t2 \in Operands,
        o \in Operators \cup {Long} :
       LET typed == Calculation(t1.val, o, t2.val)
       IN client' = [client EXCEPT ![c] =
            IF Accepts(t1) /\ Accepts(t2) /\ o # Long
            THEN [Off EXCEPT !.pc = "shm", !.pid = pid, !.typed = typed,
                             !.msg = Calculation(ToInt(t1.val), o, ToInt(t2.val)),
                             !.ready = pid # Nobody /\ srv[pid].pc \in {"receive", "reply"}]
            ELSE [Off EXCEPT !.pc = "refused", !.typed = typed]]
  /\ UNCHANGED <<shm, srv, queue>>

(* Nothing to read leaves chid as it is, and it is any number then.         *)
ReadChid(c) ==
  /\ client[c].pc = "shm"
  /\ \E chid \in IF shm = Nothing THEN {CHID, Nothing} ELSE {shm} :
       client' = [client EXCEPT ![c].pc = "attach", ![c].chid = chid]
  /\ UNCHANGED <<shm, srv, queue>>

Reachable(pid) == pid # Nobody /\ srv[pid].pc \in {"store", "receive", "reply"}

ConnectAttach(c) ==
  /\ client[c].pc = "attach"
  /\ client' = [client EXCEPT ![c] =
       IF Reachable(client[c].pid) /\ client[c].chid = CHID
       THEN [@ EXCEPT !.pc = "send"] ELSE Failed(c)]
  /\ UNCHANGED <<shm, srv, queue>>

MsgSend(c) ==
  /\ client[c].pc = "send"
  /\ IF Reachable(client[c].pid)
     THEN /\ client' = [client EXCEPT ![c].pc = "blocked"]
          /\ queue' = [queue EXCEPT ![client[c].pid] = Append(@, c)]
     ELSE client' = [client EXCEPT ![c] = Failed(c)] /\ UNCHANGED queue
  /\ UNCHANGED <<shm, srv>>

(* %u of an int.                                                            *)
Unsigned(n) == IF n < 0 THEN n + UINT_MOD ELSE n

Printed(c) ==
  LET m   == client[c].msg
      rsp == client[c].rsp
  IN IF rsp.statusCode = "OK"
     THEN [says |-> "OK", answer |-> rsp.answer,
           calc |-> Calculation(Unsigned(m.left_hand), m.operator, Unsigned(m.right_hand))]
     ELSE [says |-> rsp.statusCode, answer |-> Junk, calc |-> rsp.errorMsg]

PrintAnswer(c) ==
  /\ client[c].pc = "answered"
  /\ client' = [client EXCEPT ![c] =
       IF client[c].rsp.statusCode = "any" THEN Failed(c)
       ELSE [Off EXCEPT !.pc = "ended", !.typed = client[c].typed, !.out = Printed(c)]]
  /\ UNCHANGED <<shm, srv, queue>>

-----------------------------------------------------------------------------
(* The rest of the system *)

(* A user kills a server, the only way to stop it.                          *)
ServerKilled(s) == Up(s) /\ Ends(s, "killed")

(* A user kills a client: a message not received is taken back, and the     *)
(* receive id of one that is being served is no longer valid.               *)
ClientKilled(c) ==
  /\ client[c].pc \in {"shm", "attach", "send", "blocked", "answered"}
  /\ client' = [client EXCEPT ![c] = Off]
  /\ queue' = [s \in Servers |-> TakenBack(queue[s], c)]
  /\ srv' = [s \in Servers |->
       IF srv[s].rcvid = c THEN [srv[s] EXCEPT !.rcvid = Nobody] ELSE srv[s]]
  /\ UNCHANGED shm

(* Some process sends a server a pulse.                                     *)
StrayPulse(s) ==
  /\ srv[s].pc \in {"store", "receive", "reply"}
  /\ Len(SelectSeq(queue[s], LAMBDA x : x = Pulse)) < MaxPulses
  /\ queue' = [queue EXCEPT ![s] = Append(@, Pulse)]
  /\ UNCHANGED <<shm, srv, client>>

-----------------------------------------------------------------------------
Init ==
  /\ shm = Nothing /\ queue = [s \in Servers |-> <<>>]
  /\ srv = [s \in Servers |-> [pc |-> "create", rcvid |-> Nobody, rsp |-> NoRsp]]
  /\ client = [c \in Clients |-> Off]

ServerStep(s) ==
  ChannelCreate(s) \/ StoreChid(s) \/ Receive(s) \/ MsgReply(s) \/ ReplyFails(s)

ClientStep(c) == ReadChid(c) \/ ConnectAttach(c) \/ MsgSend(c) \/ PrintAnswer(c)

Next ==
  \/ \E s \in Servers : ServerStep(s) \/ ServerKilled(s) \/ StrayPulse(s)
  \/ \E c \in Clients : StartClient(c) \/ ClientStep(c) \/ ClientKilled(c)

Spec == Init /\ [][Next]_vars

(* Both programs are scheduled; nobody has to start, kill or pulse.         *)
FairSpec ==
  /\ Spec
  /\ \A s \in Servers : WF_vars(ServerStep(s))
  /\ \A c \in Clients : WF_vars(ClientStep(c))
-----------------------------------------------------------------------------
Codes == {"any", "OK", "UNDEFINED", "INVALID_OPERATOR", "OVERFLOW"}

Calcs == [left_hand : Int, operator : Operators \cup {Long, "none"}, right_hand : Int]
Rsps  == [statusCode : Codes, answer : Int \X Int, errorMsg : Calcs]

SrvT ==
  [pc : {"create", "store", "receive", "reply", "failed", "killed"},
   rcvid : Clients \cup {Pulse, Nobody}, rsp : Rsps]

ClientT ==
  [pc : {"off", "shm", "attach", "send", "blocked", "answered",
         "refused", "failed", "ended"},
   msg : Calcs, pid : Servers \cup {Nobody}, ready : BOOLEAN,
   chid : {Nothing, CHID}, rsp : Rsps, typed : Calcs,
   out : [says : Codes \cup {"none"}, calc : Calcs, answer : Int \X Int]]

TypeOK ==
  /\ shm \in {Nothing, CHID} /\ srv \in [Servers -> SrvT]
  /\ queue \in [Servers -> Seq(Clients \cup {Pulse})]
  /\ client \in [Clients -> ClientT]

(* What is out of range, by the tests a programmer makes before an integer  *)
(* operation.                                                               *)
Overflows(m) ==
  LET l == m.left_hand
      r == m.right_hand
  IN CASE m.operator = "+" -> IF r >= 0 THEN l > INT_MAX - r ELSE l < INT_MIN - r
       [] m.operator = "-" -> IF r >= 0 THEN l < INT_MIN + r ELSE l > INT_MAX + r
       [] m.operator = "x" -> l * r \notin INT_MIN..INT_MAX
       [] m.operator = "/" -> l = INT_MIN /\ r = -1

Verdict(m) ==
  IF m.operator \notin {"+", "-", "x", "/"} THEN "INVALID_OPERATOR"
  ELSE IF m.operator = "/" /\ m.right_hand = 0 THEN "UNDEFINED"
  ELSE IF Overflows(m) THEN "OVERFLOW" ELSE "OK"

(* Whatever rsp holds from the message before, calculate leaves the status  *)
(* of the reference in it and, with it, the answer or the error's operands. *)
CalculateExact ==
  \A s \in Servers : srv[s].pc = "receive" =>
    \A m \in Msgs :
      LET r == calculate(m, srv[s].rsp)
      IN /\ r.statusCode = Verdict(m)
         /\ IF r.statusCode = "OK" THEN r.answer = result(m) ELSE r.errorMsg = m

(* A client that ends well has printed the result of the calculation that   *)
(* was typed, or the error that has: nothing the server's rsp kept from     *)
(* another client's, and nothing of the server's before it was set.         *)
AnswersOwnQuestion ==
  \A c \in Clients : client[c].pc = "ended" =>
    LET m == client[c].typed
        o == client[c].out
    IN /\ o.says = Verdict(m)
       /\ IF o.says = "OK" THEN o.answer = result(m) ELSE o.calc = m

(* A client that was started when its server was up fails only if that      *)
(* server has ended: it reads the channel's id, however often servers were  *)
(* started and killed before.                                               *)
FailsOnlyWithoutServer ==
  \A c \in Clients :
    client[c].pc = "failed" /\ client[c].ready => ~Up(client[c].pid)

Waits(c, s)  == In(queue[s], c)
Served(c, s) == srv[s].rcvid = c

(* A client that is blocked waits in its server's queue or is being served, *)
(* not both; no other client is heard of anywhere, nor any client twice.    *)
BlockedIsHeard ==
  \A c \in Clients, s \in Servers :
    /\ (Waits(c, s) \/ Served(c, s)) = (client[c].pc = "blocked" /\ client[c].pid = s)
    /\ ~(Waits(c, s) /\ Served(c, s))
    /\ Once(queue[s], c)

(* A blocked client is released: by an answer, by the server's end, also if *)
(* that comes from a pulse or from another client's death.                  *)
Released == \A c \in Clients : client[c].pc = "blocked" ~> client[c].pc # "blocked"

(* Any valid integer can be an operand.  Fails for negative ones that have  *)
(* as many digits as INT_MAX.                                               *)
ValidOperandsAccepted ==
  \A c \in Clients : client[c].pc = "refused" => client[c].typed \notin Msgs

(* The result is printed with the operands it is of.  Fails for negative    *)
(* ones, which %u makes positive.                                           *)
EchoesOperands ==
  \A c \in Clients : client[c].pc = "ended" => client[c].out.calc = client[c].typed
=============================================================================
