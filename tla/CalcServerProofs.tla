--------------------------- MODULE CalcServerProofs ---------------------------
(***************************************************************************)
(* calc_server and calc_client for any width of an int, any operands and    *)
(* any servers and clients: answers are exact and one's own, blocked        *)
(* clients are heard, attended to and not overtaken, and which operands are *)
(* printed as others.                                                       *)
(***************************************************************************)
EXTENDS CalcServer, TLAPS, SequenceTheorems

(* An answer's status is right, and with it the answer or the error.        *)
Matches(r, m) ==
  /\ r.statusCode = Verdict(m)
  /\ IF r.statusCode = "OK" THEN r.answer = result(m) ELSE r.errorMsg = m

-----------------------------------------------------------------------------
(* A quotient of integers is out of range for INT_MIN / -1 only.            *)
LEMMA QuotientRange ==
  ASSUME NEW l \in INT_MIN..INT_MAX, NEW r \in INT_MIN..INT_MAX, r # 0
  PROVE  OutOfRange(IF r > 0 THEN <<l, r>> ELSE <<-l, -r>>) <=> (l = INT_MIN /\ r = -1)
<1> DEFINE n == INT_MAX
<1>0. n \in Nat \ {0} /\ INT_MIN = -n - 1 /\ l \in Int /\ r \in Int /\ l >= -n - 1 /\ l <= n
  BY CalcAssumption DEF INT_MIN
<1>m. ASSUME NEW d \in Nat \ {0} PROVE n * d >= n /\ (-n - 1) * d = -(n * d) - d
  BY <1>0, <1>m
<1> HIDE DEF n
<1>1. CASE r > 0
  <2>1. n * r >= n /\ (-n - 1) * r = -(n * r) - r /\ n * r \in Int
    BY <1>0, <1>1, <1>m
  <2>2. ~(l < (-n - 1) * r) /\ ~(l > n * r)
    BY <1>0, <1>1, <2>1
  <2> QED BY <1>0, <1>1, <2>2 DEF OutOfRange, n
<1>2. CASE r < 0
  <2> DEFINE d == -r
  <2>0. d \in Nat \ {0} /\ ~(r > 0) /\ (r = -1 <=> d = 1)
    BY <1>0, <1>2
  <2> HIDE DEF d
  <2>1. n * d >= n /\ (-n - 1) * d = -(n * d) - d /\ n * d \in Int
    BY <1>0, <2>0, <1>m
  <2>2. ~(-l < (-n - 1) * d)
    BY <1>0, <2>0, <2>1
  <2>3. d # 1 => n * d >= n + n
    BY <1>0, <2>0
  <2>4. -l > n * d <=> l = -n - 1 /\ d = 1
    BY <1>0, <2>0, <2>1, <2>3
  <2> QED BY <1>0, <2>0, <2>2, <2>4 DEF OutOfRange, n, d
<1> QED BY <1>0, <1>1, <1>2

(* The test on the result is the test on the operands.                      *)
LEMMA RangeIsOverflow ==
  ASSUME NEW m \in Msgs, m.operator \in {"+", "-", "x", "/"},
         m.operator = "/" => m.right_hand # 0
  PROVE  OutOfRange(result(m)) <=> Overflows(m)
<1> DEFINE l == m.left_hand
           r == m.right_hand
<1>0. l \in INT_MIN..INT_MAX /\ r \in INT_MIN..INT_MAX
  BY DEF Msgs
<1>1. INT_MIN \in Int /\ INT_MAX \in Int /\ l \in Int /\ r \in Int /\ l * r \in Int
  BY <1>0, CalcAssumption DEF INT_MIN
<1>2. CASE m.operator = "+"
  <2>1. OutOfRange(result(m)) <=> (l + r < INT_MIN \/ l + r > INT_MAX)
    BY <1>1, <1>2 DEF OutOfRange, result
  <2>2. Overflows(m) <=> IF r >= 0 THEN l > INT_MAX - r ELSE l < INT_MIN - r
    BY <1>2 DEF Overflows
  <2>3. (l + r < INT_MIN \/ l + r > INT_MAX) <=> IF r >= 0 THEN l > INT_MAX - r ELSE l < INT_MIN - r
    BY <1>0, <1>1
  <2> QED BY <2>1, <2>2, <2>3
<1>3. CASE m.operator = "-"
  <2>1. OutOfRange(result(m)) <=> (l - r < INT_MIN \/ l - r > INT_MAX)
    BY <1>1, <1>3 DEF OutOfRange, result
  <2>2. Overflows(m) <=> IF r >= 0 THEN l < INT_MIN + r ELSE l > INT_MAX + r
    BY <1>3 DEF Overflows
  <2>3. (l - r < INT_MIN \/ l - r > INT_MAX) <=> IF r >= 0 THEN l < INT_MIN + r ELSE l > INT_MAX + r
    BY <1>0, <1>1
  <2> QED BY <2>1, <2>2, <2>3
<1>4. CASE m.operator = "x"
  <2>1. OutOfRange(result(m)) <=> (l * r < INT_MIN \/ l * r > INT_MAX)
    BY <1>1, <1>4 DEF OutOfRange, result
  <2>2. Overflows(m) <=> l * r \notin INT_MIN..INT_MAX
    BY <1>4 DEF Overflows
  <2> QED BY <1>1, <2>1, <2>2
<1>5. CASE m.operator = "/"
  <2>1. OutOfRange(result(m)) <=> OutOfRange(IF r > 0 THEN <<l, r>> ELSE <<-l, -r>>)
    BY <1>5 DEF result
  <2>2. Overflows(m) <=> (l = INT_MIN /\ r = -1)
    BY <1>5 DEF Overflows
  <2> QED BY <1>0, <1>5, <2>1, <2>2, QuotientRange
<1> QED BY <1>2, <1>3, <1>4, <1>5

(* calculate is exact, whatever rsp holds.                                  *)
LEMMA CalculateMatches ==
  ASSUME NEW m \in Msgs, NEW rsp
  PROVE  Matches(calculate(m, rsp), m)
<1>1. CASE m.operator \notin {"+", "-", "x", "/"}
  BY <1>1 DEF calculate, Matches, Verdict, fail
<1>2. CASE m.operator = "/" /\ m.right_hand = 0
  BY <1>2 DEF calculate, Matches, Verdict, fail
<1>3. CASE m.operator \in {"+", "-", "x", "/"} /\ ~(m.operator = "/" /\ m.right_hand = 0)
  <2>1. OutOfRange(result(m)) <=> Overflows(m)
    BY <1>3, RangeIsOverflow
  <2>2. CASE Overflows(m)
    BY <1>3, <2>1, <2>2 DEF calculate, Matches, Verdict, fail
  <2>3. CASE ~Overflows(m)
    BY <1>3, <2>1, <2>3 DEF calculate, Matches, Verdict, succeed
  <2> QED BY <2>2, <2>3
<1> QED BY <1>1, <1>2, <1>3

LEMMA ToIntInRange == ASSUME NEW n \in INT_MIN..INT_MAX PROVE ToInt(n) = n
<1>1. INT_MAX \in Nat /\ n - INT_MIN \in 0..(UINT_MOD - 1) /\ UINT_MOD \in Nat \ {0}
  BY CalcAssumption DEF INT_MIN, UINT_MOD
<1>2. ASSUME NEW k \in Nat \ {0}, NEW x \in 0..(k - 1) PROVE x % k = x
  BY <1>2
<1>3. (n - INT_MIN) % UINT_MOD = n - INT_MIN
  BY <1>1, <1>2
<1> QED BY <1>1, <1>3, CalcAssumption DEF ToInt, INT_MIN

-----------------------------------------------------------------------------
(* A queue without a client that was in it once at most.                    *)
LEMMA TakenBackType ==
  ASSUME NEW S, NEW q \in Seq(S), NEW c,
         Once(q, c)
  PROVE  /\ TakenBack(q, c) \in Seq(S) /\ ~In(TakenBack(q, c), c)
         /\ \A x : x # c =>
              (In(TakenBack(q, c), x) <=> In(q, x)) /\ (Once(q, x) => Once(TakenBack(q, c), x))
<1> USE DEF In, Once
<1> DEFINE t == TakenBack(q, c)
<1>0. Len(q) \in Nat /\ DOMAIN q = 1..Len(q) /\ q \in [1..Len(q) -> S]
  BY LenProperties
<1>1. CASE ~In(q, c)
  <2>1. t = q
    BY <1>1 DEF TakenBack
  <2> QED BY <1>1, <2>1
<1>2. CASE In(q, c)
  <2> DEFINE at == CHOOSE i \in DOMAIN q : q[i] = c
             n  == Len(q) - 1
  <2>1. at \in DOMAIN q /\ q[at] = c
    BY <1>2
  <2>2. t = [i \in 1..n |-> IF i < at THEN q[i] ELSE q[i + 1]]
    BY <1>2 DEF TakenBack
  <2> HIDE DEF at, t
  <2>3. n \in Nat /\ at \in 1..(n + 1) /\ DOMAIN q = 1..(n + 1)
    BY <1>0, <2>1
  <2>4. \A i \in DOMAIN q : q[i] = c => i = at
    BY <2>1
  <2> HIDE DEF n
  <2>5. DOMAIN t = 1..n
    BY <2>2
  <2>6. \A i \in 1..n : t[i] = (IF i < at THEN q[i] ELSE q[i + 1])
    BY <2>2
  <2>7. t \in Seq(S)
    <3>1. \A i \in 1..n : t[i] \in S
      BY <1>0, <2>3, <2>6
    <3> QED BY <2>2, <2>3, <3>1, SeqDef
  <2>8. \A i \in 1..n : t[i] # c
    BY <2>3, <2>4, <2>6
  <2>9. ASSUME NEW x, x # c
        PROVE  /\ (\E i \in 1..n : t[i] = x) <=> \E i \in DOMAIN q : q[i] = x
               /\ (\A i, j \in DOMAIN q : q[i] = x /\ q[j] = x => i = j) =>
                    \A i, j \in 1..n : t[i] = x /\ t[j] = x => i = j
    <3>1. ASSUME NEW i \in 1..n, t[i] = x PROVE \E j \in DOMAIN q : q[j] = x
      <4>1. i \in DOMAIN q /\ i + 1 \in DOMAIN q
        BY <2>3
      <4> QED BY <2>6, <3>1, <4>1
    <3>2. ASSUME NEW i \in DOMAIN q, q[i] = x PROVE \E j \in 1..n : t[j] = x
      <4>1. i # at
        BY <2>1, <2>9, <3>2
      <4>2. CASE i < at
        <5>1. i \in 1..n
          BY <2>3, <4>2
        <5> QED BY <2>6, <3>2, <4>2, <5>1
      <4>3. CASE i > at
        <5>1. i - 1 \in 1..n /\ ~(i - 1 < at) /\ (i - 1) + 1 = i
          BY <2>3, <4>3
        <5> QED BY <2>6, <3>2, <5>1
      <4> QED BY <2>3, <4>1, <4>2, <4>3
    <3>3. ASSUME \A i, j \in DOMAIN q : q[i] = x /\ q[j] = x => i = j,
                 NEW i \in 1..n, NEW j \in 1..n, t[i] = x, t[j] = x
          PROVE  i = j
      <4> DEFINE old(k) == IF k < at THEN k ELSE k + 1
      <4>1. old(i) \in DOMAIN q /\ old(j) \in DOMAIN q
        BY <2>3
      <4>2. q[old(i)] = x /\ q[old(j)] = x
        BY <2>6, <3>3
      <4>3. old(i) = old(j)
        BY <3>3, <4>1, <4>2
      <4> QED BY <2>3, <4>3
    <3> QED BY <3>1, <3>2, <3>3
  <2> QED BY <2>5, <2>7, <2>8, <2>9 DEF t
<1> QED BY <1>1, <1>2

-----------------------------------------------------------------------------
(* Types of what is put into the records.                                   *)
LEMMA FixedTypes == NoMsg \in Calcs /\ NoRsp \in Rsps /\ Junk \in Int \X Int /\ Off \in ClientT
<1>1. NoMsg \in Calcs /\ Junk \in Int \X Int
  BY DEF NoMsg, Calculation, Calcs, Junk
<1>2. NoRsp \in Rsps
  BY <1>1 DEF NoRsp, Rsps, Codes
<1> QED BY <1>1, <1>2 DEF Off, ClientT, Codes

LEMMA FailedType ==
  ASSUME TypeOK, NEW c \in Clients
  PROVE  /\ Failed(c) \in ClientT /\ Failed(c).pc = "failed"
         /\ Failed(c).pid = client[c].pid /\ Failed(c).ready = client[c].ready
<1>1. client[c].pid \in Servers \cup {Nobody} /\ client[c].ready \in BOOLEAN
  BY DEF TypeOK, ClientT
<1> QED BY <1>1, FixedTypes DEF Failed, ClientT

LEMMA MsgsAreCalcs == Msgs \subseteq Calcs
  BY CalcAssumption DEF Msgs, Calcs, INT_MIN

LEMMA ResultType ==
  ASSUME NEW m \in Calcs, m.operator \in {"+", "-", "x", "/"}
  PROVE  result(m) \in Int \X Int
<1> DEFINE l == m.left_hand
           r == m.right_hand
<1>1. l \in Int /\ r \in Int
  BY DEF Calcs
<1>2. l + r \in Int /\ l - r \in Int /\ l * r \in Int /\ -l \in Int /\ -r \in Int
  BY <1>1
<1>3. CASE m.operator = "+"  BY <1>2, <1>3 DEF result
<1>4. CASE m.operator = "-"  BY <1>2, <1>4 DEF result
<1>5. CASE m.operator = "x"  BY <1>2, <1>5 DEF result
<1>6. CASE m.operator = "/"  BY <1>1, <1>2, <1>6 DEF result
<1> QED BY <1>3, <1>4, <1>5, <1>6

LEMMA CalculateType ==
  ASSUME NEW m \in Calcs, NEW rsp \in Rsps
  PROVE  calculate(m, rsp) \in Rsps
<1>1. ASSUME NEW code \in Codes PROVE fail(rsp, code, m) \in Rsps
  BY DEF fail, Rsps
<1>2. m.operator \in {"+", "-", "x", "/"} => succeed(rsp, m) \in Rsps
  BY ResultType DEF succeed, Rsps, Codes
<1> QED BY <1>1, <1>2 DEF calculate, Codes

(* What a client's step makes of its record.                                *)
LEMMA StartType ==
  ASSUME TypeOK, NEW c \in Clients, StartClient(c)
  PROVE  /\ client' \in [Clients -> ClientT] /\ \A d \in Clients \ {c} : client'[d] = client[d]
         /\ client[c].pc # "blocked"
         /\ \/ client'[c].pc = "refused" /\ ~client'[c].ready
            \/ /\ client'[c].pc = "shm" /\ client'[c].msg \in Msgs
               /\ client'[c].msg = client'[c].typed
               /\ client'[c].ready => /\ client'[c].pid \in Servers
                                      /\ srv[client'[c].pid].pc \in {"receive", "reply"}
<1> PICK pid \in Servers \cup {Nobody}, t1 \in Operands, t2 \in Operands, o \in Operators \cup {Long} :
      client' = [client EXCEPT ![c] =
        IF Accepts(t1) /\ Accepts(t2) /\ o # Long
        THEN [Off EXCEPT !.pc = "shm", !.pid = pid, !.typed = Calculation(t1.val, o, t2.val),
                         !.msg = Calculation(ToInt(t1.val), o, ToInt(t2.val)),
                         !.ready = pid # Nobody /\ srv[pid].pc \in {"receive", "reply"}]
        ELSE [Off EXCEPT !.pc = "refused", !.typed = Calculation(t1.val, o, t2.val)]]
  BY DEF StartClient
<1> DEFINE typed == Calculation(t1.val, o, t2.val)
           ready == pid # Nobody /\ srv[pid].pc \in {"receive", "reply"}
<1>1. typed \in Calcs
  BY CalcAssumption DEF Calculation, Calcs
<1>2. client[c].pc # "blocked"
  BY DEF StartClient
<1>o. Off.ready = FALSE
  BY DEF Off
<1>3. CASE Accepts(t1) /\ Accepts(t2) /\ o # Long
  <2>1. Calculation(ToInt(t1.val), o, ToInt(t2.val)) = typed
    BY <1>3, ToIntInRange DEF Accepts
  <2>2. typed \in Msgs
    BY <1>3 DEF Accepts, Calculation, Msgs
  <2>3. ready \in BOOLEAN
    OBVIOUS
  <2> DEFINE new == [Off EXCEPT !.pc = "shm", !.pid = pid, !.typed = typed, !.msg = typed,
                                !.ready = ready]
  <2>4. client' = [client EXCEPT ![c] = new]
    BY <1>3, <2>1
  <2> HIDE DEF typed, ready
  <2>5. new \in ClientT
    BY <1>1, <2>3, FixedTypes DEF ClientT
  <2>6. new.pc = "shm" /\ new.msg = typed /\ new.typed = typed /\ new.pid = pid /\ new.ready = ready
    BY FixedTypes DEF ClientT
  <2>7. ready => pid \in Servers /\ srv[pid].pc \in {"receive", "reply"}
    BY DEF ready
  <2> HIDE DEF new
  <2>8. client'[c] = new /\ client' \in [Clients -> ClientT]
        /\ \A d \in Clients \ {c} : client'[d] = client[d]
    BY <2>4, <2>5 DEF TypeOK
  <2> QED BY <1>2, <2>2, <2>6, <2>7, <2>8
<1>4. CASE ~(Accepts(t1) /\ Accepts(t2) /\ o # Long)
  <2> DEFINE new == [Off EXCEPT !.pc = "refused", !.typed = typed]
  <2>1. client' = [client EXCEPT ![c] = new]
    BY <1>4
  <2> HIDE DEF typed
  <2>2. new \in ClientT /\ new.pc = "refused" /\ new.ready = FALSE
    BY <1>1, <1>o, FixedTypes DEF ClientT
  <2> HIDE DEF new
  <2>3. client'[c] = new /\ client' \in [Clients -> ClientT]
        /\ \A d \in Clients \ {c} : client'[d] = client[d]
    BY <2>1, <2>2 DEF TypeOK
  <2> QED BY <1>2, <2>2, <2>3
<1> QED BY <1>3, <1>4

-----------------------------------------------------------------------------
(* A client knows its own calculation and, at the end, its answer; one that *)
(* was started when its server was up finds the channel.                    *)
ClientOK(c) ==
  LET k == client[c]
  IN /\ k.pc \in {"shm", "attach", "send", "blocked", "answered"} =>
          k.msg = k.typed /\ k.msg \in Msgs
     /\ k.pc = "answered" => Matches(k.rsp, k.msg)
     /\ k.pc = "ended" =>
          /\ k.out.says = Verdict(k.typed)
          /\ IF k.out.says = "OK" THEN k.out.answer = result(k.typed) ELSE k.out.calc = k.typed
     /\ k.ready => /\ k.pid \in Servers /\ shm = CHID
                   /\ srv[k.pid].pc \notin {"create", "store"}
                   /\ k.pc \in {"attach", "send"} => k.chid = CHID
     /\ k.pc = "failed" /\ k.ready => ~Up(k.pid)

(* A server that receives has stored its channel, and whom it serves gets   *)
(* the answer to what it asked.                                             *)
ServerOK(s) ==
  /\ srv[s].pc \in {"receive", "reply"} => shm = CHID
  /\ srv[s].rcvid \in Clients =>
       srv[s].pc = "reply" /\ Matches(srv[s].rsp, client[srv[s].rcvid].msg)

(* BlockedIsHeard for one client and one server.                            *)
Heard(c, s) ==
  /\ (Waits(c, s) \/ Served(c, s)) = (client[c].pc = "blocked" /\ client[c].pid = s)
  /\ ~(Waits(c, s) /\ Served(c, s))
  /\ Once(queue[s], c)

(* The inductive invariant.                                                 *)
IInv ==
  /\ TypeOK
  /\ \A c \in Clients : ClientOK(c)
  /\ \A s \in Servers : ServerOK(s)
  /\ \A c \in Clients, s \in Servers : Heard(c, s)

LEMMA InitIInv == Init => IInv
<1> SUFFICES ASSUME Init PROVE IInv OBVIOUS
<1>1. TypeOK
  <2>1. queue \in [Servers -> Seq(Clients \cup {Pulse})]
    BY EmptySeq DEF Init
  <2>2. srv \in [Servers -> SrvT]
    BY FixedTypes DEF Init, SrvT
  <2>3. client \in [Clients -> ClientT]
    BY FixedTypes DEF Init
  <2> QED BY <2>1, <2>2, <2>3 DEF Init, TypeOK
<1>2. ASSUME NEW c \in Clients PROVE ClientOK(c)
  BY DEF Init, ClientOK, Off
<1>3. ASSUME NEW s \in Servers PROVE ServerOK(s)
  BY CalcAssumption DEF Init, ServerOK
<1>4. ASSUME NEW c \in Clients, NEW s \in Servers PROVE Heard(c, s)
  <2>1. DOMAIN queue[s] = {} /\ srv[s].rcvid # c /\ client[c].pc # "blocked"
    BY CalcAssumption DEF Init, Off
  <2> QED BY <2>1 DEF Heard, Waits, Served, In, Once
<1> QED BY <1>1, <1>2, <1>3, <1>4 DEF IInv

-----------------------------------------------------------------------------
(* Nothing that is known of a client depends on more of the servers than    *)
(* that they only go on: from not yet up to up, and then to their end.      *)
ServersGoOn ==
  /\ shm = CHID => shm' = CHID
  /\ \A s \in Servers :
       /\ srv[s].pc \notin {"create", "store"} => srv'[s].pc \notin {"create", "store"}
       /\ ~Up(s) => ~Up(s)'

LEMMA ClientFrame ==
  ASSUME TypeOK, NEW c \in Clients, ClientOK(c), ServersGoOn, client'[c] = client[c]
  PROVE  ClientOK(c)'
<1>1. client[c].ready => client[c].pid \in Servers
  BY DEF ClientOK
<1> QED BY <1>1 DEF ClientOK, ServersGoOn

LEMMA ServerFrame ==
  ASSUME NEW s \in Servers, ServerOK(s), ServersGoOn, srv'[s] = srv[s],
         srv[s].rcvid \in Clients => client'[srv[s].rcvid].msg = client[srv[s].rcvid].msg
  PROVE  ServerOK(s)'
  BY DEF ServerOK, ServersGoOn

LEMMA HeardFrame ==
  ASSUME NEW c \in Clients, NEW s \in Servers, Heard(c, s),
         queue'[s] = queue[s], Served(c, s)' <=> Served(c, s),
         (client'[c].pc = "blocked" /\ client'[c].pid = s)
           = (client[c].pc = "blocked" /\ client[c].pid = s)
  PROVE  Heard(c, s)'
  BY DEF Heard, Waits

(* A step of one client that is not blocked and does not become so.         *)
LEMMA LocalStep ==
  ASSUME IInv, NEW c \in Clients, UNCHANGED <<shm, srv, queue>>,
         client' \in [Clients -> ClientT], \A d \in Clients \ {c} : client'[d] = client[d],
         client[c].pc # "blocked", client'[c].pc # "blocked", ClientOK(c)'
  PROVE  IInv'
<1>1. TypeOK'
  BY DEF IInv, TypeOK
<1>2. ServersGoOn
  BY DEF ServersGoOn, Up
<1>3. ASSUME NEW d \in Clients PROVE ClientOK(d)'
  BY <1>2, ClientFrame DEF IInv
<1>4. ASSUME NEW s \in Servers PROVE ServerOK(s)'
  <2>1. srv[s].rcvid \in Clients => client[srv[s].rcvid].pc = "blocked"
    BY DEF IInv, Heard, Served
  <2>2. srv[s].rcvid \in Clients => client'[srv[s].rcvid] = client[srv[s].rcvid]
    BY <2>1
  <2> QED BY <1>2, <2>2, ServerFrame DEF IInv
<1>5. ASSUME NEW d \in Clients, NEW s \in Servers PROVE Heard(d, s)'
  BY HeardFrame DEF IInv, Served
<1> QED BY <1>1, <1>3, <1>4, <1>5 DEF IInv

(* The steps of one client before it sends and after it has its answer.     *)
LEMMA StartIInv == ASSUME IInv, NEW c \in Clients, StartClient(c) PROVE IInv'
<1>1. TypeOK /\ UNCHANGED <<shm, srv, queue>>
  BY DEF IInv, StartClient
<1>2. ClientOK(c)'
  <2>1. client'[c].ready => shm = CHID
    BY <1>1, StartType DEF IInv, ServerOK
  <2> QED BY <1>1, <2>1, StartType DEF ClientOK
<1> QED BY <1>1, <1>2, StartType, LocalStep

LEMMA ReadIInv == ASSUME IInv, NEW c \in Clients, ReadChid(c) PROVE IInv'
<1> PICK chid \in (IF shm = Nothing THEN {CHID, Nothing} ELSE {shm}) :
      client' = [client EXCEPT ![c].pc = "attach", ![c].chid = chid]
  BY DEF ReadChid
<1>1. TypeOK /\ UNCHANGED <<shm, srv, queue>> /\ client[c].pc = "shm" /\ ClientOK(c)
  BY DEF IInv, ReadChid
<1>2. chid \in {Nothing, CHID} /\ (shm = CHID => chid = CHID)
  BY <1>1 DEF TypeOK, CHID, Nothing
<1>3. /\ client' \in [Clients -> ClientT] /\ \A d \in Clients \ {c} : client'[d] = client[d]
      /\ client'[c] = [client[c] EXCEPT !.pc = "attach", !.chid = chid]
  <2> DEFINE new == [client[c] EXCEPT !.pc = "attach", !.chid = chid]
  <2>1. client \in [Clients -> ClientT] /\ client[c] \in ClientT
    BY <1>1 DEF TypeOK
  <2>2. new \in ClientT
    BY <1>2, <2>1 DEF ClientT
  <2>3. client' = [client EXCEPT ![c] = new]
    BY <2>1
  <2> HIDE DEF new
  <2>4. client' \in [Clients -> ClientT] /\ client'[c] = new
        /\ \A d \in Clients \ {c} : client'[d] = client[d]
    BY <2>1, <2>2, <2>3
  <2> QED BY <2>4 DEF new
<1>4. /\ client'[c].pc = "attach" /\ client'[c].chid = chid
      /\ client'[c].msg = client[c].msg /\ client'[c].typed = client[c].typed
      /\ client'[c].ready = client[c].ready /\ client'[c].pid = client[c].pid
  BY <1>1, <1>3 DEF TypeOK, ClientT
<1>5. ClientOK(c)'
  BY <1>1, <1>2, <1>4 DEF ClientOK
<1> QED BY <1>1, <1>3, <1>4, <1>5, LocalStep

(* A client that fails: only where its server has ended, if it was up.      *)
LEMMA FailIInv ==
  ASSUME IInv, NEW c \in Clients, UNCHANGED <<shm, srv, queue>>,
         client[c].pc \in {"attach", "send"}, client' = [client EXCEPT ![c] = Failed(c)],
         ~(Reachable(client[c].pid) /\ (client[c].pc = "attach" => client[c].chid = CHID))
  PROVE  IInv'
<1>1. TypeOK /\ ClientOK(c) /\ client[c] \in ClientT
  BY DEF IInv, TypeOK
<1>2. /\ client' \in [Clients -> ClientT] /\ \A d \in Clients \ {c} : client'[d] = client[d]
      /\ client'[c] = Failed(c)
  BY <1>1, FailedType DEF TypeOK
<1>3. client'[c].pc = "failed" /\ client'[c].pid = client[c].pid /\ client'[c].ready = client[c].ready
  BY <1>1, <1>2, FailedType
<1>4. client[c].ready => ~Up(client[c].pid)
  <2> SUFFICES ASSUME client[c].ready PROVE ~Up(client[c].pid)
    OBVIOUS
  <2>1. client[c].pid \in Servers /\ srv[client[c].pid].pc \notin {"create", "store"}
        /\ client[c].chid = CHID
    BY <1>1 DEF ClientOK
  <2>2. client[c].pid # Nobody
    BY <2>1, CalcAssumption
  <2> QED BY <2>1, <2>2 DEF Reachable, Up
<1>5. ClientOK(c)'
  BY <1>1, <1>3, <1>4 DEF ClientOK, Up
<1> QED BY <1>2, <1>3, <1>5, LocalStep

LEMMA AttachIInv == ASSUME IInv, NEW c \in Clients, ConnectAttach(c) PROVE IInv'
<1>1. TypeOK /\ UNCHANGED <<shm, srv, queue>> /\ client[c].pc = "attach" /\ ClientOK(c)
  BY DEF IInv, ConnectAttach
<1>2. CASE Reachable(client[c].pid) /\ client[c].chid = CHID
  <2>1. client' = [client EXCEPT ![c] = [@ EXCEPT !.pc = "send"]]
    BY <1>2 DEF ConnectAttach
  <2>2. /\ client' \in [Clients -> ClientT] /\ \A d \in Clients \ {c} : client'[d] = client[d]
        /\ client'[c] = [client[c] EXCEPT !.pc = "send"]
    <3> DEFINE new == [client[c] EXCEPT !.pc = "send"]
    <3>1. client \in [Clients -> ClientT] /\ client[c] \in ClientT
      BY <1>1 DEF TypeOK
    <3>2. new \in ClientT
      BY <3>1 DEF ClientT
    <3>3. client' = [client EXCEPT ![c] = new]
      BY <2>1
    <3> HIDE DEF new
    <3>4. client' \in [Clients -> ClientT] /\ client'[c] = new
          /\ \A d \in Clients \ {c} : client'[d] = client[d]
      BY <3>1, <3>2, <3>3
    <3> QED BY <3>4 DEF new
  <2>3. /\ client'[c].pc = "send" /\ client'[c].chid = client[c].chid
        /\ client'[c].msg = client[c].msg /\ client'[c].typed = client[c].typed
        /\ client'[c].ready = client[c].ready /\ client'[c].pid = client[c].pid
    BY <1>1, <2>2 DEF TypeOK, ClientT
  <2>4. ClientOK(c)'
    BY <1>1, <2>3 DEF ClientOK
  <2> QED BY <1>1, <2>2, <2>3, <2>4, LocalStep
<1>3. CASE ~(Reachable(client[c].pid) /\ client[c].chid = CHID)
  <2>1. client' = [client EXCEPT ![c] = Failed(c)]
    BY <1>3 DEF ConnectAttach
  <2> QED BY <1>1, <1>3, <2>1, FailIInv
<1> QED BY <1>2, <1>3

LEMMA PrintIInv == ASSUME IInv, NEW c \in Clients, PrintAnswer(c) PROVE IInv'
<1>1. TypeOK /\ UNCHANGED <<shm, srv, queue>> /\ client[c].pc = "answered" /\ ClientOK(c)
  BY DEF IInv, PrintAnswer
<1> DEFINE m == client[c].msg
           r == client[c].rsp
           new == [Off EXCEPT !.pc = "ended", !.typed = client[c].typed, !.out = Printed(c)]
<1>2. m = client[c].typed /\ m \in Msgs /\ Matches(r, m) /\ m \in Calcs /\ r \in Rsps
  BY <1>1, MsgsAreCalcs DEF ClientOK, TypeOK, ClientT
<1>3. r.statusCode # "any"
  BY <1>2 DEF Matches, Verdict
<1>4. client' = [client EXCEPT ![c] = new]
  BY <1>3 DEF PrintAnswer
<1>5. Calculation(Unsigned(m.left_hand), m.operator, Unsigned(m.right_hand)) \in Calcs
  <2>1. \A n \in Int : Unsigned(n) \in Int
    BY CalcAssumption DEF Unsigned, UINT_MOD
  <2> QED BY <1>2, <2>1 DEF Calculation, Calcs
<1>6. /\ Printed(c) \in [says : Codes \cup {"none"}, calc : Calcs, answer : Int \X Int]
      /\ Printed(c).says = Verdict(m)
      /\ IF Printed(c).says = "OK" THEN Printed(c).answer = result(m) ELSE Printed(c).calc = m
  <2>1. CASE r.statusCode = "OK"
    <3>1. Printed(c) = [says |-> "OK", answer |-> r.answer,
            calc |-> Calculation(Unsigned(m.left_hand), m.operator, Unsigned(m.right_hand))]
      BY <2>1 DEF Printed
    <3>2. r.answer \in Int \X Int
      BY <1>2 DEF Rsps
    <3> QED BY <1>2, <1>5, <2>1, <3>1, <3>2 DEF Matches, Codes
  <2>2. CASE r.statusCode # "OK"
    <3>1. Printed(c) = [says |-> r.statusCode, answer |-> Junk, calc |-> r.errorMsg]
      BY <2>2 DEF Printed
    <3>2. r.statusCode \in Codes /\ r.errorMsg \in Calcs
      BY <1>2 DEF Rsps
    <3> QED BY <1>2, <2>2, <3>1, <3>2, FixedTypes DEF Matches
  <2> QED BY <2>1, <2>2
<1>7. new \in ClientT /\ new.pc = "ended" /\ new.typed = m /\ new.out = Printed(c)
  BY <1>2, <1>6, FixedTypes DEF ClientT
<1>8. new.ready = FALSE
  BY DEF Off
<1> HIDE DEF new
<1>9. /\ client' \in [Clients -> ClientT] /\ \A d \in Clients \ {c} : client'[d] = client[d]
      /\ client'[c] = new
  BY <1>1, <1>4, <1>7 DEF TypeOK
<1>10. ClientOK(c)'
  BY <1>2, <1>6, <1>7, <1>8, <1>9 DEF ClientOK
<1> QED BY <1>1, <1>7, <1>9, <1>10, LocalStep

-----------------------------------------------------------------------------
(* A message or a pulse at the end of a queue.                              *)
LEMMA AppendIs ==
  ASSUME NEW S, NEW q \in Seq(S), NEW x \in S
  PROVE  /\ Append(q, x) \in Seq(S) /\ Append(q, x)[Len(q) + 1] = x
         /\ DOMAIN Append(q, x) = DOMAIN q \cup {Len(q) + 1} /\ Len(q) + 1 \notin DOMAIN q
         /\ \A i \in DOMAIN q : Append(q, x)[i] = q[i]
<1>1. Len(q) \in Nat /\ DOMAIN q = 1..Len(q)
  BY LenProperties
<1>2. /\ Append(q, x) \in Seq(S) /\ Len(Append(q, x)) = Len(q) + 1
      /\ Append(q, x)[Len(q) + 1] = x /\ \A i \in 1..Len(q) : Append(q, x)[i] = q[i]
  BY AppendProperties
<1>3. DOMAIN Append(q, x) = 1..(Len(q) + 1)
  BY <1>2, LenProperties
<1>4. 1..(Len(q) + 1) = 1..Len(q) \cup {Len(q) + 1} /\ Len(q) + 1 \notin 1..Len(q)
  BY <1>1
<1> QED BY <1>1, <1>2, <1>3, <1>4

LEMMA AppendPlaces ==
  ASSUME NEW S, NEW q \in Seq(S), NEW x \in S
  PROVE  Append(q, x) \in Seq(S) /\ In(Append(q, x), x) /\ (~In(q, x) => Once(Append(q, x), x))
  BY AppendIs DEF In, Once

LEMMA AppendKeeps ==
  ASSUME NEW S, NEW q \in Seq(S), NEW x \in S, NEW y, y # x
  PROVE  (In(Append(q, x), y) <=> In(q, y)) /\ (Once(q, y) => Once(Append(q, x), y))
  BY AppendIs DEF In, Once

(* The first of a queue leaves it.                                          *)
LEMMA TailPlaces ==
  ASSUME NEW S, NEW q \in Seq(S), q # <<>>, NEW y, Once(q, y)
  PROVE  /\ Tail(q) \in Seq(S) /\ Head(q) \in S /\ Once(Tail(q), y)
         /\ Head(q) = y <=> In(q, y) /\ ~In(Tail(q), y)
         /\ In(Tail(q), y) => In(q, y)
<1> USE DEF In, Once
<1> DEFINE t == Tail(q)
           n == Len(q) - 1
<1>1. n \in Nat /\ DOMAIN q = 1..(n + 1) /\ Head(q) = q[1]
  BY LenProperties, EmptySeq
<1>2. t \in Seq(S) /\ Len(t) = n /\ Head(q) \in S /\ \A i \in 1..n : t[i] = q[i + 1]
  BY HeadTailProperties
<1>3. DOMAIN t = 1..n
  BY <1>2, LenProperties
<1> HIDE DEF t, n
<1>4. \A i \in 1..n : i + 1 \in DOMAIN q /\ i + 1 # 1
  BY <1>1
<1>5. \A i \in DOMAIN q : i = 1 \/ (i - 1 \in 1..n /\ (i - 1) + 1 = i)
  BY <1>1
<1>6. (\E i \in DOMAIN t : t[i] = y) => \E i \in DOMAIN q : q[i] = y
  BY <1>2, <1>3, <1>4
<1>7. Head(q) = y => ~(\E i \in DOMAIN t : t[i] = y) /\ \E i \in DOMAIN q : q[i] = y
  <2>1. 1 \in DOMAIN q
    BY <1>1
  <2> QED BY <1>1, <1>2, <1>3, <1>4, <2>1
<1>8. ASSUME NEW i \in DOMAIN q, q[i] = y, ~(\E j \in DOMAIN t : t[j] = y) PROVE Head(q) = y
  <2>1. CASE i = 1
    BY <1>1, <1>8, <2>1
  <2>2. CASE i # 1
    <3>1. i - 1 \in DOMAIN t /\ t[i - 1] = q[i]
      BY <1>2, <1>3, <1>5, <2>2
    <3> QED BY <1>8, <3>1
  <2> QED BY <2>1, <2>2
<1>9. ASSUME NEW i \in DOMAIN t, NEW j \in DOMAIN t, t[i] = y, t[j] = y PROVE i = j
  <2>1. i + 1 = j + 1
    BY <1>2, <1>3, <1>4, <1>9
  <2> QED BY <1>1, <1>3, <2>1
<1> QED BY <1>2, <1>6, <1>7, <1>8, <1>9 DEF t

-----------------------------------------------------------------------------
LEMMA SendIInv == ASSUME IInv, NEW c \in Clients, MsgSend(c) PROVE IInv'
<1>1. TypeOK /\ UNCHANGED <<shm, srv>> /\ client[c].pc = "send" /\ ClientOK(c)
      /\ client[c] \in ClientT
  BY DEF IInv, TypeOK, MsgSend
<1>2. CASE ~Reachable(client[c].pid)
  BY <1>1, <1>2, FailIInv DEF MsgSend
<1>3. CASE Reachable(client[c].pid)
  <2> DEFINE h   == client[c].pid
             new == [client[c] EXCEPT !.pc = "blocked"]
  <2>1. h \in Servers
    BY <1>1, <1>3 DEF ClientT, Reachable
  <2>2. client' = [client EXCEPT ![c] = new] /\ queue' = [queue EXCEPT ![h] = Append(@, c)]
    BY <1>1, <1>3 DEF MsgSend, TypeOK
  <2>3. /\ new \in ClientT /\ new.pc = "blocked" /\ new.pid = h
        /\ new.msg = client[c].msg /\ new.typed = client[c].typed /\ new.ready = client[c].ready
    BY <1>1 DEF ClientT
  <2> HIDE DEF new
  <2>4. /\ client' \in [Clients -> ClientT] /\ client'[c] = new
        /\ \A d \in Clients \ {c} : client'[d] = client[d]
    BY <1>1, <2>2, <2>3 DEF TypeOK
  <2>5. /\ queue'[h] = Append(queue[h], c) /\ \A s \in Servers \ {h} : queue'[s] = queue[s]
        /\ queue[h] \in Seq(Clients \cup {Pulse})
    BY <1>1, <2>1, <2>2 DEF TypeOK
  <2>6. TypeOK'
    <3>1. Append(queue[h], c) \in Seq(Clients \cup {Pulse})
      BY <2>5, AppendPlaces
    <3> QED BY <1>1, <2>1, <2>2, <2>4, <3>1 DEF TypeOK
  <2>7. ServersGoOn
    BY <1>1 DEF ServersGoOn, Up
  <2>8. ASSUME NEW d \in Clients PROVE ClientOK(d)'
    <3>1. CASE d = c
      BY <1>1, <2>3, <2>4, <3>1 DEF ClientOK
    <3>2. CASE d # c
      BY <1>1, <2>4, <2>7, <3>2, ClientFrame DEF IInv
    <3> QED BY <3>1, <3>2
  <2>9. ASSUME NEW s \in Servers PROVE ServerOK(s)'
    <3>1. srv[s].rcvid \in Clients => client'[srv[s].rcvid].msg = client[srv[s].rcvid].msg
      BY <2>3, <2>4
    <3> QED BY <1>1, <2>7, <3>1, ServerFrame DEF IInv
  <2>10. ASSUME NEW d \in Clients, NEW s \in Servers PROVE Heard(d, s)'
    <3>0. Heard(d, s) /\ Served(d, s)' = Served(d, s)
      BY <1>1 DEF IInv, Served
    <3>1. CASE s # h
      <4>1. queue'[s] = queue[s]
        BY <2>5, <3>1
      <4> QED BY <1>1, <2>3, <2>4, <3>0, <3>1, <4>1, HeardFrame
    <3>2. CASE s = h /\ d # c
      <4>0. /\ queue'[s] = Append(queue[s], c) /\ queue[s] \in Seq(Clients \cup {Pulse})
            /\ c \in Clients \cup {Pulse}
        BY <2>5, <3>2
      <4>1. Waits(d, s)' <=> Waits(d, s)
        BY <4>0, <3>2, AppendKeeps DEF Waits
      <4>2. Once(queue'[s], d)
        BY <4>0, <3>0, <3>2, AppendKeeps DEF Heard
      <4>3. client'[d] = client[d]
        BY <2>4, <3>2
      <4> QED BY <3>0, <4>1, <4>2, <4>3 DEF Heard
    <3>3. CASE s = h /\ d = c
      <4>1. ~Waits(c, s) /\ ~Served(c, s)
        BY <1>1, <3>0, <3>3 DEF Heard
      <4>2. queue'[s] = Append(queue[s], c) /\ queue[s] \in Seq(Clients \cup {Pulse})
        BY <2>5, <3>3
      <4>3. In(queue'[s], c) /\ Once(queue'[s], c)
        BY <4>1, <4>2, AppendPlaces DEF Waits
      <4>4. client'[c].pc = "blocked" /\ client'[c].pid = s
        BY <2>3, <2>4, <3>3
      <4>5. ~Served(c, s)'
        BY <3>0, <3>3, <4>1
      <4> QED BY <3>3, <4>3, <4>4, <4>5 DEF Heard, Waits
    <3> QED BY <3>1, <3>2, <3>3
  <2> QED BY <2>6, <2>8, <2>9, <2>10 DEF IInv
<1> QED BY <1>2, <1>3

LEMMA PulseIInv == ASSUME IInv, NEW s \in Servers, StrayPulse(s) PROVE IInv'
<1>1. TypeOK /\ UNCHANGED <<shm, srv, client>> /\ queue' = [queue EXCEPT ![s] = Append(@, Pulse)]
  BY DEF IInv, StrayPulse
<1>2. /\ queue'[s] = Append(queue[s], Pulse) /\ queue[s] \in Seq(Clients \cup {Pulse})
      /\ \A q \in Servers \ {s} : queue'[q] = queue[q]
  BY <1>1 DEF TypeOK
<1>3. TypeOK'
  <2>1. Append(queue[s], Pulse) \in Seq(Clients \cup {Pulse})
    BY <1>2, AppendPlaces
  <2> QED BY <1>1, <2>1 DEF TypeOK
<1>4. ServersGoOn
  BY <1>1 DEF ServersGoOn, Up
<1>5. ASSUME NEW c \in Clients PROVE ClientOK(c)'
  BY <1>1, <1>4, ClientFrame DEF IInv
<1>6. ASSUME NEW q \in Servers PROVE ServerOK(q)'
  BY <1>1, <1>4, ServerFrame DEF IInv
<1>7. ASSUME NEW c \in Clients, NEW q \in Servers PROVE Heard(c, q)'
  <2>0. Heard(c, q) /\ Served(c, q)' = Served(c, q) /\ c # Pulse
    BY <1>1, CalcAssumption DEF IInv, Served
  <2>1. CASE q # s
    BY <1>1, <1>2, <2>0, <2>1, HeardFrame
  <2>2. CASE q = s
    <3>0. /\ queue'[q] = Append(queue[q], Pulse) /\ queue[q] \in Seq(Clients \cup {Pulse})
          /\ Pulse \in Clients \cup {Pulse}
      BY <1>2, <2>2
    <3>1. Waits(c, q)' <=> Waits(c, q)
      BY <3>0, <2>0, AppendKeeps DEF Waits
    <3>2. Once(queue'[q], c)
      BY <3>0, <2>0, AppendKeeps DEF Heard
    <3> QED BY <1>1, <2>0, <3>1, <3>2 DEF Heard
  <2> QED BY <2>1, <2>2
<1> QED BY <1>3, <1>5, <1>6, <1>7 DEF IInv

(* The server's start.                                                      *)
LEMMA CreateIInv == ASSUME IInv, NEW s \in Servers, ChannelCreate(s) \/ StoreChid(s) PROVE IInv'
<1>0. PICK new \in {"store", "receive"} :
        /\ srv' = [srv EXCEPT ![s].pc = new] /\ UNCHANGED <<queue, client>>
        /\ srv[s].pc \in {"create", "store"} /\ shm' \in {shm, CHID}
        /\ new = "receive" => shm' = CHID
  BY DEF ChannelCreate, StoreChid
<1>1. TypeOK /\ srv[s] \in SrvT
  BY DEF IInv, TypeOK
<1> DEFINE rec == [srv[s] EXCEPT !.pc = new]
<1>2. srv' = [srv EXCEPT ![s] = rec]
  BY <1>0
<1>3. rec \in SrvT /\ rec.pc = new /\ rec.rcvid = srv[s].rcvid
  BY <1>1 DEF SrvT
<1> HIDE DEF rec
<1>4. srv'[s] = rec /\ \A q \in Servers \ {s} : srv'[q] = srv[q]
  BY <1>1, <1>2 DEF TypeOK
<1>5. TypeOK'
  BY <1>0, <1>1, <1>2, <1>3 DEF TypeOK
<1>6. ServersGoOn
  BY <1>0, <1>3, <1>4 DEF ServersGoOn, Up
<1>7. ASSUME NEW c \in Clients PROVE ClientOK(c)'
  BY <1>0, <1>1, <1>6, ClientFrame DEF IInv
<1>8. ASSUME NEW q \in Servers PROVE ServerOK(q)'
  <2>1. CASE q = s
    <3>1. srv[s].rcvid \notin Clients
      BY <1>0 DEF IInv, ServerOK
    <3> QED BY <1>0, <1>3, <1>4, <2>1, <3>1 DEF ServerOK
  <2>2. CASE q # s
    BY <1>0, <1>4, <1>6, <2>2, ServerFrame DEF IInv
  <2> QED BY <2>1, <2>2
<1>9. ASSUME NEW c \in Clients, NEW q \in Servers PROVE Heard(c, q)'
  <2>1. Served(c, q)' = Served(c, q)
    BY <1>3, <1>4 DEF Served
  <2> QED BY <1>0, <2>1, HeardFrame DEF IInv
<1> QED BY <1>5, <1>7, <1>8, <1>9 DEF IInv

LEMMA ReceiveIInv == ASSUME IInv, NEW s \in Servers, Receive(s) PROVE IInv'
<1> DEFINE from == Head(queue[s])
           rsp  == IF from = Pulse THEN srv[s].rsp ELSE calculate(client[from].msg, srv[s].rsp)
           rec  == [srv[s] EXCEPT !.pc = "reply", !.rcvid = from, !.rsp = rsp]
<1>1. /\ TypeOK /\ srv[s] \in SrvT /\ queue[s] \in Seq(Clients \cup {Pulse})
      /\ srv[s].pc = "receive" /\ queue[s] # <<>> /\ UNCHANGED <<shm, client>>
      /\ queue' = [queue EXCEPT ![s] = Tail(@)]
  BY DEF IInv, TypeOK, Receive
<1>2. srv' = [srv EXCEPT ![s] = rec]
  BY DEF Receive
<1>u. \A c \in Clients : Once(queue[s], c)
  BY DEF IInv, Heard
<1>3. from \in Clients \cup {Pulse} /\ Tail(queue[s]) \in Seq(Clients \cup {Pulse})
  BY <1>1, HeadTailProperties
<1> HIDE DEF from
<1>4. from # Pulse =>
        /\ from \in Clients /\ client[from].pc = "blocked" /\ client[from].pid = s
        /\ client[from].msg \in Msgs /\ client[from].msg \in Calcs
  <2> SUFFICES ASSUME from # Pulse
               PROVE  /\ from \in Clients /\ client[from].pc = "blocked" /\ client[from].pid = s
                      /\ client[from].msg \in Msgs /\ client[from].msg \in Calcs
    OBVIOUS
  <2>1. from \in Clients
    BY <1>3
  <2>2. Waits(from, s)
    BY <1>1, <1>u, <2>1, TailPlaces DEF Waits, from
  <2>3. client[from].pc = "blocked" /\ client[from].pid = s
    BY <2>1, <2>2 DEF IInv, Heard
  <2> QED BY <2>1, <2>3, MsgsAreCalcs DEF IInv, ClientOK
<1>5. rsp \in Rsps /\ (from # Pulse => Matches(rsp, client[from].msg))
  BY <1>1, <1>4, CalculateType, CalculateMatches DEF SrvT
<1> HIDE DEF rsp
<1>6. rec \in SrvT /\ rec.pc = "reply" /\ rec.rcvid = from /\ rec.rsp = rsp
  BY <1>1, <1>3, <1>5 DEF SrvT
<1> HIDE DEF rec
<1>7. /\ srv'[s] = rec /\ \A q \in Servers \ {s} : srv'[q] = srv[q]
      /\ queue'[s] = Tail(queue[s]) /\ \A q \in Servers \ {s} : queue'[q] = queue[q]
  BY <1>1, <1>2 DEF TypeOK
<1>8. TypeOK'
  BY <1>1, <1>2, <1>3, <1>6 DEF TypeOK
<1>9. ServersGoOn
  BY <1>1, <1>6, <1>7 DEF ServersGoOn, Up
<1>10. ASSUME NEW c \in Clients PROVE ClientOK(c)'
  BY <1>1, <1>9, ClientFrame DEF IInv
<1>11. ASSUME NEW q \in Servers PROVE ServerOK(q)'
  <2>1. CASE q = s
    <3>1. shm = CHID
      BY <1>1 DEF IInv, ServerOK
    <3>2. Pulse \notin Clients
      BY CalcAssumption
    <3> QED BY <1>1, <1>3, <1>5, <1>6, <1>7, <2>1, <3>1, <3>2 DEF ServerOK
  <2>2. CASE q # s
    BY <1>1, <1>7, <1>9, <2>2, ServerFrame DEF IInv
  <2> QED BY <2>1, <2>2
<1>12. ASSUME NEW c \in Clients, NEW q \in Servers PROVE Heard(c, q)'
  <2>0. Heard(c, q)
    BY DEF IInv
  <2>1. CASE q # s
    BY <1>1, <1>7, <2>0, <2>1, HeardFrame DEF Served
  <2>2. CASE q = s
    <3>1. ~Served(c, s)
      <4>1. srv[s].rcvid \notin Clients
        BY <1>1 DEF IInv, ServerOK
      <4> QED BY <4>1 DEF Served
    <3>2. Served(c, s)' = (from = c)
      BY <1>6, <1>7 DEF Served
    <3>3. /\ (from = c) = (Waits(c, s) /\ ~Waits(c, s)')
          /\ Waits(c, s)' => Waits(c, s)
          /\ Once(queue'[s], c)
      BY <1>1, <1>7, <1>u, TailPlaces DEF Waits, from
    <3> QED BY <1>1, <2>0, <2>2, <3>1, <3>2, <3>3 DEF Heard
  <2> QED BY <2>1, <2>2
<1> QED BY <1>8, <1>10, <1>11, <1>12 DEF IInv

LEMMA ReplyIInv == ASSUME IInv, NEW s \in Servers, MsgReply(s) PROVE IInv'
<1> DEFINE c   == srv[s].rcvid
           rec == [srv[s] EXCEPT !.pc = "receive", !.rcvid = Nobody]
           new == [client[c] EXCEPT !.pc = "answered", !.rsp = srv[s].rsp]
<1>1. /\ TypeOK /\ srv[s] \in SrvT /\ c \in Clients /\ UNCHANGED <<shm, queue>>
      /\ srv[s].pc = "reply"
  BY DEF IInv, TypeOK, SrvT, MsgReply
<1>2. srv' = [srv EXCEPT ![s] = rec] /\ client' = [client EXCEPT ![c] = new]
  BY <1>1 DEF MsgReply, TypeOK
<1>3. /\ Heard(c, s) /\ client[c].pc = "blocked" /\ client[c].pid = s /\ ~Waits(c, s)
      /\ ClientOK(c) /\ Matches(srv[s].rsp, client[c].msg)
  BY <1>1 DEF IInv, Heard, Served, ServerOK
<1>4. rec \in SrvT /\ rec.pc = "receive" /\ rec.rcvid = Nobody
  BY <1>1 DEF SrvT
<1>5. /\ new \in ClientT /\ new.pc = "answered" /\ new.rsp = srv[s].rsp /\ new.pid = s
      /\ new.msg = client[c].msg /\ new.typed = client[c].typed /\ new.ready = client[c].ready
  <2>1. client[c] \in ClientT /\ srv[s].rsp \in Rsps
    BY <1>1 DEF TypeOK, SrvT
  <2> HIDE DEF c
  <2> QED BY <1>3, <2>1 DEF ClientT
<1> HIDE DEF rec, new
<1>6. PICK k \in Clients : k = c
  BY <1>1
<1> HIDE DEF c
<1>7. /\ srv'[s] = rec /\ \A q \in Servers \ {s} : srv'[q] = srv[q]
      /\ client'[k] = new /\ \A d \in Clients \ {k} : client'[d] = client[d]
  BY <1>1, <1>2, <1>6 DEF TypeOK
<1>8. TypeOK'
  BY <1>1, <1>2, <1>4, <1>5 DEF TypeOK
<1>9. ServersGoOn
  BY <1>1, <1>4, <1>7 DEF ServersGoOn, Up
<1>10. ASSUME NEW d \in Clients PROVE ClientOK(d)'
  <2>1. CASE d = k
    <3>1. /\ client'[d].pc = "answered" /\ client'[d].rsp = srv[s].rsp /\ client'[d].pid = client[d].pid
          /\ client'[d].msg = client[d].msg /\ client'[d].typed = client[d].typed
          /\ client'[d].ready = client[d].ready
      BY <1>3, <1>5, <1>6, <1>7, <2>1
    <3>2. client[d].pc = "blocked" /\ ClientOK(d) /\ Matches(srv[s].rsp, client[d].msg)
      BY <1>3, <1>6, <2>1
    <3> QED BY <1>9, <3>1, <3>2 DEF ClientOK, ServersGoOn
  <2>2. CASE d # k
    BY <1>1, <1>7, <1>9, <2>2, ClientFrame DEF IInv
  <2> QED BY <2>1, <2>2
<1>11. ASSUME NEW q \in Servers PROVE ServerOK(q)'
  <2>1. CASE q = s
    <3>1. shm = CHID /\ Nobody \notin Clients
      BY <1>1, CalcAssumption DEF IInv, ServerOK
    <3> QED BY <1>1, <1>4, <1>7, <2>1, <3>1 DEF ServerOK
  <2>2. CASE q # s
    <3>1. srv[q].rcvid \in Clients => client'[srv[q].rcvid].msg = client[srv[q].rcvid].msg
      BY <1>5, <1>6, <1>7
    <3> QED BY <1>7, <1>9, <2>2, <3>1, ServerFrame DEF IInv
  <2> QED BY <2>1, <2>2
<1>12. ASSUME NEW d \in Clients, NEW q \in Servers PROVE Heard(d, q)'
  <2>0. Heard(d, q) /\ queue'[q] = queue[q]
    BY <1>1 DEF IInv
  <2>1. CASE q = s /\ d = k
    <3>1. ~Served(d, q)'
      BY <1>4, <1>7, <2>1, CalcAssumption DEF Served
    <3>2. ~In(queue'[q], d) /\ Once(queue'[q], d) /\ client'[d].pc # "blocked"
      BY <1>3, <1>5, <1>6, <1>7, <2>0, <2>1 DEF Heard, Waits
    <3> QED BY <3>1, <3>2 DEF Heard, Waits
  <2>2. CASE q = s /\ d # k
    <3>1. ~Served(d, q)' /\ ~Served(d, q)
      BY <1>4, <1>6, <1>7, <2>2, CalcAssumption DEF Served, c
    <3>2. client'[d] = client[d]
      BY <1>7, <2>2
    <3> QED BY <2>0, <3>1, <3>2, HeardFrame
  <2>3. CASE q # s
    <3>1. Served(d, q)' = Served(d, q)
      BY <1>7, <2>3 DEF Served
    <3>2. (client'[d].pc = "blocked" /\ client'[d].pid = q)
            = (client[d].pc = "blocked" /\ client[d].pid = q)
      BY <1>3, <1>5, <1>6, <1>7, <2>3
    <3> QED BY <2>0, <3>1, <3>2, HeardFrame
  <2> QED BY <2>1, <2>2, <2>3
<1> QED BY <1>8, <1>10, <1>11, <1>12 DEF IInv

(* The server's end, for whatever reason.                                   *)
LEMMA EndsIInv ==
  ASSUME IInv, NEW s \in Servers, NEW how \in {"failed", "killed"}, Ends(s, how)
  PROVE  IInv'
<1> DEFINE rec == [pc |-> how, rcvid |-> Nobody, rsp |-> NoRsp]
<1>1. /\ TypeOK /\ shm' = shm /\ srv' = [srv EXCEPT ![s] = rec]
      /\ queue' = [queue EXCEPT ![s] = <<>>]
      /\ client' = [c \in Clients |->
           IF client[c].pc = "blocked" /\ client[c].pid = s THEN Failed(c) ELSE client[c]]
  BY DEF IInv, Ends
<1>2. rec \in SrvT /\ rec.pc = how /\ rec.rcvid = Nobody
  BY FixedTypes DEF SrvT
<1> HIDE DEF rec
<1>3. /\ srv'[s] = rec /\ \A q \in Servers \ {s} : srv'[q] = srv[q]
      /\ queue'[s] = <<>> /\ \A q \in Servers \ {s} : queue'[q] = queue[q]
  BY <1>1 DEF TypeOK
<1>4. TypeOK'
  <2>1. client' \in [Clients -> ClientT]
    BY <1>1, FailedType DEF TypeOK
  <2>2. queue' \in [Servers -> Seq(Clients \cup {Pulse})]
    BY <1>1, EmptySeq DEF TypeOK
  <2> QED BY <1>1, <1>2, <2>1, <2>2 DEF TypeOK
<1>5. ~Up(s)' /\ ServersGoOn
  BY <1>1, <1>2, <1>3 DEF ServersGoOn, Up
<1>6. ASSUME NEW c \in Clients PROVE ClientOK(c)'
  <2>0. ClientOK(c)
    BY DEF IInv
  <2>1. CASE client[c].pc = "blocked" /\ client[c].pid = s
    <3>1. client'[c] = Failed(c)
      BY <1>1, <2>1
    <3>2. client'[c].pc = "failed" /\ client'[c].pid = s /\ client'[c].ready = client[c].ready
      BY <1>1, <2>1, <3>1, FailedType
    <3> QED BY <1>5, <2>0, <2>1, <3>2 DEF ClientOK, ServersGoOn
  <2>2. CASE ~(client[c].pc = "blocked" /\ client[c].pid = s)
    <3>1. client'[c] = client[c]
      BY <1>1, <2>2
    <3> QED BY <1>1, <1>5, <2>0, <3>1, ClientFrame
  <2> QED BY <2>1, <2>2
<1>7. ASSUME NEW q \in Servers PROVE ServerOK(q)'
  <2>1. CASE q = s
    BY <1>2, <1>3, <2>1, CalcAssumption DEF ServerOK
  <2>2. CASE q # s
    <3>1. srv[q].rcvid \in Clients => client'[srv[q].rcvid] = client[srv[q].rcvid]
      <4>1. srv[q].rcvid \in Clients => client[srv[q].rcvid].pid = q
        BY DEF IInv, Heard, Served
      <4> QED BY <1>1, <2>2, <4>1
    <3> QED BY <1>3, <1>5, <2>2, <3>1, ServerFrame DEF IInv
  <2> QED BY <2>1, <2>2
<1>8. ASSUME NEW c \in Clients, NEW q \in Servers PROVE Heard(c, q)'
  <2>0. Heard(c, q)
    BY DEF IInv
  <2>f. (client[c].pc = "blocked" /\ client[c].pid = s) => client'[c].pc = "failed"
    BY <1>1, FailedType
  <2>n. ~(client[c].pc = "blocked" /\ client[c].pid = s) => client'[c] = client[c]
    BY <1>1
  <2>1. CASE q = s
    <3>1. ~(client'[c].pc = "blocked" /\ client'[c].pid = q)
      BY <2>1, <2>f, <2>n
    <3>2. ~Served(c, q)'
      BY <1>2, <1>3, <2>1, CalcAssumption DEF Served
    <3>3. ~In(queue'[q], c) /\ Once(queue'[q], c)
      BY <1>3, <2>1 DEF In, Once
    <3> QED BY <3>1, <3>2, <3>3 DEF Heard, Waits
  <2>2. CASE q # s
    <3>1. (client'[c].pc = "blocked" /\ client'[c].pid = q)
            = (client[c].pc = "blocked" /\ client[c].pid = q)
      BY <2>2, <2>f, <2>n
    <3>2. Served(c, q)' = Served(c, q) /\ queue'[q] = queue[q]
      BY <1>3, <2>2 DEF Served
    <3> QED BY <2>0, <3>1, <3>2, HeardFrame
  <2> QED BY <2>1, <2>2
<1> QED BY <1>4, <1>6, <1>7, <1>8 DEF IInv

(* A client's end in the middle of a call.                                  *)
LEMMA KillIInv == ASSUME IInv, NEW c \in Clients, ClientKilled(c) PROVE IInv'
<1>1. /\ TypeOK /\ shm' = shm /\ client' = [client EXCEPT ![c] = Off]
      /\ queue' = [s \in Servers |-> TakenBack(queue[s], c)]
      /\ srv' = [s \in Servers |->
           IF srv[s].rcvid = c THEN [srv[s] EXCEPT !.rcvid = Nobody] ELSE srv[s]]
  BY DEF IInv, ClientKilled
<1>2. client'[c] = Off /\ \A d \in Clients \ {c} : client'[d] = client[d]
  BY <1>1 DEF TypeOK
<1>3. ASSUME NEW s \in Servers
      PROVE  /\ srv'[s] \in SrvT /\ srv'[s].pc = srv[s].pc
             /\ srv[s].rcvid = c => srv'[s].rcvid = Nobody
             /\ srv[s].rcvid # c => srv'[s] = srv[s]
  <2>1. srv[s] \in SrvT
    BY <1>1 DEF TypeOK
  <2>2. [srv[s] EXCEPT !.rcvid = Nobody] \in SrvT
        /\ [srv[s] EXCEPT !.rcvid = Nobody].pc = srv[s].pc
        /\ [srv[s] EXCEPT !.rcvid = Nobody].rcvid = Nobody
    BY <2>1 DEF SrvT
  <2> QED BY <1>1, <2>1, <2>2
<1>4. ASSUME NEW s \in Servers
      PROVE  /\ queue'[s] \in Seq(Clients \cup {Pulse}) /\ ~In(queue'[s], c)
             /\ \A d \in Clients : d # c =>
                  (In(queue'[s], d) <=> In(queue[s], d)) /\ (Once(queue[s], d) => Once(queue'[s], d))
  <2>1. queue[s] \in Seq(Clients \cup {Pulse}) /\ Once(queue[s], c)
    BY <1>1 DEF TypeOK, IInv, Heard
  <2>2. queue'[s] = TakenBack(queue[s], c)
    BY <1>1
  <2> QED BY <2>1, <2>2, TakenBackType
<1>5. TypeOK'
  <2>1. srv' \in [Servers -> SrvT]
    BY <1>1, <1>3
  <2>2. queue' \in [Servers -> Seq(Clients \cup {Pulse})]
    BY <1>1, <1>4
  <2> QED BY <1>1, <2>1, <2>2, FixedTypes DEF TypeOK
<1>6. ServersGoOn
  BY <1>1, <1>3 DEF ServersGoOn, Up
<1>7. ASSUME NEW d \in Clients PROVE ClientOK(d)'
  <2>1. CASE d = c
    BY <1>2, <2>1 DEF ClientOK, Off
  <2>2. CASE d # c
    BY <1>1, <1>2, <1>6, <2>2, ClientFrame DEF IInv
  <2> QED BY <2>1, <2>2
<1>8. ASSUME NEW s \in Servers PROVE ServerOK(s)'
  <2>1. CASE srv[s].rcvid = c
    <3>1. srv'[s].rcvid \notin Clients
      BY <1>3, <2>1, CalcAssumption
    <3> QED BY <1>1, <1>3, <3>1 DEF IInv, ServerOK
  <2>2. CASE srv[s].rcvid # c
    BY <1>2, <1>3, <1>6, <2>2, ServerFrame DEF IInv
  <2> QED BY <2>1, <2>2
<1>9. ASSUME NEW d \in Clients, NEW s \in Servers PROVE Heard(d, s)'
  <2>0. Heard(d, s)
    BY DEF IInv
  <2>1. CASE d = c
    <3>1. client'[d].pc # "blocked" /\ ~Served(d, s)'
      BY <1>2, <1>3, <2>1, CalcAssumption DEF Served, Off
    <3>2. ~In(queue'[s], d)
      BY <1>4, <2>1
    <3>3. Once(queue'[s], d)
      BY <3>2 DEF In, Once
    <3> QED BY <3>1, <3>2, <3>3 DEF Heard, Waits
  <2>2. CASE d # c
    <3>1. Served(d, s)' <=> Served(d, s)
      BY <1>3, <2>2, CalcAssumption DEF Served
    <3>2. client'[d] = client[d] /\ (In(queue'[s], d) <=> In(queue[s], d))
          /\ (Once(queue[s], d) => Once(queue'[s], d))
      BY <1>2, <1>4, <2>2
    <3> QED BY <2>0, <3>1, <3>2 DEF Heard, Waits
  <2> QED BY <2>1, <2>2
<1> QED BY <1>5, <1>7, <1>8, <1>9 DEF IInv

-----------------------------------------------------------------------------
LEMMA Invariance == Spec => []IInv
<1>1. ASSUME IInv, NEW s \in Servers, ServerStep(s) \/ ServerKilled(s) \/ StrayPulse(s) PROVE IInv'
  <2>1. CASE ReplyFails(s) \/ ServerKilled(s)
    <3>1. PICK how \in {"failed", "killed"} : Ends(s, how)
      BY <2>1 DEF ReplyFails, ServerKilled
    <3> QED BY <1>1, <3>1, EndsIInv
  <2>2. CASE ChannelCreate(s) \/ StoreChid(s)  BY <1>1, <2>2, CreateIInv
  <2>3. CASE Receive(s)  BY <1>1, <2>3, ReceiveIInv
  <2>4. CASE MsgReply(s)  BY <1>1, <2>4, ReplyIInv
  <2>5. CASE StrayPulse(s)  BY <1>1, <2>5, PulseIInv
  <2> QED BY <1>1, <2>1, <2>2, <2>3, <2>4, <2>5 DEF ServerStep
<1>2. ASSUME IInv, NEW c \in Clients, StartClient(c) \/ ClientStep(c) \/ ClientKilled(c) PROVE IInv'
  BY <1>2, StartIInv, ReadIInv, AttachIInv, SendIInv, PrintIInv, KillIInv DEF ClientStep
<1>3. IInv /\ UNCHANGED vars => IInv'
  <2> SUFFICES ASSUME IInv, UNCHANGED vars PROVE IInv'
    OBVIOUS
  <2>1. TypeOK' /\ ServersGoOn
    BY DEF IInv, TypeOK, vars, ServersGoOn, Up
  <2>2. ASSUME NEW c \in Clients PROVE ClientOK(c)'
    BY <2>1, ClientFrame DEF IInv, vars
  <2>3. ASSUME NEW s \in Servers PROVE ServerOK(s)'
    BY <2>1, ServerFrame DEF IInv, vars
  <2>4. ASSUME NEW c \in Clients, NEW s \in Servers PROVE Heard(c, s)'
    BY HeardFrame DEF IInv, vars, Served
  <2> QED BY <2>1, <2>2, <2>3, <2>4 DEF IInv
<1>4. IInv /\ [Next]_vars => IInv'
  BY <1>1, <1>2, <1>3 DEF Next
<1> QED BY InitIInv, <1>4, PTL DEF Spec

-----------------------------------------------------------------------------
THEOREM TypeCorrect == Spec => []TypeOK
<1>1. IInv => TypeOK  BY DEF IInv
<1> QED BY Invariance, <1>1, PTL

(* calculate is exact for every width of an int, whatever rsp holds.        *)
THEOREM EveryResultExact == Spec => []CalculateExact
<1>1. CalculateExact
  BY CalculateMatches DEF CalculateExact, Matches
<1> QED BY <1>1, PTL

(* Nobody gets what another client asked for.                               *)
THEOREM EveryAnswerItsOwn == Spec => []AnswersOwnQuestion
<1>1. IInv => AnswersOwnQuestion
  BY DEF IInv, ClientOK, AnswersOwnQuestion
<1> QED BY Invariance, <1>1, PTL

(* No blocked client is lost, none is in two places.                        *)
THEOREM EveryBlockedHeard == Spec => []BlockedIsHeard
<1>1. IInv => BlockedIsHeard
  BY DEF IInv, Heard, BlockedIsHeard
<1> QED BY Invariance, <1>1, PTL

(* Only its server's end makes a client fail that was started in time.      *)
THEOREM FailureIsTheServers == Spec => []FailsOnlyWithoutServer
<1>1. IInv => FailsOnlyWithoutServer
  BY DEF IInv, ClientOK, FailsOnlyWithoutServer
<1> QED BY Invariance, <1>1, PTL
-----------------------------------------------------------------------------
(* Places in the queue.                                                     *)
LEMMA PlaceIs ==
  ASSUME NEW q, NEW x, Once(q, x), NEW i \in DOMAIN q, q[i] = x
  PROVE  Place(q, x) = i
  BY DEF Place, Once, In

LEMMA PlaceExists ==
  ASSUME NEW S, NEW q \in Seq(S), NEW x, In(q, x)
  PROVE  Place(q, x) \in DOMAIN q /\ q[Place(q, x)] = x /\ Place(q, x) \in Nat \ {0}
<1>1. Place(q, x) \in DOMAIN q /\ q[Place(q, x)] = x
  BY DEF Place, In
<1>2. DOMAIN q = 1..Len(q) /\ Len(q) \in Nat
  BY LenProperties
<1> QED BY <1>1, <1>2

(* Who comes later goes to the end, ...                                     *)
LEMMA AppendPlace ==
  ASSUME NEW S, NEW q \in Seq(S), NEW x, NEW y \in S, x # y, In(q, x), Once(q, x)
  PROVE  Place(Append(q, y), x) = Place(q, x)
<1>1. Place(q, x) \in DOMAIN q /\ q[Place(q, x)] = x
  BY PlaceExists
<1>2. Place(q, x) \in DOMAIN Append(q, y) /\ Append(q, y)[Place(q, x)] = x
  BY <1>1, AppendIs
<1>3. Once(Append(q, y), x)
  BY AppendKeeps
<1> QED BY <1>2, <1>3, PlaceIs

(* ... all move up when the first is received, ...                          *)
LEMMA TailPlace ==
  ASSUME NEW S, NEW q \in Seq(S), NEW x, In(q, x), Once(q, x), Head(q) # x
  PROVE  In(Tail(q), x) /\ Place(Tail(q), x) = Place(q, x) - 1
<1> DEFINE p == Place(q, x)
           t == Tail(q)
           n == Len(q) - 1
<1>1. p \in DOMAIN q /\ q[p] = x /\ p \in Nat \ {0}
  BY PlaceExists
<1> HIDE DEF p
<1>2. q # <<>>
  BY <1>1
<1>3. n \in Nat /\ DOMAIN q = 1..(n + 1) /\ Head(q) = q[1]
  BY <1>2, LenProperties, EmptySeq
<1>4. t \in Seq(S) /\ Len(t) = n /\ \A i \in 1..n : t[i] = q[i + 1]
  BY <1>2, HeadTailProperties
<1>5. DOMAIN t = 1..n /\ Once(t, x)
  BY <1>2, <1>4, LenProperties, TailPlaces
<1> HIDE DEF t, n
<1>6. p # 1
  BY <1>1, <1>3
<1>7. p - 1 \in 1..n /\ (p - 1) + 1 = p
  BY <1>1, <1>3, <1>6
<1>8. p - 1 \in DOMAIN t /\ t[p - 1] = x
  BY <1>1, <1>4, <1>5, <1>7
<1>9. Place(t, x) = p - 1 /\ In(t, x)
  BY <1>5, <1>8, PlaceIs DEF In
<1> QED BY <1>9 DEF p, t

(* ... and those behind one that is killed move up, too.                    *)
LEMMA TakenBackPlace ==
  ASSUME NEW S, NEW q \in Seq(S), NEW c, NEW x, x # c, Once(q, c), In(q, x), Once(q, x)
  PROVE  Place(TakenBack(q, c), x) \in {Place(q, x), Place(q, x) - 1}
<1> DEFINE t == TakenBack(q, c)
           p == Place(q, x)
<1>1. p \in DOMAIN q /\ q[p] = x /\ p \in Nat \ {0}
  BY PlaceExists
<1>2. Once(t, x)
  BY TakenBackType
<1>3. CASE ~In(q, c)
  BY <1>3 DEF TakenBack
<1>4. CASE In(q, c)
  <2> DEFINE at == CHOOSE i \in DOMAIN q : q[i] = c
             n  == Len(q) - 1
  <2>1. at \in DOMAIN q /\ q[at] = c
    BY <1>4 DEF In
  <2>2. t = [i \in 1..n |-> IF i < at THEN q[i] ELSE q[i + 1]]
    BY <1>4 DEF TakenBack
  <2>3. DOMAIN q = 1..Len(q) /\ Len(q) \in Nat
    BY LenProperties
  <2> HIDE DEF at, t, p
  <2>4. n \in Nat /\ at \in 1..(n + 1) /\ p \in 1..(n + 1) /\ p # at
    BY <1>1, <2>1, <2>3
  <2> HIDE DEF n
  <2>5. CASE p < at
    <3>1. p \in 1..n
      BY <2>4, <2>5
    <3>2. p \in DOMAIN t /\ t[p] = x
      BY <1>1, <2>2, <2>5, <3>1
    <3> QED BY <1>2, <3>2, PlaceIs DEF t, p
  <2>6. CASE p > at
    <3>1. p - 1 \in 1..n /\ ~(p - 1 < at) /\ (p - 1) + 1 = p
      BY <2>4, <2>6
    <3>2. p - 1 \in DOMAIN t /\ t[p - 1] = x
      BY <1>1, <2>2, <3>1
    <3>3. Place(t, x) = p - 1
      BY <1>2, <3>2, PlaceIs
    <3> QED BY <3>3 DEF t, p
  <2> QED BY <2>4, <2>5, <2>6
<1> QED BY <1>3, <1>4

-----------------------------------------------------------------------------
Blocked(c) == client[c].pc = "blocked"

(* What a blocked client waits for can happen: its server lives, and has    *)
(* something to receive when it receives.                                   *)
Serves(s) ==
  /\ s \in Servers /\ srv[s].pc \in {"store", "receive", "reply"}

Attended(c) == Blocked(c) => Serves(client[c].pid)

LEMMA AttendedStays ==
  ASSUME NEW c \in Clients, Attended(c), client'[c] = client[c],
         \A s \in Servers : srv'[s].pc = srv[s].pc
  PROVE  Attended(c)'
  BY DEF Attended, Blocked, Serves

LEMMA ServerAttends ==
  ASSUME IInv, NEW c \in Clients, Attended(c),
         NEW s \in Servers, ServerStep(s) \/ ServerKilled(s) \/ StrayPulse(s)
  PROVE  Attended(c)'
<1>0. srv \in [Servers -> SrvT] /\ client \in [Clients -> ClientT] /\ TypeOK
  BY DEF IInv, TypeOK
<1>1. CASE ChannelCreate(s) \/ StoreChid(s) \/ Receive(s)
  <2>1. /\ client' = client /\ \A q \in Servers \ {s} : srv'[q] = srv[q]
        /\ srv'[s].pc \in {"store", "receive", "reply"}
    BY <1>0, <1>1 DEF ChannelCreate, StoreChid, Receive, SrvT
  <2> QED BY <2>1 DEF Attended, Blocked, Serves
<1>2. CASE MsgReply(s)
  <2>1. /\ \A q \in Servers \ {s} : srv'[q] = srv[q]
        /\ srv'[s].pc = "receive"
        /\ client' = [client EXCEPT ![srv[s].rcvid].pc = "answered", ![srv[s].rcvid].rsp = srv[s].rsp]
    BY <1>0, <1>2 DEF MsgReply, SrvT
  <2>2. c # srv[s].rcvid => client'[c] = client[c]
    BY <1>0, <2>1
  <2>3. c = srv[s].rcvid => client'[c].pc = "answered"
    BY <1>0, <2>1 DEF ClientT
  <2> QED BY <2>1, <2>2, <2>3 DEF Attended, Blocked, Serves
<1>3. CASE ReplyFails(s) \/ ServerKilled(s)
  <2>1. PICK how \in {"failed", "killed"} : Ends(s, how)
    BY <1>3 DEF ReplyFails, ServerKilled
  <2>2. /\ \A q \in Servers \ {s} : srv'[q] = srv[q]
        /\ client'[c] = IF Blocked(c) /\ client[c].pid = s THEN Failed(c) ELSE client[c]
    BY <1>0, <2>1 DEF Ends, Blocked
  <2>3. Failed(c).pc = "failed"
    BY <1>0, FailedType
  <2> QED BY <2>2, <2>3 DEF Attended, Blocked, Serves
<1>4. CASE StrayPulse(s)
  BY <1>4, AttendedStays DEF StrayPulse
<1> QED BY <1>1, <1>2, <1>3, <1>4 DEF ServerStep

LEMMA ClientAttended ==
  ASSUME IInv, NEW c \in Clients, Attended(c),
         NEW d \in Clients, StartClient(d) \/ ClientStep(d) \/ ClientKilled(d)
  PROVE  Attended(c)'
<1>0. srv \in [Servers -> SrvT] /\ client \in [Clients -> ClientT] /\ TypeOK
  BY DEF IInv, TypeOK
<1>1. \A s \in Servers : srv'[s].pc = srv[s].pc
  BY <1>0 DEF StartClient, ClientStep, ReadChid, ConnectAttach, MsgSend, PrintAnswer,
     ClientKilled, SrvT
<1>2. CASE d # c
  <2>1. client'[c] = client[c]
    BY <1>0, <1>2 DEF StartClient, ClientStep, ReadChid, ConnectAttach, MsgSend, PrintAnswer,
       ClientKilled
  <2> QED BY <1>1, <2>1, AttendedStays
<1>3. CASE d = c /\ MsgSend(c)
  <2>1. CASE Reachable(client[c].pid)
    <3>1. client'[c].pid = client[c].pid
      BY <1>0, <1>3, <2>1 DEF MsgSend, ClientT
    <3>2. Serves(client[c].pid)
      BY <1>0, <2>1 DEF Reachable, Serves, ClientT
    <3> QED BY <1>1, <3>1, <3>2 DEF Attended, Serves
  <2>2. CASE ~Reachable(client[c].pid)
    <3>1. client'[c] = Failed(c)
      BY <1>0, <1>3, <2>2 DEF MsgSend
    <3> QED BY <1>0, <3>1, FailedType DEF Attended, Blocked
  <2> QED BY <2>1, <2>2
<1>4. CASE d = c /\ ~MsgSend(c)
  <2>1. CASE StartClient(c)
    BY <1>0, <2>1, StartType DEF Attended, Blocked
  <2>2. CASE ReadChid(c)
    <3>1. client'[c].pc = "attach"
      BY <1>0, <2>2 DEF ReadChid, ClientT
    <3> QED BY <3>1 DEF Attended, Blocked
  <2>3. CASE ConnectAttach(c)
    <3>1. client'[c].pc \in {"send", "failed"}
      BY <1>0, <2>3, FailedType DEF ConnectAttach, ClientT
    <3> QED BY <3>1 DEF Attended, Blocked
  <2>4. CASE PrintAnswer(c)
    <3>1. client'[c].pc \in {"ended", "failed"}
      BY <1>0, <2>4, FailedType DEF PrintAnswer, Off
    <3> QED BY <3>1 DEF Attended, Blocked
  <2>5. CASE ClientKilled(c)
    BY <1>0, <2>5 DEF ClientKilled, Off, Attended, Blocked
  <2> QED BY <1>4, <2>1, <2>2, <2>3, <2>4, <2>5 DEF ClientStep
<1> QED BY <1>2, <1>3, <1>4

LEMMA AttendedInvariance == Spec => [](\A c \in Clients : Attended(c))
<1> DEFINE All == \A c \in Clients : Attended(c)
<1>1. Init => All
  BY DEF Init, Attended, Blocked, Off
<1>2. IInv /\ All /\ [Next]_vars => All'
  <2> SUFFICES ASSUME IInv, All, [Next]_vars, NEW c \in Clients PROVE Attended(c)'
    OBVIOUS
  <2>1. CASE Next
    BY <2>1, ServerAttends, ClientAttended DEF Next
  <2>2. CASE UNCHANGED vars
    BY <2>2, AttendedStays DEF vars
  <2> QED BY <2>1, <2>2
<1> QED BY Invariance, <1>1, <1>2, PTL DEF Spec

(* A blocked client's server can take its next step: it lives, has          *)
(* something to receive when it receives, and when it replies it either     *)
(* reaches the client or ends (the loop of calc_server's main).             *)
ServerNeverStuck ==
  \A c \in Clients : Blocked(c) =>
    LET s == client[c].pid
    IN /\ s \in Servers /\ Up(s)
       /\ srv[s].pc \in {"store", "receive", "reply"}
       /\ srv[s].pc = "receive" => queue[s] # <<>> /\ Head(queue[s]) \in Clients \cup {Pulse}

THEOREM BlockedIsAttended == Spec => []ServerNeverStuck
<1>1. ASSUME IInv, NEW c \in Clients, Attended(c), Blocked(c), srv[client[c].pid].pc = "receive"
      PROVE  queue[client[c].pid] # <<>> /\ Head(queue[client[c].pid]) \in Clients \cup {Pulse}
  <2> PICK s \in Servers : s = client[c].pid
    BY <1>1 DEF Attended, Serves
  <2>1. Heard(c, s) /\ ServerOK(s) /\ queue[s] \in Seq(Clients \cup {Pulse})
    BY <1>1 DEF IInv, TypeOK
  <2>2. In(queue[s], c)
    BY <1>1, <2>1 DEF Heard, ServerOK, Served, Waits, Blocked
  <2>3. queue[s] # <<>>
    BY <2>2 DEF In
  <2> QED BY <2>1, <2>3, HeadTailProperties
<1>2. IInv /\ (\A c \in Clients : Attended(c)) => ServerNeverStuck
  BY <1>1 DEF ServerNeverStuck, Attended, Serves, Up
<1> QED BY Invariance, AttendedInvariance, <1>2, PTL

-----------------------------------------------------------------------------
(* How many steps of its server, at most, until the answer to a blocked     *)
(* client: two for each before it in the queue and for itself, and what is  *)
(* left of the turn under way.                                              *)
Due(s) == IF srv[s].pc = "receive" THEN 0 ELSE 1

Left(c) ==
  LET s == client[c].pid
  IN Due(s) + (IF Served(c, s) THEN 0 ELSE 2 * Place(queue[s], c))

(* Nobody is overtaken: as long as a client is blocked no step moves it     *)
(* away from its answer, and every step of its server brings it nearer.     *)
MovesUp(c) ==
  Blocked(c) /\ Blocked(c)' =>
    Left(c)' <= Left(c) /\ (ServerStep(client[c].pid) => Left(c)' < Left(c))

BlockedMovesUp == [][\A c \in Clients : MovesUp(c)]_vars

(* Where a blocked client is.                                               *)
LEMMA LeftType ==
  ASSUME IInv, NEW c \in Clients, Blocked(c), NEW s \in Servers, s = client[c].pid
  PROVE  /\ Once(queue[s], c) /\ queue[s] \in Seq(Clients \cup {Pulse}) /\ Due(s) \in {0, 1}
         /\ Served(c, s) => srv[s].pc = "reply" /\ Left(c) = Due(s)
         /\ ~Served(c, s) => /\ In(queue[s], c) /\ Place(queue[s], c) \in Nat \ {0}
                             /\ Left(c) = Due(s) + 2 * Place(queue[s], c)
<1>1. Heard(c, s) /\ ServerOK(s) /\ queue[s] \in Seq(Clients \cup {Pulse})
  BY DEF IInv, TypeOK
<1>2. ~Served(c, s) => In(queue[s], c)
  BY <1>1 DEF Heard, Waits, Blocked
<1>3. ~Served(c, s) => Place(queue[s], c) \in Nat \ {0}
  BY <1>1, <1>2, PlaceExists
<1>4. Left(c) = Due(s) + (IF Served(c, s) THEN 0 ELSE 2 * Place(queue[s], c))
  BY DEF Left
<1>5. Due(s) \in {0, 1}
  BY DEF Due
<1>6. Served(c, s) => srv[s].pc = "reply"
  BY <1>1 DEF ServerOK, Served
<1> QED BY <1>1, <1>2, <1>3, <1>4, <1>5, <1>6 DEF Heard

(* What is done to the queue by anybody but the server moves nobody back.   *)
LEMMA OtherMovesUp ==
  ASSUME IInv, IInv', NEW c \in Clients, Blocked(c), Blocked(c)', NEW s \in Servers,
         s = client[c].pid, s = client'[c].pid, srv'[s].pc = srv[s].pc,
         Served(c, s)' <=> Served(c, s),
         ~Served(c, s) => Place(queue[s], c)' \in {Place(queue[s], c), Place(queue[s], c) - 1}
  PROVE  Left(c)' <= Left(c)
<1> DEFINE p == Place(queue[s], c)
<1>1. Due(s)' = Due(s) /\ Due(s) \in {0, 1}
  BY DEF Due
<1>2. Served(c, s) => Left(c)' = Due(s) /\ Left(c) = Due(s)
  BY <1>1 DEF Left
<1>3. ~Served(c, s) => Left(c)' = Due(s) + 2 * p' /\ Left(c) = Due(s) + 2 * p /\ p \in Nat
  BY <1>1, LeftType DEF Left
<1>4. ~Served(c, s) => p' = p \/ p' = p - 1
  OBVIOUS
<1> HIDE DEF p
<1>5. CASE Served(c, s)
  BY <1>1, <1>2, <1>5
<1>6. CASE ~Served(c, s) /\ p' = p
  BY <1>1, <1>3, <1>6
<1>7. CASE ~Served(c, s) /\ p' = p - 1
  BY <1>1, <1>3, <1>7
<1> QED BY <1>4, <1>5, <1>6, <1>7

(* A step of the client's own server.                                       *)
LEMMA OwnServerMovesUp ==
  ASSUME IInv, IInv', NEW c \in Clients, Blocked(c), Blocked(c)', NEW s \in Servers,
         s = client[c].pid, Attended(c), ServerStep(s)
  PROVE  Left(c)' < Left(c)
<1> DEFINE p == Place(queue[s], c)
<1>0. TypeOK /\ client[c].pid = s /\ srv[s] \in SrvT /\ srv[s].pc \in {"store", "receive", "reply"}
  BY DEF IInv, TypeOK, Attended, Serves
<1>1. /\ Once(queue[s], c) /\ queue[s] \in Seq(Clients \cup {Pulse})
      /\ Served(c, s) => srv[s].pc = "reply"
      /\ ~Served(c, s) => In(queue[s], c) /\ p \in Nat \ {0} /\ Left(c) = Due(s) + 2 * p
  BY <1>0, LeftType
<1>2. c # Pulse /\ c # Nobody
  BY CalcAssumption
<1>3. CASE StoreChid(s)
  <2>1. /\ client'[c].pid = s /\ queue' = queue /\ ~Served(c, s) /\ ~Served(c, s)'
        /\ Due(s) = 1 /\ Due(s)' = 0
    BY <1>0, <1>1, <1>3 DEF StoreChid, Served, Due, TypeOK, SrvT
  <2>2. Left(c)' = 0 + 2 * p
    BY <2>1 DEF Left
  <2> HIDE DEF p
  <2> QED BY <1>1, <2>1, <2>2
<1>4. CASE Receive(s)
  <2>1. /\ client' = client /\ queue'[s] = Tail(queue[s]) /\ srv[s].pc = "receive"
        /\ srv'[s].pc = "reply" /\ srv'[s].rcvid = Head(queue[s])
    BY <1>0, <1>4 DEF Receive, TypeOK, SrvT
  <2>2. ~Served(c, s) /\ Due(s) = 0 /\ Due(s)' = 1 /\ client'[c].pid = s
    BY <1>0, <1>1, <2>1 DEF Due
  <2>3. CASE Head(queue[s]) = c
    <3>1. Left(c)' = 1
      BY <2>1, <2>2, <2>3 DEF Left, Served
    <3> HIDE DEF p
    <3> QED BY <1>1, <2>2, <3>1
  <2>4. CASE Head(queue[s]) # c
    <3>1. p' = p - 1
      BY <1>1, <2>1, <2>2, <2>4, TailPlace
    <3>2. Left(c)' = 1 + 2 * p'
      BY <2>1, <2>2, <2>4 DEF Left, Served
    <3> HIDE DEF p
    <3> QED BY <1>1, <2>2, <3>1, <3>2
  <2> QED BY <2>3, <2>4
<1>5. CASE MsgReply(s)
  <2>1. /\ srv[s].pc = "reply" /\ srv'[s].pc = "receive" /\ srv'[s].rcvid = Nobody /\ queue' = queue
        /\ client' = [client EXCEPT ![srv[s].rcvid].pc = "answered", ![srv[s].rcvid].rsp = srv[s].rsp]
    BY <1>0, <1>5 DEF MsgReply, TypeOK, SrvT
  <2>2. ASSUME Served(c, s) PROVE FALSE
    <3>1. client'[c].pc = "answered"
      BY <1>0, <2>1, <2>2 DEF Served, TypeOK, ClientT
    <3> QED BY <3>1 DEF Blocked
  <2>3. client'[c] = client[c]
    BY <1>0, <2>1, <2>2 DEF Served, TypeOK
  <2>4. Left(c)' = 0 + 2 * p /\ Due(s) = 1
    BY <1>0, <1>2, <2>1, <2>3 DEF Left, Due, Served
  <2> HIDE DEF p
  <2> QED BY <1>1, <2>2, <2>4
<1>6. CASE ReplyFails(s)
  <2>1. client'[c] = Failed(c)
    BY <1>0, <1>6 DEF ReplyFails, Ends, Blocked
  <2> QED BY <1>0, <2>1, FailedType DEF Blocked
<1>7. CASE ChannelCreate(s)
  BY <1>0, <1>7 DEF ChannelCreate
<1> QED BY <1>3, <1>4, <1>5, <1>6, <1>7 DEF ServerStep

(* A step of any server, or what happens to it.                             *)
LEMMA ServersMoveUp ==
  ASSUME IInv, IInv', NEW c \in Clients, Blocked(c), Blocked(c)', NEW s \in Servers,
         s = client[c].pid, Attended(c), NEW q \in Servers,
         ServerStep(q) \/ ServerKilled(q) \/ StrayPulse(q), q = s => ~ServerStep(s)
  PROVE  Left(c)' <= Left(c)
<1>0. TypeOK /\ client[c].pid = s /\ srv[s] \in SrvT /\ queue[s] \in Seq(Clients \cup {Pulse})
  BY DEF IInv, TypeOK
<1>1. CASE StrayPulse(q)
  <2>1. client'[c].pid = s /\ srv' = srv /\ queue'[s] \in {queue[s], Append(queue[s], Pulse)}
    BY <1>0, <1>1 DEF StrayPulse, TypeOK
  <2>2. ASSUME ~Served(c, s) PROVE Place(queue[s], c)' = Place(queue[s], c)
    <3>1. In(queue[s], c) /\ Once(queue[s], c) /\ c # Pulse
      BY <2>2, LeftType, CalcAssumption
    <3>2. Place(Append(queue[s], Pulse), c) = Place(queue[s], c)
      BY <1>0, <3>1, AppendPlace
    <3> QED BY <2>1, <3>2
  <2>3. Served(c, s)' <=> Served(c, s)
    BY <2>1 DEF Served
  <2> QED BY <2>1, <2>2, <2>3, OtherMovesUp
<1>2. CASE ServerKilled(q) /\ q = s
  <2>1. client'[c] = Failed(c)
    BY <1>0, <1>2 DEF ServerKilled, Ends, Blocked
  <2> QED BY <1>0, <2>1, FailedType DEF Blocked
<1>3. CASE (ServerStep(q) \/ ServerKilled(q)) /\ q # s
  <2>1. srv'[s] = srv[s] /\ queue'[s] = queue[s]
    BY <1>0, <1>3 DEF ServerStep, ServerKilled, Ends, ChannelCreate, StoreChid, Receive,
       MsgReply, ReplyFails, TypeOK
  <2>2. client'[c].pid = s
    <3>1. CASE ChannelCreate(q) \/ StoreChid(q) \/ Receive(q)
      BY <1>0, <3>1 DEF ChannelCreate, StoreChid, Receive
    <3>2. CASE MsgReply(q)
      BY <1>0, <3>2 DEF MsgReply, TypeOK, ClientT
    <3>3. CASE ReplyFails(q) \/ ServerKilled(q)
      <4>1. client'[c] = client[c]
        BY <1>0, <1>3, <3>3 DEF ReplyFails, ServerKilled, Ends
      <4> QED BY <1>0, <4>1
    <3> QED BY <1>3, <3>1, <3>2, <3>3 DEF ServerStep
  <2>3. Served(c, s)' <=> Served(c, s)
    BY <2>1 DEF Served
  <2> QED BY <2>1, <2>2, <2>3, OtherMovesUp
<1> QED BY <1>1, <1>2, <1>3

(* What other clients do.                                                   *)
LEMMA ClientsMoveUp ==
  ASSUME IInv, IInv', NEW c \in Clients, Blocked(c), Blocked(c)', NEW s \in Servers,
         s = client[c].pid, NEW d \in Clients, StartClient(d) \/ ClientStep(d) \/ ClientKilled(d)
  PROVE  Left(c)' <= Left(c)
<1>0. /\ TypeOK /\ client[c].pid = s /\ queue[s] \in Seq(Clients \cup {Pulse})
      /\ ~Served(c, s) => In(queue[s], c) /\ Once(queue[s], c)
  BY LeftType DEF IInv, TypeOK
<1>1. d # c
  <2>1. ASSUME d = c PROVE FALSE
    <3>1. ClientKilled(c)
      BY <2>1 DEF StartClient, ClientStep, ReadChid, ConnectAttach, MsgSend, PrintAnswer, Blocked
    <3>2. client'[c] = Off
      BY <1>0, <3>1 DEF ClientKilled, TypeOK
    <3> QED BY <3>2 DEF Off, Blocked
  <2> QED BY <2>1
<1>2. client'[c] = client[c]
  BY <1>0, <1>1 DEF StartClient, ClientStep, ReadChid, ConnectAttach, MsgSend, PrintAnswer,
     ClientKilled, TypeOK
<1>3. \A q \in Servers : srv'[q].pc = srv[q].pc
  BY <1>0 DEF StartClient, ClientStep, ReadChid, ConnectAttach, MsgSend, PrintAnswer,
     ClientKilled, TypeOK, SrvT
<1>4. CASE ClientKilled(d)
  <2>1. queue'[s] = TakenBack(queue[s], d)
    BY <1>4 DEF ClientKilled
  <2>2. Served(c, s)' <=> Served(c, s)
    BY <1>0, <1>1, <1>4, CalcAssumption DEF ClientKilled, Served, TypeOK, SrvT
  <2>3. Once(queue[s], d)
    BY DEF IInv, Heard
  <2>4. ~Served(c, s) => Place(queue[s], c)' \in {Place(queue[s], c), Place(queue[s], c) - 1}
    BY <1>0, <1>1, <2>1, <2>3, TakenBackPlace
  <2> QED BY <1>0, <1>2, <1>3, <2>2, <2>4, OtherMovesUp
<1>5. CASE StartClient(d) \/ ClientStep(d)
  <2>1. srv' = srv /\ queue'[s] \in {queue[s], Append(queue[s], d)}
    BY <1>0, <1>5 DEF StartClient, ClientStep, ReadChid, ConnectAttach, MsgSend, PrintAnswer, TypeOK
  <2>2. Served(c, s)' <=> Served(c, s)
    BY <2>1 DEF Served
  <2>3. ASSUME ~Served(c, s) PROVE Place(queue[s], c)' = Place(queue[s], c)
    <3>1. Place(Append(queue[s], d), c) = Place(queue[s], c)
      BY <1>0, <1>1, <2>3, AppendPlace
    <3> QED BY <2>1, <3>1
  <2> QED BY <1>0, <1>2, <1>3, <2>2, <2>3, OtherMovesUp
<1> QED BY <1>4, <1>5

(* With BlockedIsAttended this is the safety part of Released: a server     *)
(* that goes on answers every client that is blocked on it, or ends.        *)
THEOREM NobodyOvertaken == Spec => BlockedMovesUp
<1>1. ASSUME IInv, IInv', [Next]_vars, NEW c \in Clients, Attended(c), Attended(c)',
             Blocked(c), Blocked(c)'
      PROVE  Left(c)' <= Left(c) /\ (ServerStep(client[c].pid) => Left(c)' < Left(c))
  <2> PICK s \in Servers : s = client[c].pid
    BY <1>1 DEF Attended, Serves
  <2> PICK t \in Servers : t = client'[c].pid
    BY <1>1 DEF Attended, Serves
  <2>1. Left(c) \in Int /\ Left(c)' \in Int
    <3>1. /\ Heard(c, s) /\ queue[s] \in Seq(Clients \cup {Pulse})
          /\ Heard(c, t)' /\ queue'[t] \in Seq(Clients \cup {Pulse})
      BY <1>1 DEF IInv, TypeOK
    <3>2. /\ ~Served(c, s) => In(queue[s], c)
          /\ ~Served(c, t)' => In(queue'[t], c)
      BY <1>1, <3>1 DEF Heard, Waits, Blocked
    <3>3. /\ ~Served(c, s) => Place(queue[s], c) \in Int
          /\ ~Served(c, t)' => Place(queue'[t], c) \in Int
      BY <3>1, <3>2, PlaceExists
    <3>4. Due(s) \in Int /\ Due(t)' \in Int
      BY DEF Due
    <3>5. /\ Left(c) = Due(s) + (IF Served(c, s) THEN 0 ELSE 2 * Place(queue[s], c))
          /\ Left(c)' = Due(t)' + (IF Served(c, t)' THEN 0 ELSE 2 * Place(queue'[t], c))
      BY DEF Left, Served, Due
    <3> QED BY <3>3, <3>4, <3>5
  <2>2. CASE ServerStep(s)
    <3>1. Left(c)' < Left(c)
      BY <1>1, <2>2, OwnServerMovesUp
    <3> QED BY <2>1, <3>1
  <2>3. CASE ~ServerStep(s)
    <3>1. CASE UNCHANGED vars
      <4>1. Left(c)' = Left(c)
        BY <3>1 DEF vars, Left, Due, Served
      <4> QED BY <2>1, <2>3, <4>1
    <3>2. ASSUME NEW q \in Servers, ServerStep(q) \/ ServerKilled(q) \/ StrayPulse(q)
          PROVE  Left(c)' <= Left(c)
      BY <1>1, <2>3, <3>2, ServersMoveUp
    <3>3. ASSUME NEW d \in Clients, StartClient(d) \/ ClientStep(d) \/ ClientKilled(d)
          PROVE  Left(c)' <= Left(c)
      BY <1>1, <3>3, ClientsMoveUp
    <3> QED BY <1>1, <2>3, <3>1, <3>2, <3>3 DEF Next
  <2> QED BY <2>2, <2>3
<1> DEFINE All == \A c \in Clients : Attended(c)
           Up1 == \A c \in Clients : MovesUp(c)
<1>2. IInv /\ IInv' /\ All /\ All' /\ [Next]_vars => [Up1]_vars
  BY <1>1 DEF MovesUp
<1>3. BlockedMovesUp <=> [][Up1]_vars
  BY DEF BlockedMovesUp
<1> HIDE DEF All, Up1
<1>4. Spec => []All
  BY AttendedInvariance DEF All
<1> QED BY Invariance, <1>2, <1>3, <1>4, PTL DEF Spec

-----------------------------------------------------------------------------
(* A client comes to its end by printing, and to a refusal by its start.    *)
LEMMA EndedOrRefused ==
  ASSUME IInv, [Next]_vars, NEW c \in Clients, client'[c].pc \in {"ended", "refused"}
  PROVE  client'[c] = client[c] \/ PrintAnswer(c) \/ StartClient(c)
<1>0. TypeOK /\ client[c] \in ClientT
  BY DEF IInv, TypeOK
<1>1. ASSUME NEW s \in Servers, ServerStep(s) \/ ServerKilled(s) \/ StrayPulse(s)
      PROVE  client'[c] = client[c]
  <2>1. CASE MsgReply(s)
    <3>1. client' = [client EXCEPT ![srv[s].rcvid].pc = "answered", ![srv[s].rcvid].rsp = srv[s].rsp]
      BY <2>1 DEF MsgReply
    <3>2. c = srv[s].rcvid => client'[c].pc = "answered"
      BY <1>0, <3>1 DEF TypeOK, ClientT
    <3> QED BY <1>0, <3>1, <3>2 DEF TypeOK
  <2>2. CASE ReplyFails(s) \/ ServerKilled(s)
    <3>1. client'[c] = Failed(c) \/ client'[c] = client[c]
      BY <2>2 DEF ReplyFails, ServerKilled, Ends
    <3>2. Failed(c).pc = "failed"
      BY <1>0, FailedType
    <3> QED BY <3>1, <3>2
  <2>3. CASE ChannelCreate(s) \/ StoreChid(s) \/ Receive(s) \/ StrayPulse(s)
    BY <2>3 DEF ChannelCreate, StoreChid, Receive, StrayPulse
  <2> QED BY <1>1, <2>1, <2>2, <2>3 DEF ServerStep
<1>2. ASSUME NEW d \in Clients, StartClient(d) \/ ClientStep(d) \/ ClientKilled(d), d # c
      PROVE  client'[c] = client[c]
  BY <1>0, <1>2 DEF StartClient, ClientStep, ReadChid, ConnectAttach, MsgSend, PrintAnswer,
     ClientKilled, TypeOK
<1>3. ASSUME ReadChid(c) \/ ConnectAttach(c) \/ MsgSend(c) \/ ClientKilled(c)
      PROVE  client'[c].pc \notin {"ended", "refused"}
  <2>1. Failed(c).pc = "failed" /\ Off.pc = "off"
    BY <1>0, FailedType DEF Off
  <2>2. CASE ReadChid(c)
    BY <1>0, <2>2 DEF ReadChid, TypeOK, ClientT
  <2>3. CASE ConnectAttach(c)
    BY <1>0, <2>1, <2>3 DEF ConnectAttach, TypeOK, ClientT
  <2>4. CASE MsgSend(c)
    BY <1>0, <2>1, <2>4 DEF MsgSend, TypeOK, ClientT
  <2>5. CASE ClientKilled(c)
    BY <1>0, <2>1, <2>5 DEF ClientKilled, TypeOK
  <2> QED BY <1>3, <2>2, <2>3, <2>4, <2>5
<1>4. CASE UNCHANGED vars
  BY <1>4 DEF vars
<1> QED BY <1>1, <1>2, <1>3, <1>4 DEF Next, ClientStep

(* What a client prints of a calculation without negative operands is that  *)
(* calculation: %u is right for them (EchoesOperands fails for others).     *)
EchoesPositive ==
  \A c \in Clients :
    (client[c].pc = "ended" /\ client[c].typed.left_hand >= 0 /\ client[c].typed.right_hand >= 0)
      => client[c].out.calc = client[c].typed

THEOREM PositiveOperandsEchoed == Spec => []EchoesPositive
<1>1. Init => EchoesPositive
  BY DEF Init, Off, EchoesPositive
<1>2. IInv /\ EchoesPositive /\ [Next]_vars => EchoesPositive'
  <2> SUFFICES ASSUME IInv, EchoesPositive, [Next]_vars, NEW c \in Clients, client'[c].pc = "ended",
                      client'[c].typed.left_hand >= 0, client'[c].typed.right_hand >= 0
               PROVE  client'[c].out.calc = client'[c].typed
    BY DEF EchoesPositive
  <2>1. client'[c] = client[c] \/ PrintAnswer(c) \/ StartClient(c)
    BY EndedOrRefused
  <2>2. CASE client'[c] = client[c]
    BY <2>2 DEF EchoesPositive
  <2>3. CASE StartClient(c)
    BY <2>3, StartType DEF IInv
  <2>4. CASE PrintAnswer(c)
    <3> DEFINE m == client[c].msg
               r == client[c].rsp
    <3>1. m = client[c].typed /\ m \in Msgs /\ Matches(r, m) /\ client \in [Clients -> ClientT]
      BY <2>4 DEF PrintAnswer, IInv, ClientOK, TypeOK
    <3>2. client' = [client EXCEPT ![c] = [Off EXCEPT !.pc = "ended", !.typed = client[c].typed,
                                                       !.out = Printed(c)]]
      <4>1. r.statusCode # "any"
        BY <3>1 DEF Matches, Verdict
      <4> QED BY <2>4, <4>1 DEF PrintAnswer
    <3>3. client'[c].typed = m /\ client'[c].out = Printed(c)
      BY <3>1, <3>2 DEF Off
    <3>4. CASE r.statusCode # "OK"
      BY <3>1, <3>3, <3>4 DEF Printed, Matches
    <3>5. CASE r.statusCode = "OK"
      <4>1. Printed(c).calc = Calculation(Unsigned(m.left_hand), m.operator, Unsigned(m.right_hand))
        BY <3>5 DEF Printed
      <4>2. m.left_hand \in Int /\ m.right_hand \in Int
        BY <3>1, MsgsAreCalcs DEF Calcs
      <4>3. Unsigned(m.left_hand) = m.left_hand /\ Unsigned(m.right_hand) = m.right_hand
        BY <3>3, <4>2 DEF Unsigned
      <4>4. Calculation(m.left_hand, m.operator, m.right_hand) = m
        BY <3>1 DEF Calculation, Msgs
      <4> QED BY <3>3, <4>1, <4>3, <4>4
    <3> QED BY <3>4, <3>5
  <2> QED BY <2>1, <2>2, <2>3, <2>4
<1> QED BY Invariance, <1>1, <1>2, PTL DEF Spec
=============================================================================
