------------------------- MODULE DesControllerProofs -------------------------
(***************************************************************************)
(* The controller's safety for every set of numbers a message can carry.    *)
(* Interlock is not inductive: a handler moves its door without looking at  *)
(* the others.  What each handler relies on is in Chamber.                  *)
(*                                                                          *)
(* In the second part, the controller implements the chamber of Airlock.  A *)
(* transition is recognised by the handlers it goes between; Chamber, before*)
(* and after it, says where the doors and guards are.                       *)
(***************************************************************************)
EXTENDS DesController, TLAPS

(* The inductive invariant.                                                 *)
IInv == TypeOK /\ Chamber /\ CrossingRecorded /\ LogAgrees

(* A context in which the handler of s may be called.                       *)
Ready(s, ctx) == ctx \in Contexts /\ ChamberAt(s, ctx) /\ RecordedAt(s, ctx)

(* The initial state has the invariant.                                     *)
LEMMA InitIInv == Init => IInv
<1> SUFFICES ASSUME Init PROVE IInv OBVIOUS
<1>1. TypeOK
  BY ExtrasAssumption DEF Init, TypeOK, States, Contexts, Codes, FirstContext
<1>2. Chamber
  BY DEF Init, Chamber, ChamberAt, Position, FirstContext
<1>3. CrossingRecorded
  BY DEF Init, CrossingRecorded, RecordedAt, Weighed, Leaving
<1>4. LogAgrees
  BY DEF Init, LogAgrees
<1> QED BY <1>1, <1>2, <1>3, <1>4 DEF IInv

(* An answer that changes nothing keeps it,                                 *)
LEMMA AnswerIInv ==
  ASSUME IInv, NEW c \in Codes, Answer(c)
  PROVE  IInv'
  BY DEF IInv, TypeOK, Chamber, CrossingRecorded, LogAgrees, Answer

(* and so do exit and commands a handler does not expect.                   *)
LEMMA OtherwiseIInv ==
  ASSUME IInv, NEW msg, NEW expected, Otherwise(msg, expected)
  PROVE  IInv'
  BY AnswerIInv DEF Otherwise, state_exit, Codes

(* Moving on keeps it if the next handler is given what it relies on.       *)
LEMMA AcceptIInv ==
  ASSUME NEW ctx, NEW to \in States, Ready(to, ctx), Accept(ctx, to)
  PROVE  IInv'
  BY DEF Ready, IInv, TypeOK, Chamber, CrossingRecorded, LogAgrees, Accept, update_display, Codes

(* The restart keeps it if the doors and guards are where it puts them.     *)
LEMMA RestartIInv ==
  ASSUME NEW shown \in Contexts, get_first_state(shown),
         Position(shown, FALSE, FALSE, TRUE, TRUE)
  PROVE  IInv'
<1> USE DEF get_first_state, update_display
<1>1. FirstContext \in Contexts
  BY ExtrasAssumption DEF FirstContext, Contexts
<1>2. TypeOK'
  BY <1>1 DEF TypeOK, States, Codes
<1>3. Chamber'
  BY DEF Chamber, ChamberAt, Position, FirstContext
<1>4. CrossingRecorded'
  BY DEF CrossingRecorded, RecordedAt, Weighed, Leaving
<1>5. LogAgrees'
  <2>1. \A f \in Actuators : shown[f] = FirstContext[f]
    <3>1. shown["left_door_open"] = FirstContext["left_door_open"]
      BY DEF Position, FirstContext
    <3>2. shown["right_door_open"] = FirstContext["right_door_open"]
      BY DEF Position, FirstContext
    <3>3. shown["left_guard_locked"] = FirstContext["left_guard_locked"]
      BY DEF Position, FirstContext
    <3>4. shown["right_guard_locked"] = FirstContext["right_guard_locked"]
      BY DEF Position, FirstContext
    <3> QED BY <3>1, <3>2, <3>3, <3>4 DEF Actuators
  <2> QED BY <2>1 DEF LogAgrees
<1> QED BY <1>2, <1>3, <1>4, <1>5 DEF IInv

(* Every handler keeps it.                                                  *)
LEMMA HandlerIInv ==
  ASSUME IInv, NEW msg \in Msgs, CallHandler(msg)
  PROVE  IInv'
<1> USE OtherwiseIInv, AcceptIInv
    DEF IInv, TypeOK, Chamber, ChamberAt, CrossingRecorded, RecordedAt,
        Ready, Position, Contexts, Weighed, Leaving, States, Msgs
<1>1. CASE state_start(msg)
  BY <1>1, AnswerIInv DEF state_start, Codes
<1>2. CASE state_gll_alpha(msg)
  BY <1>2 DEF state_gll_alpha
<1>3. CASE state_grl_alpha(msg)
  BY <1>3 DEF state_grl_alpha
<1>4. CASE state_lc_alpha(msg)
  BY <1>4 DEF state_lc_alpha
<1>5. CASE state_rc_alpha(msg)
  BY <1>5 DEF state_rc_alpha
<1>6. CASE state_opened(msg)
  BY <1>6, AnswerIInv DEF state_opened, Codes
<1>7. CASE state_weight(msg)
  BY <1>7, AnswerIInv DEF state_weight, Codes
<1>8. CASE state_lc_beta(msg)
  BY <1>8 DEF state_lc_beta
<1>9. CASE state_rc_beta(msg)
  BY <1>9 DEF state_rc_beta
<1>10. CASE state_guard_locked(msg)
  BY <1>10 DEF state_guard_locked
<1>11. CASE state_glu(msg)
  BY <1>11 DEF state_glu
<1>12. CASE state_gru(msg)
  BY <1>12 DEF state_gru
<1>13. CASE state_lo(msg)
  BY <1>13 DEF state_lo
<1>14. CASE state_ro(msg)
  BY <1>14 DEF state_ro
<1>15. CASE state_lc_gamma(msg)
  <2>1. CASE Otherwise(msg, {"gll"})
    BY <2>1
  <2>2. CASE get_first_state([context EXCEPT !.left_guard_locked = TRUE])
    BY <1>15, <2>2, RestartIInv DEF state_lc_gamma
  <2> QED BY <1>15, <2>1, <2>2 DEF state_lc_gamma
<1>16. CASE state_rc_gamma(msg)
  <2>1. CASE Otherwise(msg, {"grl"})
    BY <2>1
  <2>2. CASE get_first_state([context EXCEPT !.right_guard_locked = TRUE])
    BY <1>16, <2>2, RestartIInv DEF state_rc_gamma
  <2> QED BY <1>16, <2>1, <2>2 DEF state_rc_gamma
<1> QED
  BY <1>1, <1>2, <1>3, <1>4, <1>5, <1>6, <1>7, <1>8,
     <1>9, <1>10, <1>11, <1>12, <1>13, <1>14, <1>15, <1>16 DEF CallHandler

-----------------------------------------------------------------------------
(* The inductive invariant holds of every reachable state.                  *)
THEOREM Invariance == Spec => []IInv
<1>1. IInv /\ [Next]_vars => IInv'
  <2> SUFFICES ASSUME IInv, [Next]_vars PROVE IInv' OBVIOUS
  <2>1. CASE Next
    BY <2>1, HandlerIInv DEF Next
  <2>2. CASE UNCHANGED vars
    BY <2>2 DEF IInv, TypeOK, Chamber, CrossingRecorded, LogAgrees, vars
  <2> QED BY <2>1, <2>2
<1> QED BY InitIInv, <1>1, PTL DEF Spec

(* The state stays within its types, so that every call of next_state has a *)
(* handler: the assertion in main never fails.                              *)
THEOREM TypeCorrect == Spec => []TypeOK
<1>1. IInv => TypeOK BY DEF IInv
<1> QED BY Invariance, <1>1, PTL

(* No sequence of commands opens both doors, opens a door whose guard is    *)
(* locked or unlocks both guards.                                           *)
THEOREM InterlockSafe == Spec => []Interlock
<1>1. IInv => Interlock
  BY DEF IInv, TypeOK, States, Chamber, ChamberAt, Position, Interlock
<1> QED BY Invariance, <1>1, PTL

(* From the scan to the restart the user's id is known, and from the scale  *)
(* on the weight.                                                           *)
THEOREM CrossingsRecorded == Spec => []CrossingRecorded
<1>1. IInv => CrossingRecorded BY DEF IInv
<1> QED BY Invariance, <1>1, PTL

(* The shared log agrees with the doors and guards and, during a crossing,  *)
(* with the whole context.                                                  *)
THEOREM LogIsCurrent == Spec => []LogAgrees
<1>1. IInv => LogAgrees BY DEF IInv
<1> QED BY Invariance, <1>1, PTL

-----------------------------------------------------------------------------
(* An event that is not answered OK changes nothing and sends no pulse.     *)
THEOREM RefusalIsHarmless == Spec => RefusalChangesNothing
<1> DEFINE Harmless == code' # "OK" => /\ UNCHANGED <<next_state, context, disp_log>>
                                       /\ ~notify'
<1>1. [Next]_vars => [Harmless]_vars
  BY DEF Next, CallHandler, Otherwise, Answer, state_exit, Accept, get_first_state,
         state_start, state_gll_alpha, state_grl_alpha, state_lc_alpha,
         state_rc_alpha, state_opened, state_weight, state_lc_beta,
         state_rc_beta, state_guard_locked, state_glu, state_gru, state_lo,
         state_ro, state_lc_gamma, state_rc_gamma
<1> QED BY <1>1, PTL DEF Spec, RefusalChangesNothing

-----------------------------------------------------------------------------
(* At most one of the doors and guards is in another position.              *)
OneMoved == \A f, g \in Actuators :
              context'[f] # context[f] /\ context'[g] # context[g] => f = g

(* Storing one field moves at most one of them.                             *)
LEMMA AcceptMovesOne ==
  ASSUME context \in Contexts, NEW to, NEW v,
         \/ Accept([context EXCEPT !.left_door_open = v], to)
         \/ Accept([context EXCEPT !.right_door_open = v], to)
         \/ Accept([context EXCEPT !.left_guard_locked = v], to)
         \/ Accept([context EXCEPT !.right_guard_locked = v], to)
         \/ Accept([context EXCEPT !.user_id = v], to)
         \/ Accept([context EXCEPT !.user_weight = v], to)
  PROVE  OneMoved
  BY DEF Contexts, OneMoved, Actuators, Accept

(* An answer moves none.                                                    *)
LEMMA OtherwiseMovesNone ==
  ASSUME NEW msg, NEW expected, Otherwise(msg, expected)
  PROVE  OneMoved
  BY DEF Otherwise, state_exit, Answer, OneMoved

(* Every handler moves at most one; the restart, because all but the guard  *)
(* just locked are where it puts them.                                      *)
LEMMA HandlerMovesOne ==
  ASSUME IInv, NEW msg \in Msgs, CallHandler(msg)
  PROVE  OneMoved
<1> USE OtherwiseMovesNone, AcceptMovesOne DEF IInv, TypeOK
<1>a. ASSUME NEW c, Answer(c) PROVE OneMoved
  BY <1>a DEF Answer, OneMoved
<1>1. CASE state_start(msg)
  BY <1>1, <1>a DEF state_start
<1>2. CASE state_gll_alpha(msg)
  BY <1>2 DEF state_gll_alpha
<1>3. CASE state_grl_alpha(msg)
  BY <1>3 DEF state_grl_alpha
<1>4. CASE state_lc_alpha(msg)
  BY <1>4 DEF state_lc_alpha
<1>5. CASE state_rc_alpha(msg)
  BY <1>5 DEF state_rc_alpha
<1>6. CASE state_opened(msg)
  BY <1>6, <1>a DEF state_opened
<1>7. CASE state_weight(msg)
  BY <1>7, <1>a DEF state_weight
<1>8. CASE state_lc_beta(msg)
  BY <1>8 DEF state_lc_beta
<1>9. CASE state_rc_beta(msg)
  BY <1>9 DEF state_rc_beta
<1>10. CASE state_guard_locked(msg)
  BY <1>10 DEF state_guard_locked
<1>11. CASE state_glu(msg)
  BY <1>11 DEF state_glu
<1>12. CASE state_gru(msg)
  BY <1>12 DEF state_gru
<1>13. CASE state_lo(msg)
  BY <1>13 DEF state_lo
<1>14. CASE state_ro(msg)
  BY <1>14 DEF state_ro
<1>15. CASE state_lc_gamma(msg)
  <2>1. CASE Otherwise(msg, {"gll"})
    BY <2>1
  <2>2. CASE context' = FirstContext
    <3>1. Position(context, FALSE, FALSE, FALSE, TRUE)
      BY <1>15 DEF state_lc_gamma, Chamber, ChamberAt
    <3>2. context'["left_door_open"] = context["left_door_open"]
      BY <2>2, <3>1 DEF Position, FirstContext
    <3>3. context'["right_door_open"] = context["right_door_open"]
      BY <2>2, <3>1 DEF Position, FirstContext
    <3>4. context'["right_guard_locked"] = context["right_guard_locked"]
      BY <2>2, <3>1 DEF Position, FirstContext
    <3> QED BY <3>2, <3>3, <3>4 DEF OneMoved, Actuators
  <2> QED BY <1>15, <2>1, <2>2 DEF state_lc_gamma, get_first_state
<1>16. CASE state_rc_gamma(msg)
  <2>1. CASE Otherwise(msg, {"grl"})
    BY <2>1
  <2>2. CASE context' = FirstContext
    <3>1. Position(context, FALSE, FALSE, TRUE, FALSE)
      BY <1>16 DEF state_rc_gamma, Chamber, ChamberAt
    <3>2. context'["left_door_open"] = context["left_door_open"]
      BY <2>2, <3>1 DEF Position, FirstContext
    <3>3. context'["right_door_open"] = context["right_door_open"]
      BY <2>2, <3>1 DEF Position, FirstContext
    <3>4. context'["left_guard_locked"] = context["left_guard_locked"]
      BY <2>2, <3>1 DEF Position, FirstContext
    <3> QED BY <3>2, <3>3, <3>4 DEF OneMoved, Actuators
  <2> QED BY <1>16, <2>1, <2>2 DEF state_rc_gamma, get_first_state
<1> QED
  BY <1>1, <1>2, <1>3, <1>4, <1>5, <1>6, <1>7, <1>8,
     <1>9, <1>10, <1>11, <1>12, <1>13, <1>14, <1>15, <1>16 DEF CallHandler

(* No event moves two doors or guards, not even the one that restarts.      *)
THEOREM EventsMoveOne == Spec => OneActuatorPerEvent
<1>1. IInv /\ [Next]_vars => [OneMoved]_vars
  BY HandlerMovesOne DEF Next
<1> QED BY Invariance, <1>1, PTL DEF Spec, OneActuatorPerEvent, OneMoved

-----------------------------------------------------------------------------
(* The controller starts with an empty chamber.                             *)
LEMMA InitA == Init => A!Init
  BY DEF Init, A!Init, FirstContext, SidesOf, A!NoSide

(* The chamber is a function of next_state and context.                     *)
LEMMA Still ==
  ASSUME UNCHANGED <<next_state, context>>
  PROVE  UNCHANGED A!avars
  BY DEF A!avars

(* Every handler takes one step of the chamber or none.                     *)
LEMMA HandlerA ==
  ASSUME IInv, NEW msg \in Msgs, CallHandler(msg)
  PROVE  A!Next \/ UNCHANGED A!avars
<1>a. Chamber /\ Chamber' BY HandlerIInv DEF IInv
<1>b. ASSUME NEW expected, Otherwise(msg, expected) PROVE UNCHANGED A!avars
  BY <1>b, Still DEF Otherwise, state_exit, Answer
<1>c. ASSUME NEW c, Answer(c) PROVE UNCHANGED A!avars
  BY <1>c, Still DEF Answer
<1>1. CASE state_start(msg)
  <2>1. CASE next_state' = "gll_alpha"
    <3>1. A!Identify("left")
      BY <1>1, <2>1, <1>a DEF state_start, Chamber, ChamberAt, Position, SidesOf,
         Weighed, Leaving, A!Identify
    <3> QED BY <3>1 DEF A!Next
  <2>2. CASE next_state' = "grl_alpha"
    <3>1. A!Identify("right")
      BY <1>1, <2>2, <1>a DEF state_start, Chamber, ChamberAt, Position, SidesOf,
         Weighed, Leaving, A!Identify
    <3> QED BY <3>1 DEF A!Next
  <2> QED BY <1>1, <1>b, <1>c, <2>1, <2>2 DEF state_start, Accept
<1>2. CASE state_gll_alpha(msg)
  <2>1. CASE next_state' = "lc_alpha"
    <3>1. A!Admit("left")
      BY <1>2, <2>1, <1>a DEF state_gll_alpha, Chamber, ChamberAt, Position, SidesOf,
         Weighed, Leaving, A!Admit
    <3> QED BY <3>1 DEF A!Next
  <2> QED BY <1>2, <1>b, <2>1 DEF state_gll_alpha, Accept
<1>3. CASE state_grl_alpha(msg)
  <2>1. CASE next_state' = "rc_alpha"
    <3>1. A!Admit("right")
      BY <1>3, <2>1, <1>a DEF state_grl_alpha, Chamber, ChamberAt, Position, SidesOf,
         Weighed, Leaving, A!Admit
    <3> QED BY <3>1 DEF A!Next
  <2> QED BY <1>3, <1>b, <2>1 DEF state_grl_alpha, Accept
<1>4. CASE state_lc_alpha(msg)
  <2>1. CASE next_state' = "opened"
    <3>1. Position(context, FALSE, FALSE, FALSE, TRUE)
      BY <1>4, <1>a DEF state_lc_alpha, Chamber, ChamberAt
    <3>2. Position(context', TRUE, FALSE, FALSE, TRUE)
      BY <1>4, <2>1, <3>1 DEF state_lc_alpha, Otherwise, state_exit, Answer, Accept,
         Position, IInv, TypeOK, Contexts
    <3>3. A!Open("left")
      BY <1>4, <2>1, <3>1, <3>2 DEF state_lc_alpha, Position, SidesOf, Weighed, Leaving,
         A!Open, A!NoSide
    <3> QED BY <3>3 DEF A!Next
  <2> QED BY <1>4, <1>b, <2>1 DEF state_lc_alpha, Accept
<1>5. CASE state_rc_alpha(msg)
  <2>1. CASE next_state' = "opened"
    <3>1. Position(context, FALSE, FALSE, TRUE, FALSE)
      BY <1>5, <1>a DEF state_rc_alpha, Chamber, ChamberAt
    <3>2. Position(context', FALSE, TRUE, TRUE, FALSE)
      BY <1>5, <2>1, <3>1 DEF state_rc_alpha, Otherwise, state_exit, Answer, Accept,
         Position, IInv, TypeOK, Contexts
    <3>3. A!Open("right")
      BY <1>5, <2>1, <3>1, <3>2 DEF state_rc_alpha, Position, SidesOf, Weighed, Leaving,
         A!Open, A!NoSide
    <3> QED BY <3>3 DEF A!Next
  <2> QED BY <1>5, <1>b, <2>1 DEF state_rc_alpha, Accept
<1>6. CASE state_opened(msg)
  <2>1. CASE next_state' = "weight"
    <3>1. \A f \in Actuators : context'[f] = context[f]
      BY <1>6, <2>1 DEF state_opened, Otherwise, state_exit, Answer, Accept,
         IInv, TypeOK, Contexts, Actuators
    <3>2. context.left_door_open \/ context.right_door_open
      BY <1>6, <1>a DEF state_opened, Chamber, ChamberAt, Position
    <3>3. A!Weigh
      BY <1>6, <2>1, <3>1, <3>2 DEF state_opened, Actuators, SidesOf, Weighed, Leaving,
         A!Weigh
    <3> QED BY <3>3 DEF A!Next
  <2> QED BY <1>6, <1>b, <1>c, <2>1 DEF state_opened, Accept
<1>7. CASE state_weight(msg)
  <2>1. CASE next_state' = "lc_beta"
    <3>1. context.left_door_open
      BY <1>7, <2>1 DEF state_weight, Otherwise, state_exit, Answer, Accept
    <3>2. Position(context, TRUE, FALSE, FALSE, TRUE)
      BY <1>7, <1>a, <3>1 DEF state_weight, Chamber, ChamberAt, Position
    <3>3. Position(context', FALSE, FALSE, FALSE, TRUE)
      BY <2>1, <1>a DEF Chamber, ChamberAt
    <3>4. A!Close("left")
      BY <1>7, <2>1, <3>2, <3>3 DEF state_weight, Position, SidesOf, Weighed, Leaving,
         A!Close
    <3> QED BY <3>4 DEF A!Next
  <2>2. CASE next_state' = "rc_beta"
    <3>1. context.right_door_open
      BY <1>7, <2>2 DEF state_weight, Otherwise, state_exit, Answer, Accept
    <3>2. Position(context, FALSE, TRUE, TRUE, FALSE)
      BY <1>7, <1>a, <3>1 DEF state_weight, Chamber, ChamberAt, Position
    <3>3. Position(context', FALSE, FALSE, TRUE, FALSE)
      BY <2>2, <1>a DEF Chamber, ChamberAt
    <3>4. A!Close("right")
      BY <1>7, <2>2, <3>2, <3>3 DEF state_weight, Position, SidesOf, Weighed, Leaving,
         A!Close
    <3> QED BY <3>4 DEF A!Next
  <2> QED BY <1>7, <1>b, <1>c, <2>1, <2>2 DEF state_weight, Otherwise, state_exit, Answer, Accept
<1>8. CASE state_lc_beta(msg)
  <2>1. CASE next_state' = "guard_locked"
    <3>1. A!Lock("left")
      BY <1>8, <2>1, <1>a DEF state_lc_beta, Chamber, ChamberAt, Position, SidesOf,
         Weighed, Leaving, A!Lock
    <3> QED BY <3>1 DEF A!Next
  <2> QED BY <1>8, <1>b, <2>1 DEF state_lc_beta, Accept
<1>9. CASE state_rc_beta(msg)
  <2>1. CASE next_state' = "guard_locked"
    <3>1. A!Lock("right")
      BY <1>9, <2>1, <1>a DEF state_rc_beta, Chamber, ChamberAt, Position, SidesOf,
         Weighed, Leaving, A!Lock
    <3> QED BY <3>1 DEF A!Next
  <2> QED BY <1>9, <1>b, <2>1 DEF state_rc_beta, Accept
<1>10. CASE state_guard_locked(msg)
  <2>1. CASE next_state' = "glu"
    <3>1. A!Release("left")
      BY <1>10, <2>1, <1>a DEF state_guard_locked, Chamber, ChamberAt, Position, SidesOf,
         Weighed, Leaving, A!Release
    <3> QED BY <3>1 DEF A!Next
  <2>2. CASE next_state' = "gru"
    <3>1. A!Release("right")
      BY <1>10, <2>2, <1>a DEF state_guard_locked, Chamber, ChamberAt, Position, SidesOf,
         Weighed, Leaving, A!Release
    <3> QED BY <3>1 DEF A!Next
  <2> QED BY <1>10, <1>b, <2>1, <2>2 DEF state_guard_locked, Accept
<1>11. CASE state_glu(msg)
  <2>1. CASE next_state' = "lo"
    <3>1. A!Open("left")
      BY <1>11, <2>1, <1>a DEF state_glu, Chamber, ChamberAt, Position, SidesOf,
         Weighed, Leaving, A!Open, A!NoSide
    <3> QED BY <3>1 DEF A!Next
  <2> QED BY <1>11, <1>b, <2>1 DEF state_glu, Accept
<1>12. CASE state_gru(msg)
  <2>1. CASE next_state' = "ro"
    <3>1. A!Open("right")
      BY <1>12, <2>1, <1>a DEF state_gru, Chamber, ChamberAt, Position, SidesOf,
         Weighed, Leaving, A!Open, A!NoSide
    <3> QED BY <3>1 DEF A!Next
  <2> QED BY <1>12, <1>b, <2>1 DEF state_gru, Accept
<1>13. CASE state_lo(msg)
  <2>1. CASE next_state' = "lc_gamma"
    <3>1. A!Close("left")
      BY <1>13, <2>1, <1>a DEF state_lo, Chamber, ChamberAt, Position, SidesOf,
         Weighed, Leaving, A!Close
    <3> QED BY <3>1 DEF A!Next
  <2> QED BY <1>13, <1>b, <2>1 DEF state_lo, Accept
<1>14. CASE state_ro(msg)
  <2>1. CASE next_state' = "rc_gamma"
    <3>1. A!Close("right")
      BY <1>14, <2>1, <1>a DEF state_ro, Chamber, ChamberAt, Position, SidesOf,
         Weighed, Leaving, A!Close
    <3> QED BY <3>1 DEF A!Next
  <2> QED BY <1>14, <1>b, <2>1 DEF state_ro, Accept
<1>15. CASE state_lc_gamma(msg)
  <2>1. CASE next_state' = "start"
    <3>1. A!Lock("left")
      BY <1>15, <2>1, <1>a DEF state_lc_gamma, Chamber, ChamberAt, Position, SidesOf,
         Weighed, Leaving, A!Lock
    <3> QED BY <3>1 DEF A!Next
  <2> QED BY <1>15, <1>b, <2>1 DEF state_lc_gamma, get_first_state
<1>16. CASE state_rc_gamma(msg)
  <2>1. CASE next_state' = "start"
    <3>1. A!Lock("right")
      BY <1>16, <2>1, <1>a DEF state_rc_gamma, Chamber, ChamberAt, Position, SidesOf,
         Weighed, Leaving, A!Lock
    <3> QED BY <3>1 DEF A!Next
  <2> QED BY <1>16, <1>b, <2>1 DEF state_rc_gamma, get_first_state
<1> QED
  BY <1>1, <1>2, <1>3, <1>4, <1>5, <1>6, <1>7, <1>8,
     <1>9, <1>10, <1>11, <1>12, <1>13, <1>14, <1>15, <1>16 DEF CallHandler

(* Whatever the commands and their order, a door opens only on the side     *)
(* that was scanned and unlocked, the person is weighed before it closes,   *)
(* and nobody is let out who was not weighed and shut in.                   *)
THEOREM ImplementsTheAirlock == Spec => ImplementsAirlock
<1>1. IInv /\ [Next]_vars => [A!Next]_(A!avars)
  <2> SUFFICES ASSUME IInv, [Next]_vars
               PROVE  A!Next \/ UNCHANGED A!avars
    OBVIOUS
  <2>1. CASE Next
    BY <2>1, HandlerA DEF Next
  <2>2. CASE UNCHANGED vars
    BY <2>2, Still DEF vars
  <2> QED BY <2>1, <2>2
<1> QED BY InitA, <1>1, Invariance, PTL DEF Spec, ImplementsAirlock, A!Spec
=============================================================================
