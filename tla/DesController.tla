---------------------------- MODULE DesController ----------------------------
(***************************************************************************)
(* The state machine of des_controller (assignment1/des_controller): one    *)
(* action per state handler, over the controller's context and the function *)
(* pointer next_state.  A handler is called with the message des_inputs     *)
(* sent and returns the code of the response.                               *)
(*                                                                          *)
(* The summary update_display formats is a one-to-one image of the context  *)
(* fields below, so the log holds a copy of the context.  The two           *)
(* users_waiting counters of mva_ctx_t are never read or written and are    *)
(* left out.                                                                *)
(***************************************************************************)
EXTENDS Integers

CONSTANTS Extras,   (* the numbers a message can carry: 0 when none was asked *)
          NoLog     (* the content of the shared log before the first update  *)

ASSUME ExtrasAssumption == Extras \subseteq Int /\ 0 \in Extras

VARIABLES next_state,   (* the handler of the next message                  *)
          context,      (* doors, guards, user id and weight                *)
          code,         (* rsp.code: what the last handler returned         *)
          disp_log,     (* the shared memory object DES_DISP_LOG            *)
          notify        (* the last handler called update_display, which    *)
                        (* ends by sending DES_DISP_LOG_PULSE               *)

vars == <<next_state, context, code, disp_log, notify>>

-----------------------------------------------------------------------------
Commands == {"ls", "rs", "lo", "ro", "lc", "rc", "gll", "grl", "glu", "gru",
             "ws", "exit", "other"}   \* "other": any text no handler knows
Msgs == [data : Commands, extra : Extras]

Codes == {"NONE", "OK", "INVAL", "EXTRA", "DISCONNECT"}   \* NONE: rsp is {0}

Contexts == [left_door_open : BOOLEAN, right_door_open : BOOLEAN,
             left_guard_locked : BOOLEAN, right_guard_locked : BOOLEAN,
             user_weight : Extras, user_id : Extras]

FirstContext ==
  [left_door_open |-> FALSE, right_door_open |-> FALSE,
   left_guard_locked |-> TRUE, right_guard_locked |-> TRUE,
   user_weight |-> 0, user_id |-> 0]

States == {"start", "gll_alpha", "grl_alpha", "lc_alpha", "rc_alpha", "opened",
           "weight", "lc_beta", "rc_beta", "guard_locked", "glu", "gru",
           "lo", "ro", "lc_gamma", "rc_gamma"}

-----------------------------------------------------------------------------
update_display(ctx) == disp_log' = ctx /\ notify' = TRUE

(* The ways a handler ends: it moves on and shows the new context, ...      *)
Accept(ctx, to) ==
  /\ context' = ctx /\ update_display(ctx)
  /\ next_state' = to /\ code' = "OK"

(* ... or answers without changing anything.                                *)
Answer(c) ==
  /\ code' = c /\ notify' = FALSE
  /\ UNCHANGED <<next_state, context, disp_log>>

(* A slip: the status of the process instead of a response code.           *)
state_exit_status == Answer("EXIT_SUCCESS")

state_exit == Answer("DISCONNECT")

(* Every handler looks for exit first and answers INVAL to any command it   *)
(* does not expect.                                                         *)
Otherwise(msg, expected) ==
  \/ msg.data = "exit" /\ state_exit
  \/ msg.data \notin expected \cup {"exit"} /\ Answer("INVAL")

(* A slip: the last lock is never shown.                                    *)
get_first_state_unshown(shown) ==
  /\ context' = FirstContext /\ next_state' = "start" /\ code' = "OK"
  /\ notify' = FALSE /\ UNCHANGED disp_log

(* The restart shows the last lock and only then clears id and weight.      *)
get_first_state(shown) ==
  /\ update_display(shown)
  /\ context' = FirstContext /\ next_state' = "start" /\ code' = "OK"

-----------------------------------------------------------------------------
(* Plausible slips in the handlers, none of them in the code: each breaks a  *)
(* property below and serves to show that the property can tell.             *)
state_opened_any_weight(msg) ==                \* no test for weight == 0
  /\ next_state = "opened"
  /\ \/ Otherwise(msg, {"ws"})
     \/ /\ msg.data = "ws"
        /\ Accept([context EXCEPT !.user_weight = msg.extra], "weight")

state_weight_any_door(msg) ==                  \* no test of which door is open
  /\ next_state = "weight"
  /\ \/ Otherwise(msg, {"lc", "rc"})
     \/ msg.data = "lc" /\ Accept([context EXCEPT !.left_door_open = FALSE], "lc_beta")
     \/ msg.data = "rc" /\ Accept([context EXCEPT !.right_door_open = FALSE], "rc_beta")

state_guard_locked_same_exit(msg) ==           \* both commands lead to state_glu
  /\ next_state = "guard_locked"
  /\ \/ Otherwise(msg, {"glu", "gru"})
     \/ msg.data = "glu" /\ Accept([context EXCEPT !.left_guard_locked = FALSE], "glu")
     \/ msg.data = "gru" /\ Accept([context EXCEPT !.right_guard_locked = FALSE], "glu")

-----------------------------------------------------------------------------
state_start(msg) ==
  /\ next_state = "start"
  /\ \/ Otherwise(msg, {"ls", "rs"})
     \/ msg.data \in {"ls", "rs"} /\ msg.extra = 0 /\ Answer("EXTRA")
     \/ /\ msg.data \in {"ls", "rs"} /\ msg.extra # 0
        /\ Accept([context EXCEPT !.user_id = msg.extra],
                  IF msg.data = "ls" THEN "gll_alpha" ELSE "grl_alpha")

state_gll_alpha(msg) ==
  /\ next_state = "gll_alpha"
  /\ \/ Otherwise(msg, {"glu"})
     \/ /\ msg.data = "glu"
        /\ Accept([context EXCEPT !.left_guard_locked = FALSE], "lc_alpha")

state_grl_alpha(msg) ==
  /\ next_state = "grl_alpha"
  /\ \/ Otherwise(msg, {"gru"})
     \/ /\ msg.data = "gru"
        /\ Accept([context EXCEPT !.right_guard_locked = FALSE], "rc_alpha")

state_lc_alpha(msg) ==
  /\ next_state = "lc_alpha"
  /\ \/ Otherwise(msg, {"lo"})
     \/ /\ msg.data = "lo"
        /\ Accept([context EXCEPT !.left_door_open = TRUE], "opened")

state_rc_alpha(msg) ==
  /\ next_state = "rc_alpha"
  /\ \/ Otherwise(msg, {"ro"})
     \/ /\ msg.data = "ro"
        /\ Accept([context EXCEPT !.right_door_open = TRUE], "opened")

state_opened(msg) ==
  /\ next_state = "opened"
  /\ \/ Otherwise(msg, {"ws"})
     \/ msg.data = "ws" /\ msg.extra = 0 /\ Answer("EXTRA")
     \/ /\ msg.data = "ws" /\ msg.extra # 0
        /\ Accept([context EXCEPT !.user_weight = msg.extra], "weight")

(* Only the door that is open can be closed.                                *)
state_weight(msg) ==
  /\ next_state = "weight"
  /\ \/ Otherwise(msg, {"lc", "rc"})
     \/ /\ \/ msg.data = "lc" /\ ~context.left_door_open
           \/ msg.data = "rc" /\ ~context.right_door_open
        /\ Answer("INVAL")
     \/ /\ msg.data = "lc" /\ context.left_door_open
        /\ Accept([context EXCEPT !.left_door_open = FALSE], "lc_beta")
     \/ /\ msg.data = "rc" /\ context.right_door_open
        /\ Accept([context EXCEPT !.right_door_open = FALSE], "rc_beta")

state_lc_beta(msg) ==
  /\ next_state = "lc_beta"
  /\ \/ Otherwise(msg, {"gll"})
     \/ /\ msg.data = "gll"
        /\ Accept([context EXCEPT !.left_guard_locked = TRUE], "guard_locked")

state_rc_beta(msg) ==
  /\ next_state = "rc_beta"
  /\ \/ Otherwise(msg, {"grl"})
     \/ /\ msg.data = "grl"
        /\ Accept([context EXCEPT !.right_guard_locked = TRUE], "guard_locked")

state_guard_locked(msg) ==
  /\ next_state = "guard_locked"
  /\ \/ Otherwise(msg, {"glu", "gru"})
     \/ /\ msg.data = "glu"
        /\ Accept([context EXCEPT !.left_guard_locked = FALSE], "glu")
     \/ /\ msg.data = "gru"
        /\ Accept([context EXCEPT !.right_guard_locked = FALSE], "gru")

state_glu(msg) ==
  /\ next_state = "glu"
  /\ \/ Otherwise(msg, {"lo"})
     \/ /\ msg.data = "lo"
        /\ Accept([context EXCEPT !.left_door_open = TRUE], "lo")

state_gru(msg) ==
  /\ next_state = "gru"
  /\ \/ Otherwise(msg, {"ro"})
     \/ /\ msg.data = "ro"
        /\ Accept([context EXCEPT !.right_door_open = TRUE], "ro")

state_lo(msg) ==
  /\ next_state = "lo"
  /\ \/ Otherwise(msg, {"lc"})
     \/ /\ msg.data = "lc"
        /\ Accept([context EXCEPT !.left_door_open = FALSE], "lc_gamma")

state_ro(msg) ==
  /\ next_state = "ro"
  /\ \/ Otherwise(msg, {"rc"})
     \/ /\ msg.data = "rc"
        /\ Accept([context EXCEPT !.right_door_open = FALSE], "rc_gamma")

state_lc_gamma(msg) ==
  /\ next_state = "lc_gamma"
  /\ \/ Otherwise(msg, {"gll"})
     \/ /\ msg.data = "gll"
        /\ get_first_state([context EXCEPT !.left_guard_locked = TRUE])

state_rc_gamma(msg) ==
  /\ next_state = "rc_gamma"
  /\ \/ Otherwise(msg, {"grl"})
     \/ /\ msg.data = "grl"
        /\ get_first_state([context EXCEPT !.right_guard_locked = TRUE])

-----------------------------------------------------------------------------
(* The call through next_state in the controller's loop.                    *)
CallHandler(msg) ==
  \/ state_start(msg)
  \/ state_gll_alpha(msg) \/ state_grl_alpha(msg)
  \/ state_lc_alpha(msg) \/ state_rc_alpha(msg)
  \/ state_opened(msg) \/ state_weight(msg)
  \/ state_lc_beta(msg) \/ state_rc_beta(msg)
  \/ state_guard_locked(msg)
  \/ state_glu(msg) \/ state_gru(msg)
  \/ state_lo(msg) \/ state_ro(msg)
  \/ state_lc_gamma(msg) \/ state_rc_gamma(msg)

Init ==
  /\ next_state = "start" /\ context = FirstContext
  /\ code = "NONE" /\ disp_log = NoLog /\ notify = FALSE

Next == \E msg \in Msgs : CallHandler(msg)

Spec == Init /\ [][Next]_vars

-----------------------------------------------------------------------------
TypeOK ==
  /\ next_state \in States
  /\ context \in Contexts
  /\ code \in Codes
  /\ disp_log \in Contexts \cup {NoLog}
  /\ notify \in BOOLEAN

(* The two doors are never open together, a door is open only while its     *)
(* guard is unlocked, and the two guards are never unlocked together,       *)
(* whatever commands arrive and through whichever handlers they pass        *)
(* (state_start to state_rc_gamma).                                         *)
Interlock ==
  /\ ~(context.left_door_open /\ context.right_door_open)
  /\ context.left_door_open => ~context.left_guard_locked
  /\ context.right_door_open => ~context.right_guard_locked
  /\ context.left_guard_locked \/ context.right_guard_locked

Leaving == {"glu", "gru", "lo", "ro", "lc_gamma", "rc_gamma"}
Weighed == {"weight", "lc_beta", "rc_beta", "guard_locked"}

(* From the scan to the restart the controller knows whose crossing it is,  *)
(* and from the scale to the restart it knows the weight: zero, which       *)
(* stands for "Unknown" in the summary, never slips past the EXTRA answers  *)
(* of state_start and state_opened.                                         *)
RecordedAt(s, ctx) ==
  /\ s # "start" => ctx.user_id # 0
  /\ s \in Weighed \cup Leaving => ctx.user_weight # 0

CrossingRecorded == RecordedAt(next_state, context)

(* The positions of the doors and guards that each handler relies on when   *)
(* it is called; this is what makes Interlock hold along every path.        *)
Position(ctx, left_open, right_open, left_locked, right_locked) ==
  /\ ctx.left_door_open = left_open
  /\ ctx.right_door_open = right_open
  /\ ctx.left_guard_locked = left_locked
  /\ ctx.right_guard_locked = right_locked

ChamberAt(s, ctx) ==
  /\ s \in {"start", "gll_alpha", "grl_alpha", "guard_locked"} =>
       Position(ctx, FALSE, FALSE, TRUE, TRUE)
  /\ s \in {"lc_alpha", "lc_beta", "glu", "lc_gamma"} =>
       Position(ctx, FALSE, FALSE, FALSE, TRUE)
  /\ s \in {"rc_alpha", "rc_beta", "gru", "rc_gamma"} =>
       Position(ctx, FALSE, FALSE, TRUE, FALSE)
  /\ s = "lo" => Position(ctx, TRUE, FALSE, FALSE, TRUE)
  /\ s = "ro" => Position(ctx, FALSE, TRUE, TRUE, FALSE)
  /\ s \in {"opened", "weight"} =>
       \/ Position(ctx, TRUE, FALSE, FALSE, TRUE)
       \/ Position(ctx, FALSE, TRUE, TRUE, FALSE)

Chamber == ChamberAt(next_state, context)

Actuators == {"left_door_open", "right_door_open",
              "left_guard_locked", "right_guard_locked"}

(* Once anything was shown, the log agrees with the doors and guards, also  *)
(* after get_first_state has overwritten them behind the display's back;    *)
(* and it agrees on id and weight too as long as a crossing is going on.    *)
LogAgrees ==
  disp_log # NoLog =>
    /\ \A f \in Actuators : disp_log[f] = context[f]
    /\ next_state # "start" => disp_log = context

(* One event moves at most one door or guard.  The restart resets all four, *)
(* so this says that it never opens, closes or locks anything but the guard *)
(* the event named.                                                         *)
OneActuatorPerEvent ==
  [][\A f, g \in Actuators :
       context'[f] # context[f] /\ context'[g] # context[g] => f = g]_vars

(* An event that is refused, or that needs a number first, leaves the state *)
(* machine, the context and the log as they were and sends no pulse.        *)
RefusalChangesNothing ==
  [][code' # "OK" => /\ UNCHANGED <<next_state, context, disp_log>>
                     /\ ~notify']_vars

(* The controller implements the chamber of Airlock: no order of commands   *)
(* opens a door before the scan on its side and the guard's unlock, nor     *)
(* releases a person who was not weighed and shut in.                       *)
SidesOf(left, right) ==
  (IF left THEN {"left"} ELSE {}) \cup (IF right THEN {"right"} ELSE {})

A == INSTANCE Airlock WITH
       Sides    <- {"left", "right"},
       unlocked <- SidesOf(~context.left_guard_locked, ~context.right_guard_locked),
       open     <- SidesOf(context.left_door_open, context.right_door_open),
       phase    <- IF next_state = "start" THEN "idle"
                   ELSE IF next_state \in Weighed THEN "weighed"
                   ELSE IF next_state \in Leaving THEN "leaving" ELSE "identified",
       entry    <- IF next_state \in {"gll_alpha", "lc_alpha"} THEN "left"
                   ELSE IF next_state \in {"grl_alpha", "rc_alpha"} THEN "right"
                   ELSE "none"

ImplementsAirlock == A!Spec
=============================================================================
