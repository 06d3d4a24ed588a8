---------------------------- MODULE SessionModel ----------------------------
(***************************************************************************)
(* The vocabulary every component shares: the attention states of a        *)
(* session, the priority that orders them, the actions a session offers    *)
(* and the outcome an action result carries.  Constant-level definitions   *)
(* only; translated from models.py.                                        *)
(***************************************************************************)
EXTENDS Naturals

AttentionState ==
    {"unknown", "idle", "running", "needs_permission", "needs_choice",
     "needs_input", "review_needed", "stalled", "completed", "failed"}

\* _ATTENTION_PRIORITY.  "unknown" and "idle" share the lowest priority.
AttentionPriority ==
    [state \in AttentionState |->
        CASE state \in {"unknown", "idle"} -> 0
          [] state = "running"          -> 10
          [] state = "stalled"          -> 20
          [] state = "completed"        -> 30
          [] state = "review_needed"    -> 40
          [] state = "needs_input"      -> 50
          [] state = "needs_choice"     -> 55
          [] state = "needs_permission" -> 60
          [] state = "failed"           -> 70]

\* The states whose arrival raises a desktop alert.
AlertStates ==
    {"needs_permission", "needs_choice", "needs_input", "review_needed",
     "completed", "failed"}

-----------------------------------------------------------------------------
(* Actions a session offers.                                               *)

AgentLiveActions == {"send_reply", "send_without_enter", "approve", "reject"}
TmuxLiveActions  == AgentLiveActions \cup
                    {"attach", "mark_read", "manual_state_override"}
InactiveSessionActions == {"hide_pet", "mark_read", "manual_state_override"}

\* Every action a request may name.
SupportedAction == TmuxLiveActions \cup InactiveSessionActions

=============================================================================
