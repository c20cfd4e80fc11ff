------------------------------ MODULE RunStates ------------------------------
(***************************************************************************)
(* The vocabulary shared by every module about run control: the states of  *)
(* a module (include/States.hpp), the actions a controller may send        *)
(* (include/Actions.hpp) and, for each action, the states in which a       *)
(* module performs it and the state it leads to (Module::onAction and the  *)
(* setState call of each handler, src/Module.cpp).                         *)
(***************************************************************************)

State == {"Uninitialized", "Initialized", "Connected", "Configured", "Started",
          "Paused", "Stopped", "Cleared", "Disconnected", "Released", "Quited"}

Action == {"Initialize", "Connect", "Configure", "Start", "Pause", "Stop",
           "Clear", "Disconnect", "Release", "Quit"}

\* The guard of each case of the switch in Module::onAction; in any other state
\* the action is answered by an error log and nothing else happens.
AcceptedIn(a) ==
  CASE a = "Initialize" -> {"Uninitialized", "Initialized", "Released"}
    [] a = "Connect"    -> {"Initialized", "Disconnected", "Connected"}
    [] a = "Configure"  -> {"Connected", "Cleared", "Configured"}
    [] a = "Start"      -> {"Configured", "Stopped", "Started", "Paused"}
    [] a = "Pause"      -> {"Started", "Paused"}
    [] a = "Stop"       -> {"Started", "Paused", "Stopped"}
    [] a = "Clear"      -> {"Stopped", "Configured", "Cleared"}
    [] a = "Disconnect" -> {"Cleared", "Connected", "Disconnected"}
    [] a = "Release"    -> {"Disconnected", "Initialized", "Released"}
    [] a = "Quit"       -> {"Released"}

\* The argument of the setState call in the handler of each action.
Target(a) ==
  CASE a = "Initialize" -> "Initialized"
    [] a = "Connect"    -> "Connected"
    [] a = "Configure"  -> "Configured"
    [] a = "Start"      -> "Started"
    [] a = "Pause"      -> "Paused"
    [] a = "Stop"       -> "Stopped"
    [] a = "Clear"      -> "Cleared"
    [] a = "Disconnect" -> "Disconnected"
    [] a = "Release"    -> "Released"
    [] a = "Quit"       -> "Quited"

=============================================================================
