------------------------------ MODULE RunControl -----------------------------
(***************************************************************************)
(* What a module promises to the rest of the DAQ, with no thread, flag or  *)
(* handler in it: the last state it broadcast (visible), the state it is   *)
(* moving to (pending, equal to visible when it is at rest), whether an    *)
(* iteration of the acquisition loop is in progress, and whether the       *)
(* process is alive.  ModuleFsm is shown to implement it.                  *)
(***************************************************************************)

VARIABLES visible, pending, acquiring, alive

vars == <<visible, pending, acquiring, alive>>

\* The run-control chart, written as a relation on states and independently of
\* the guards of the code: the ring from Initialized to Released, the shortcuts
\* that skip an unused stage, and the moves that repeat a stage.
Ring == {<<"Uninitialized", "Initialized">>, <<"Initialized", "Connected">>,
         <<"Connected", "Configured">>, <<"Configured", "Started">>,
         <<"Started", "Paused">>, <<"Paused", "Started">>,
         <<"Started", "Stopped">>, <<"Paused", "Stopped">>,
         <<"Stopped", "Started">>, <<"Stopped", "Cleared">>,
         <<"Cleared", "Disconnected">>, <<"Disconnected", "Released">>,
         <<"Released", "Initialized">>, <<"Released", "Quited">>}

Shortcut == {<<"Initialized", "Released">>, <<"Connected", "Disconnected">>,
             <<"Configured", "Cleared">>, <<"Cleared", "Configured">>,
             <<"Disconnected", "Connected">>}

Chart == Ring \cup Shortcut

TypeOK ==
  /\ visible \in {"Uninitialized", "Initialized", "Connected", "Configured", "Started",
                  "Paused", "Stopped", "Cleared", "Disconnected", "Released", "Quited"}
  /\ pending = visible \/ <<visible, pending>> \in Chart
  /\ acquiring \in BOOLEAN
  /\ alive \in BOOLEAN

Init ==
  /\ visible = "Uninitialized"
  /\ pending = "Uninitialized"
  /\ acquiring = FALSE
  /\ alive = TRUE

\* The module begins to move along one edge of the chart.
Undertake(s) ==
  /\ alive
  /\ pending = visible
  /\ <<visible, s>> \in Chart
  /\ pending' = s
  /\ UNCHANGED <<visible, acquiring, alive>>

\* It tells the others, and by then no iteration may be left over from the
\* state it comes from.
Announce ==
  /\ alive
  /\ pending # visible
  /\ pending = "Started" \/ ~acquiring
  /\ visible' = pending
  /\ UNCHANGED <<pending, acquiring, alive>>

\* An iteration begins only while the module is, or is becoming, Started: not
\* after it has undertaken to pause or to stop.
Acquire ==
  /\ alive
  /\ pending = "Started"
  /\ acquiring' = TRUE
  /\ UNCHANGED <<visible, pending, alive>>

Rest ==
  /\ acquiring' = FALSE
  /\ UNCHANGED <<visible, pending, alive>>

\* A signal or a failure ends the process at any time.
Die ==
  /\ alive
  /\ alive' = FALSE
  /\ acquiring' = FALSE
  /\ UNCHANGED <<visible, pending>>

Next ==
  \/ \E s \in {e[2] : e \in Chart} : Undertake(s)
  \/ Announce
  \/ Acquire
  \/ Rest
  \/ Die

\* A module that has undertaken a move completes it or dies, and an iteration ends.
Fairness ==
  /\ WF_vars(Announce)
  /\ WF_vars(Rest)

SafeSpec == Init /\ [][Next]_vars
Spec == SafeSpec /\ Fairness

=============================================================================
