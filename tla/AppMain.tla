------------------------------- MODULE AppMain -------------------------------
(***************************************************************************)
(* The streaming loop of app_main and the commands it sends                *)
(* (river2_commands.c).  The loop takes all pending bits at once and works *)
(* through them in a fixed order; telemetry may store new values and post  *)
(* new bits between any two of these steps.                                *)
(***************************************************************************)
EXTENDS Telemetry

VARIABLES
  bits,         \* bits taken and not yet worked through; {} = blocked in wait
  on,           \* ac_on, dc_on
  known,        \* ac_state_known, dc_state_known
  optimistic    \* history: on[p] was last set by a toggle, not by telemetry

mainVars == <<bits, on, known, optimistic>>

\* The order of the tests on bits in the loop.
Order == <<"AC_STATE", "DC_STATE", "BATTERY_LEVEL", "TOGGLE_AC", "TOGGLE_DC">>

Turn(evt) ==
    /\ evt \in bits
    /\ \A i, j \in 1..5 : Order[i] = evt /\ Order[j] \in bits => i <= j

Done(evt) == bits' = bits \ {evt}

MainInit ==
    /\ bits = {}
    /\ on = [p \in Ports |-> FALSE]
    /\ known = [p \in Ports |-> FALSE]
    /\ optimistic = [p \in Ports |-> FALSE]

MainWait ==
    /\ bits = {}
    /\ TakeNotification
    /\ bits' = note \cap Handled
    /\ UNCHANGED <<linkVars, telemetryVars, on, known, optimistic>>

\* The owner reads the static now, not the value the bit was posted for.
MainPortState(p) ==
    /\ Turn(StateEvt[p])
    /\ on' = [on EXCEPT ![p] = s_port[p] # 0]
    /\ known' = [known EXCEPT ![p] = TRUE]
    /\ optimistic' = [optimistic EXCEPT ![p] = FALSE]
    /\ Done(StateEvt[p])
    /\ UNCHANGED <<note, linkVars, telemetryVars>>

\* Logs the percentage; changes no state of the program.
MainBattery ==
    /\ Turn("BATTERY_LEVEL")
    /\ Done("BATTERY_LEVEL")
    /\ UNCHANGED <<note, linkVars, telemetryVars, on, known, optimistic>>

MainToggleIgnored(p) ==
    /\ Turn(ToggleEvt[p])
    /\ ~known[p]
    /\ Done(ToggleEvt[p])
    /\ UNCHANGED <<note, linkVars, telemetryVars, on, known, optimistic>>

\* Seeded fault: the port need not be known.
MainToggleSentBlind(p) ==
    /\ Turn(ToggleEvt[p])
    /\ BleWriteOk([port |-> p, enable |-> ~on[p]])
    /\ on' = [on EXCEPT ![p] = ~on[p]]
    /\ optimistic' = [optimistic EXCEPT ![p] = TRUE]
    /\ Done(ToggleEvt[p])
    /\ UNCHANGED <<note, telemetryVars, known>>

\* river2_set_ac_output / river2_set_dc_output succeeded: the new state is
\* taken over at once.
MainToggleSent(p) ==
    /\ Turn(ToggleEvt[p])
    /\ known[p]
    /\ BleWriteOk([port |-> p, enable |-> ~on[p]])
    /\ on' = [on EXCEPT ![p] = ~on[p]]
    /\ optimistic' = [optimistic EXCEPT ![p] = TRUE]
    /\ Done(ToggleEvt[p])
    /\ UNCHANGED <<note, telemetryVars, known>>

\* Seeded fault: the new state is taken over although the write failed.
MainToggleAssumed(p) ==
    /\ Turn(ToggleEvt[p])
    /\ known[p]
    /\ BleWriteFails
    /\ on' = [on EXCEPT ![p] = ~on[p]]
    /\ optimistic' = [optimistic EXCEPT ![p] = TRUE]
    /\ Done(ToggleEvt[p])
    /\ UNCHANGED <<note, telemetryVars, known>>

MainToggleFailed(p) ==
    /\ Turn(ToggleEvt[p])
    /\ known[p]
    /\ BleWriteFails
    /\ Done(ToggleEvt[p])
    /\ UNCHANGED <<note, telemetryVars, on, known, optimistic>>

MainStep ==
    \/ MainWait
    \/ MainBattery
    \/ \E p \in Ports :
         \/ MainPortState(p)
         \/ MainToggleIgnored(p)
         \/ MainToggleSent(p)
         \/ MainToggleFailed(p)
==============================================================================
