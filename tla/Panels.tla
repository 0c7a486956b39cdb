------------------------------- MODULE Panels -------------------------------
(***************************************************************************)
(* What the handlers of the page bring up to date: the tabs and refreshes  *)
(* of state_parts/.                                                        *)
(*                                                                         *)
(* Every panel of the page has an age: the ticks of live_tick since it was *)
(* last brought up to date.  Panels that are refreshed only while their    *)
(* tab is open count as old when it is not.                                *)
(***************************************************************************)
EXTENDS Integers

CONSTANTS
  TabEvery,     \* ticks between two refreshes of the open tab
  MetricsEvery  \* ticks between two refreshes of the live metrics

ASSUME PanelsAssumption ==
  MetricsEvery \in Nat \ {0} /\ TabEvery \in Nat \ {0} /\ TabEvery % MetricsEvery = 0

Tabs   == {"live", "analysis", "diagnostics", "daily", "heatmap", "cost", "history", "log"}
Panels == {"status", "logs", "summary", "metrics", "capacity", "patterns", "cost", "history", "diagnostics"}

VARIABLES
  tab,   \* current_tab
  count, \* _slow_counter, modulo TabEvery
  age    \* of the panels

panelVars == <<tab, count, age>>

\* What each tab shows; the header shows status and summary on all of them.
Shown(t) ==
  {"status", "summary"} \cup
    CASE t = "live" -> {"metrics", "capacity"}
      [] t \in {"analysis", "daily"} -> {"metrics", "patterns"}
      [] t = "heatmap" -> {"patterns"}
      [] t = "cost" -> {"cost", "capacity"}
      [] t = "history" -> {"history"}
      [] t = "diagnostics" -> {"diagnostics"}
      [] t = "log" -> {"logs"}

\* The panels refreshed whatever tab is open.
Always == {"status", "summary", "metrics", "capacity"}

-----------------------------------------------------------------------------

refresh_history_summary == {"summary"}
refresh_history         == {"history"} \cup refresh_history_summary
refresh_live_metrics    == {"metrics", "capacity"} \cup refresh_history_summary
refresh_analysis        == {"patterns"} \cup refresh_live_metrics
refresh_cost            == {"cost", "capacity"}
refresh_diagnostics     == {"diagnostics"}
clear_history           == refresh_history \cup refresh_analysis \cup refresh_cost \cup refresh_diagnostics
apply_db_path           == refresh_history \cup refresh_analysis \cup refresh_cost

refresh_tab_data(t) ==
  CASE t = "history" -> refresh_history
    [] t = "diagnostics" -> refresh_diagnostics
    [] t = "cost" -> refresh_cost
    [] t \in {"analysis", "daily", "heatmap"} -> refresh_analysis
    [] OTHER -> {}

sync_from_service(t, force_heavy) ==
  {"status"} \cup (IF force_heavy \/ t = "log" THEN {"logs"} ELSE {})
             \cup (IF force_heavy THEN refresh_live_metrics \cup refresh_tab_data(t) ELSE {})

\* The ages on tab t, some ticks later, with some panels brought up to date.
Ages(t, passed, panels) ==
  [x \in Panels |->
     IF x \in panels THEN 0
     ELSE IF x \notin Always \cup Shown(t) THEN TabEvery
     ELSE IF age[x] + passed > TabEvery THEN TabEvery ELSE age[x] + passed]

-----------------------------------------------------------------------------

\* on_load; in Init it has run.
LoadPage ==
  /\ count' = 0
  /\ age' = Ages(tab, 0, sync_from_service(tab, FALSE) \cup refresh_live_metrics \cup refresh_tab_data(tab))
  /\ UNCHANGED tab

InitPanels ==
  /\ tab = "live" /\ count = 0
  /\ age = [x \in Panels |-> IF x \in Always THEN 0 ELSE TabEvery]

\* (mutated: the usage map is not among the tabs a tick refreshes)
TabTickNoHeatmap(t) == IF t = "heatmap" THEN {} ELSE refresh_tab_data(t)

TabTick(t) == refresh_tab_data(t)

\* live_tick, as far as the page.
TickPage ==
  LET n == (count + 1) % TabEvery IN
  /\ count' = n
  /\ age' = Ages(tab, 1, sync_from_service(tab, FALSE)
                         \cup (IF n % MetricsEvery = 0 THEN refresh_live_metrics ELSE {})
                         \cup (IF n = 0 THEN TabTick(tab) ELSE {}))
  /\ UNCHANGED tab

set_current_tab ==
  /\ \E t \in Tabs : tab' = t
  /\ age' = Ages(tab', 0, refresh_tab_data(tab'))
  /\ UNCHANGED count

\* The other handlers: connection and replay buttons, commands, the event filter, the
\* threshold, the mains network, the prices, the history and the database.
PressButton ==
  /\ \E panels \in {sync_from_service(tab, TRUE), sync_from_service(tab, FALSE), refresh_diagnostics,
                    refresh_history, refresh_analysis, refresh_analysis \cup refresh_diagnostics, refresh_cost,
                    clear_history \cup sync_from_service(tab, FALSE),
                    apply_db_path \cup sync_from_service(tab, FALSE)} : age' = Ages(tab, 0, panels)
  /\ UNCHANGED <<tab, count>>

NextPanels == LoadPage \/ TickPage \/ set_current_tab \/ PressButton

PanelsSpec == InitPanels /\ [][NextPanels]_panelVars

-----------------------------------------------------------------------------
(* Properties.                                                               *)

\* Whatever tabs are opened and buttons pressed between the ticks, the tab that is open
\* shows nothing older than TabEvery ticks, live figures nothing older than MetricsEvery
\* (connection.py:74-85); the log waits for the first tick of its tab (line 88).
OpenTabIsFresh ==
  \A x \in Shown(tab) :
    /\ x \in Always => age[x] < MetricsEvery
    /\ x # "logs" => age[x] < TabEvery
=============================================================================
