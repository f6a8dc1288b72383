----------------------------- MODULE MCSending -----------------------------
(***************************************************************************)
(* Outbound, ImapPoll, Settings and Alerts for TLC.  They share no         *)
(* variable: a behaviour of this instance picks one of them and leaves the *)
(* others in an initial state.                                             *)
(***************************************************************************)
EXTENDS MCOutbound, ImapPoll, Settings, Alerts

VARIABLE plane     \* the component that runs

sendingVars == <<plane, vars, pollVars, settingsVars, alertVars>>

SendingInit ==
  /\ plane \in {"outbound", "poll", "settings", "alerts"}
  /\ Init
  /\ ImapPollInit
  /\ SettingsInit
  /\ AlertsInit
  /\ plane # "outbound" => to = Rcpts /\ ~relay /\ ~requireTLS
  /\ plane # "alerts" => health = {} /\ wanted = {} /\ line = [c \in Channels |-> "works"]

SendingNext ==
  /\ UNCHANGED plane
  /\ \/ plane = "outbound" /\ Next /\ UNCHANGED <<pollVars, settingsVars, alertVars>>
     \/ plane = "poll" /\ ImapPollNext /\ UNCHANGED <<vars, settingsVars, alertVars>>
     \/ plane = "settings" /\ SettingsNext /\ UNCHANGED <<vars, pollVars, alertVars>>
     \/ plane = "alerts" /\ AlertsNext /\ UNCHANGED <<vars, pollVars, settingsVars>>

\* The fairness of the component that runs.
SendingFairness ==
  /\ WF_vars(plane = "outbound" /\ Next)
  /\ WF_pollVars(plane = "poll" /\ Bump)
  /\ WF_pollVars(plane = "poll" /\ Open)
  /\ WF_pollVars(plane = "poll" /\ Tick)
  /\ WF_pollVars(plane = "poll" /\ Poll)
  /\ WF_pollVars(plane = "poll" /\ Finish)
  /\ WF_pollVars(plane = "poll" /\ Deliver)
  /\ \A t \in Loops : WF_settingsVars(plane = "settings" /\ Turn(t))
  /\ \A t \in Threads : WF_settingsVars(plane = "settings" /\ Proceed(t))
  /\ WF_alertVars(plane = "alerts" /\ Watchdog)

SendingSpec == SendingInit /\ [][SendingNext]_sendingVars /\ SendingFairness

\* The four type invariants, of which each is about its own component.
SendingTypeOK == TypeOK /\ ImapPollTypeOK /\ SettingsTypeOK /\ AlertsTypeOK

\* CallEnds, which speaks of a call that is made.
EveryCallEnds == plane = "outbound" => CallEnds

=============================================================================
