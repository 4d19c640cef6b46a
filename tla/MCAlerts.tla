------------------------------- MODULE MCAlerts -------------------------------
(* The trading room, whose last node sends an alert, and the notifier, which *)
(* delivers what services send.  They share no state and are checked in one  *)
(* run: each behaviour is one of the room's or one of the notifier's.        *)
EXTENDS MCTradingRoom, Notifier

VARIABLE desk  \* the part this behaviour is about

\* Two adapters of the chain suffice for a cascade that goes on and a parallel round
\* that half succeeds.
TwoAdapters == <<"wecom_bot", "serverchan">>

\* In a behaviour of the room the notifier stays in one of its initial states; in one
\* of the notifier the orchestrator stops before the first node of its only run.
AlertsInit ==
    /\ desk \in {"room", "notifier"}
    /\ Init
    /\ NotifyInit
    /\ desk = "room" => up = {}
    /\ desk = "notifier" =>
          /\ trigger = NoEvent
          /\ wiring = [via |-> "route", urls |-> Bootstrapped, gate |-> TRUE]

RoomStep     == desk = "room" /\ Next /\ UNCHANGED notifyVars
RoomStops    == desk = "notifier" /\ Crash /\ UNCHANGED notifyVars
NotifierStep == desk = "notifier" /\ crashed /\ NotifyNext /\ UNCHANGED vars

AlertsNext == UNCHANGED desk /\ (RoomStep \/ RoomStops \/ NotifierStep)

\* The fairness of each part, asked of the part the behaviour is about.
AlertsFairness ==
    /\ WF_vars(desk = "notifier" /\ Crash)
    /\ WF_vars(desk = "room" /\ LoopHead)
    /\ WF_vars(desk = "room" /\ Collect)
    /\ WF_vars(desk = "room" /\ NodeStep)
    /\ \A t \in Tasks : WF_notifyVars(desk = "notifier" /\ Try(t))
    /\ \A m \in Messages : WF_notifyVars(desk = "notifier" /\ Enqueue(m))
    /\ WF_notifyVars(desk = "notifier" /\ Drain)
    /\ \A a \in Adapters : WF_notifyVars(desk = "notifier" /\ WindowPasses(a))

AlertsSpec == AlertsInit /\ [][AlertsNext]_<<desk, vars, notifyVars>> /\ AlertsFairness
=============================================================================
