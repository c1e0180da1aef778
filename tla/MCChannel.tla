------------------------------ MODULE MCChannel ------------------------------
(***************************************************************************)
(* One channel for TLC. The arrivals and the scheduled tasks meet only in  *)
(* the supervisor: one instance has arrivals, two have one task each.      *)
(***************************************************************************)
EXTENDS Channel

OnlyTasks ==
  /\ arrived = MaxArrivals
  /\ \A t \in ScheduledTasks : row[t] \in {"none", "due", "deleted"}
  /\ \E t \in ScheduledTasks : row[t] = "deleted" /\ t \notin unrung

OnlyArrivals ==
  /\ arrived = 0 /\ unrung = {} /\ \A t \in ScheduledTasks : row[t] = "deleted"

MCChannelInit == ChannelInit /\ (OnlyTasks \/ OnlyArrivals)
MCChannelSpec == MCChannelInit /\ [][ChannelNext]_chanvars /\ ChannelFairness
=============================================================================
