------------------------------- MODULE Temporal --------------------------------
(******************************************************************************)
(* temporal_get_string_time: the clock is read twice, for the seconds (time)  *)
(* and for the milliseconds (ftime), and the seconds go through the buffer of *)
(* localtime, which all the threads of a process share.  An instant, and the  *)
(* text of one, is a number of milliseconds.                                  *)
(******************************************************************************)
EXTENDS Integers

CONSTANTS
  Threads,
  PerSecond,     \* milliseconds in a second
  MaxNow         \* bound: the clock stops there

ASSUME PerSecondAssumption == PerSecond \in Nat \ {0}
ASSUME MaxNowAssumption == MaxNow \in Nat

VARIABLES
  now,           \* the clock
  tm,            \* the buffer of localtime, in seconds
  at,            \* where each thread is in temporal_get_string_time
  log_time,      \* what time and ftime returned to it
  millitm,
  time_string    \* the time stamp it got, NoStamp for the 0 of an error

clockVars == <<now, tm>>
gained == <<log_time, millitm, time_string>>
stampVars == <<at, gained>>

NoStamp == -1

InitTemporal ==
  /\ now = 0 /\ tm = 0
  /\ at = [t \in Threads |-> "out"]
  /\ log_time = [t \in Threads |-> 0]
  /\ millitm = [t \in Threads |-> 0]
  /\ time_string = [t \in Threads |-> NoStamp]

Tick == now < MaxNow /\ now' = now + 1 /\ UNCHANGED <<tm, stampVars>>

Goes(t, from, to) == at[t] = from /\ at' = [at EXCEPT ![t] = to]

\* An error is shown and the function returns 0.
Fails(t) ==
  /\ at[t] \in {"time", "ftime"}
  /\ at' = [at EXCEPT ![t] = "back"]
  /\ time_string' = [time_string EXCEPT ![t] = NoStamp]
  /\ UNCHANGED <<clockVars, log_time, millitm>>

Enter(t) == Goes(t, "out", "time") /\ UNCHANGED <<clockVars, gained>>

\* Mutated form: the second that is about to begin.
SecondsUp == (now + PerSecond - 1) \div PerSecond

Seconds == now \div PerSecond

ReadSeconds(t) ==
  /\ Goes(t, "time", "localtime")
  /\ log_time' = [log_time EXCEPT ![t] = Seconds]
  /\ UNCHANGED <<clockVars, millitm, time_string>>

Localtime(t) ==
  /\ Goes(t, "localtime", "ftime")
  /\ tm' = log_time[t]
  /\ UNCHANGED <<now, log_time, millitm, time_string>>

ReadMilliseconds(t) ==
  /\ Goes(t, "ftime", "format")
  /\ millitm' = [millitm EXCEPT ![t] = now % PerSecond]
  /\ UNCHANGED <<clockVars, log_time, time_string>>

\* strftime reads the buffer, sprintf puts the milliseconds behind.
Format(t) ==
  /\ Goes(t, "format", "back")
  /\ time_string' = [time_string EXCEPT ![t] = tm * PerSecond + millitm[t]]
  /\ UNCHANGED <<clockVars, log_time, millitm>>

Stamp(t) ==
  Fails(t) \/ ReadSeconds(t) \/ Localtime(t) \/ ReadMilliseconds(t) \/ Format(t)

\* The caller takes the string.
Leave(t) == Goes(t, "back", "out") /\ UNCHANGED <<clockVars, gained>>

--------------------------------------------------------------------------------
Stamped(t) == at[t] = "back" /\ time_string[t] # NoStamp

(******************************************************************************)
(* A stamp mixes two readings, and the second of one thread may be used by    *)
(* another.  It can then be of a time before the call, or ahead of the clock; *)
(* but never a whole second ahead, whatever the threads do.                   *)
(******************************************************************************)
NeverASecondAhead ==
  \A t \in Threads : Stamped(t) => time_string[t] < now + PerSecond
================================================================================
