--------------------------- MODULE ThermalWatcher ---------------------------
(***************************************************************************)
(* The thermal HAL's watcher thread (src/thermal/thermal_watcher.cpp) and  *)
(* the part of ThermalHelper::thermalWatcherCallbackFunc it drives.         *)
(*                                                                         *)
(* initThermalWatcher opens the event source: the kernel uevent socket on  *)
(* a legacy zone layout, the control socket "thermal_hal_socket" otherwise; *)
(* if that fails the watcher is left polling with no event source.         *)
(* threadLoop waits in pollOnce; on an event it drains the source          *)
(* (parseMsg: accept/recv/close until accept would block; parseUevent:     *)
(* recv datagrams until EAGAIN), collecting sensor names, then calls the   *)
(* callback with them; on a timeout it calls the callback with no names.   *)
(* parseMsg also writes threshold updates into kMtkTempThreshold.          *)
(*                                                                         *)
(* A message is one record: for the control socket one connection's        *)
(* buffer, for the uevent socket one datagram.  A name is abstracted to    *)
(* its leading word, so "label l is a prefix of the name" is name = l.     *)
(***************************************************************************)
EXTENDS Integers, Sequences, FiniteSets

CONSTANTS
    Modes,          \* the values "tz_map_version == TZ_MAP_LEGANCY" may take
    OpenResults,    \* the outcomes of opening the event source (TRUE = opened)
    Labels,         \* the tz_data / kMtkTempThreshold labels modelled
    Messages,       \* Messages[b]: what a client (b = FALSE) or the kernel (TRUE) may send
    Garbage,        \* a threshold text std::stoi cannot convert
    MaxMsgs         \* bound on the number of messages sent in a behaviour

ASSUME Modes \subseteq BOOLEAN /\ Modes # {} /\ OpenResults \subseteq BOOLEAN /\ OpenResults # {}
ASSUME MaxMsgs \in Nat

-----------------------------------------------------------------------------
(* kMtkTempThreshold hot thresholds of the severities parseMsg can update: *)
(* SEVERE = 3, CRITICAL = 4, EMERGENCY = 5, SHUTDOWN = 6.                   *)
Slots == 3..6
DefaultHot == [CPU |-> <<85, 90, 100, 117>>, SKIN |-> <<50, 70, 80, 90>>,
               BATTERY |-> <<50, 55, 59, 60>>]
Default(l, s) == DefaultHot[l][s - 2]

\* tz_data_v1[].tzName: the kernel zone type the legacy layout reads for a label
LegacyZone == [CPU |-> "mtktscpu", SKIN |-> "mtktsAP", BATTERY |-> "mtktsbattery"]

\* strncmp(name, label, strlen(label)) == 0
HasLabel(name, l) == name = l
LabelsOf(names) == {l \in Labels : \E n \in names : HasLabel(n, l)}

VARIABLES
    legacy,     \* tz_map_version == TZ_MAP_LEGANCY: the uevent socket, else the control socket
    polling,    \* is_polling_
    triggered,  \* thermal_triggered_ (chooses the 2 s or 300 s poll timeout)
    pc,         \* the watcher thread: "wait", "parse", "cb" or "aborted"
    inbox,      \* messages queued on the event source, oldest first
    sensors,    \* threadLoop's local set of sensor names
    event,      \* thermal_event of the running parseMsg / parseUevent
    thr,        \* kMtkTempThreshold[l].hotThrottlingThresholds[s]
    sent,       \* number of messages sent so far
    owed,       \* ghost: labels a consumed message asked to be notified of
    reported    \* ghost: the last callback reported temperatures

vars == <<legacy, polling, triggered, pc, inbox, sensors, event, thr, sent,
          owed, reported>>

-----------------------------------------------------------------------------
(* What each message means to its sender.  A notify (or a thermal uevent)  *)
(* naming the zone of a label asks for that label's temperature; an update *)
(* for a label carries a new value for one severity slot.                  *)
\* The severity each update field names (ThrottlingSeverity SEVERE .. SHUTDOWN).
SeverityOf == [THRESHOLD |-> 3, CRITICAL |-> 4, EMERGENCY |-> 5, SHUTDOWN |-> 6]

Asks(m) ==
    IF legacy
    THEN IF m.type = "thermal"
         THEN {l \in Labels : HasLabel(m.name, l) \/ m.name = LegacyZone[l]}
         ELSE {}
    ELSE IF m.type = "notify" THEN LabelsOf({m.name}) ELSE {}

IsUpdate(m) == ~legacy /\ m.type = "update" /\ m.name \in Labels

Init ==
    /\ legacy \in Modes
    /\ \E ok \in OpenResults :
          /\ polling = ~ok
          \* thermal_triggered_ is set to true only when the source opened
          /\ triggered \in (IF ok THEN {TRUE} ELSE BOOLEAN)
    /\ pc = "wait"
    /\ inbox = <<>>
    /\ sensors = {}
    /\ event = FALSE
    /\ thr = [l \in Labels |-> [s \in Slots |-> Default(l, s)]]
    /\ sent = 0
    /\ owed = {}
    /\ reported = FALSE

-----------------------------------------------------------------------------
(* A client connects to the control socket, or the kernel multicasts a     *)
(* uevent.  Nothing reaches the watcher when its event source failed.      *)
Send(m) ==
    /\ ~polling
    /\ sent < MaxMsgs
    /\ inbox' = Append(inbox, m)
    /\ sent' = sent + 1
    /\ UNCHANGED <<legacy, polling, triggered, pc, sensors, event, thr, owed, reported>>

(* threadLoop: pollOnce returns the event source's fd: start the drain.    *)
(* The drain's flags are locals of parseMsg / parseUevent, false on entry. *)
PollEvent ==
    /\ pc = "wait"
    /\ ~polling
    /\ inbox # <<>>
    /\ pc' = "parse"
    /\ sensors' = {}
    /\ event' = FALSE
    /\ UNCHANGED <<legacy, polling, triggered, inbox, thr, sent, owed, reported>>

(* threadLoop: pollOnce times out (no event, or no event source) and the  *)
(* callback runs with the empty set: it reads nothing and returns false.   *)
Timeout ==
    /\ pc = "wait"
    /\ polling \/ inbox = <<>>
    /\ triggered' = FALSE
    /\ reported' = FALSE
    /\ UNCHANGED <<legacy, polling, pc, inbox, sensors, event, thr, sent, owed>>

\* Mutant: every NAME= value collected, monitored or not.
MutantCollectAll(name) == sensors \cup {name}
\* sensors_set->insert(name) for each tz_data label that prefixes the name
Collect(name) == IF LabelsOf({name}) # {} THEN sensors \cup {name} ELSE sensors

\* What one message asked for is owed from the moment the watcher takes it.
Take(m) ==
    /\ inbox' = Tail(inbox)
    /\ owed' = owed \cup Asks(m)

\* The slot each branch of the update if-chain writes.
FieldSlot == [THRESHOLD |-> 3, CRITICAL |-> 4, EMERGENCY |-> 5, SHUTDOWN |-> 6]

(* parseMsg, one accept / recv / close.  "TYPE=thermal_hal_notify" sets    *)
(* thermal_event, "TYPE=thermal_hal_update" sets thermal_update, anything  *)
(* else ends the message.  Then, if thermal_event is set, the NAME= field  *)
(* is collected and the message ends; otherwise, if thermal_update is set, *)
(* the threshold field is written with std::stoi, which throws (and ends   *)
(* the HAL process) on text that is not a number.  Both flags live for    *)
(* the whole drain.  (thermal_update is not kept: every message reaching  *)
(* the update branch is itself an update, so the flag decides nothing.)     *)
ParseMsg ==
    /\ pc = "parse"
    /\ ~legacy
    /\ inbox # <<>>
    /\ LET m == Head(inbox)
           ev == event \/ m.type = "notify"
       IN  /\ Take(m)
           /\ IF m.type = "junk"
              THEN UNCHANGED <<pc, sensors, event, thr>>
              ELSE /\ event' = ev
                   /\ IF ev
                      THEN /\ sensors' = Collect(m.name)
                           /\ UNCHANGED <<pc, thr>>
                      ELSE IF LabelsOf({m.name}) = {}
                      THEN UNCHANGED <<pc, sensors, thr>>
                      ELSE IF m.value = Garbage
                      THEN /\ pc' = "aborted"
                           /\ UNCHANGED <<sensors, thr>>
                      ELSE /\ thr' = [l \in Labels |->
                                        IF HasLabel(m.name, l)
                                        THEN [thr[l] EXCEPT ![FieldSlot[m.field]] = m.value]
                                        ELSE thr[l]]
                           /\ UNCHANGED <<pc, sensors>>
    /\ UNCHANGED <<legacy, polling, triggered, sent, reported>>

(* parseUevent, one datagram.  One of kUeventMsgLen bytes or more is       *)
(* discarded.  Until thermal_event is set, a SUBSYSTEM= token other than   *)
(* thermal ends the datagram; once it is set (and it stays set for the     *)
(* rest of the drain), the first token holding NAME= is collected.         *)
ParseUevent ==
    /\ pc = "parse"
    /\ legacy
    /\ inbox # <<>>
    /\ LET m == Head(inbox)
           ev == event \/ m.type = "thermal"
       IN  /\ Take(m)
           /\ IF m.type = "oversize" \/ ~ev
              THEN UNCHANGED <<event, sensors>>
              ELSE /\ event' = TRUE
                   /\ sensors' = Collect(m.name)
    /\ UNCHANGED <<legacy, polling, triggered, pc, thr, sent, reported>>

(* accept (or recv) would block: the drain ends.  threadLoop returns       *)
(* without calling the callback when no monitored sensor was named.         *)
\* Mutant: the empty-set test of threadLoop inverted.
MutantEndDrainInverted ==
    /\ pc = "parse"
    /\ inbox = <<>>
    /\ pc' = IF sensors # {} THEN "wait" ELSE "cb"
    /\ event' = FALSE
    /\ UNCHANGED <<legacy, polling, triggered, inbox, sensors, thr, sent, owed, reported>>

EndDrain ==
    /\ pc = "parse"
    /\ inbox = <<>>
    /\ pc' = IF sensors = {} THEN "wait" ELSE "cb"
    /\ event' = FALSE
    /\ UNCHANGED <<legacy, polling, triggered, inbox, sensors, thr, sent, owed, reported>>

(* thermal_triggered_ = cb_(sensors): thermalWatcherCallbackFunc reads the *)
(* temperature of every label that prefixes a collected name, hands them   *)
(* to the HAL callback, and returns true.                                  *)
Callback ==
    /\ pc = "cb"
    /\ triggered' = TRUE
    /\ reported' = (LabelsOf(sensors) # {})
    /\ owed' = owed \ LabelsOf(sensors)
    /\ sensors' = {}
    /\ pc' = "wait"
    /\ UNCHANGED <<legacy, polling, inbox, event, thr, sent>>

Watcher == PollEvent \/ Timeout \/ ParseMsg \/ ParseUevent \/ EndDrain \/ Callback

Next ==
    \/ \E m \in Messages[legacy] : Send(m)
    \/ Watcher

\* The watcher is a dedicated thread looping in threadLoop at
\* PRIORITY_HIGHEST; clients and the kernel are under no obligation to send.
Spec == Init /\ [][Next]_vars /\ WF_vars(Watcher)

-----------------------------------------------------------------------------
Msg == [type : {"notify", "update", "junk", "thermal", "power_supply", "oversize"},
        name : STRING, field : DOMAIN FieldSlot \cup {"none"}, value : Int \cup {Garbage}]

(* Type invariant. *)
TypeOK ==
    /\ polling \in BOOLEAN /\ triggered \in BOOLEAN
    /\ pc \in {"wait", "parse", "cb", "aborted"}
    /\ inbox \in Seq(Messages[legacy])
    \* the callback is only ever handed names of monitored sensors
    /\ sensors \subseteq {n \in {m.name : m \in Messages[legacy]} : LabelsOf({n}) # {}}
    /\ event \in BOOLEAN
    /\ thr \in [Labels -> [Slots -> Int]]
    /\ sent \in 0..MaxMsgs
    /\ owed \subseteq Labels
    /\ reported \in BOOLEAN

\* Label l is awaited: a queued message asks for it, or one was taken and
\* no callback has reported l since.
Owed(l) == l \in owed \/ \E i \in DOMAIN inbox : l \in Asks(inbox[i])

(* Every sensor a notify message (or a thermal uevent) names is eventually *)
(* passed to the callback, whatever else arrives in the same drain.        *)
NotifyDelivered == \A l \in Labels : Owed(l) ~> ~Owed(l)

(* A step of parseMsg that takes an update message for a monitored sensor  *)
(* writes the new value into that sensor's threshold slot.                 *)
UpdateApplied ==
    [][\A m \in Messages[legacy] :
         (/\ pc = "parse" /\ inbox # <<>> /\ Head(inbox) = m
          /\ IsUpdate(m) /\ m.value # Garbage /\ inbox' = Tail(inbox))
         => thr'[m.name][SeverityOf[m.field]] = m.value]_vars

(* The watcher thread never ends the HAL process: a malformed message is   *)
(* rejected, not fatal.                                                    *)
NoAbort == pc # "aborted"

(* Without an event source the watcher still polls: callbacks carrying     *)
(* temperatures keep coming every poll interval.                           *)
DegradedReports == polling => []<>reported
=============================================================================
