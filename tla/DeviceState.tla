----------------------------- MODULE DeviceState -----------------------------
(***************************************************************************)
(* The singleton DeviceState: the last fix of the GPS, behind a mutex, and *)
(* the battery level, an atomic.  The UI thread writes, the publish thread *)
(* of the telemetry reads.  m_signal_dbm, which nothing sets, is left out. *)
(*                                                                         *)
(* A GpsModel is eight fields, copied one after the other; two halves, the *)
(* position and the timestamp, are enough for a copy to be torn.  A fix is *)
(* its number, 0 stands for the GpsModel that is not valid.                *)
(***************************************************************************)
EXTENDS Integers

CONSTANT MaxFix  \* bound: how many fixes the provider gives

VARIABLE device
  \* position, timestamp: the two halves of m_gps
  \* mutex:               the thread that holds m_gps_mutex
  \* battery:             m_battery

TypeOK == device \in [position : 0..MaxFix, timestamp : 0..MaxFix,
                      mutex : {"free", "ui", "publisher"},
                      battery : -1..100]

Init == device = [position |-> 0, timestamp |-> 0, mutex |-> "free",
                  battery |-> -1]

(* updateGps(gps): the lock, and the first half of the assignment ... *)
BeginUpdate(fix) ==
  /\ device.mutex = "free"
  /\ device' = [device EXCEPT !.mutex = "ui", !.position = fix]

(* ... the second half, and the end of the lock_guard. *)
EndUpdate(fix) ==
  device' = [device EXCEPT !.mutex = "free", !.timestamp = fix]

(* Mutant: gps() copies without the mutex. *)
Bug_ReadUnlocked == UNCHANGED device

(* gps(): the lock, with which the copy begins ... *)
BeginRead == /\ device.mutex = "free"
             /\ device' = [device EXCEPT !.mutex = "publisher"]

(* ... and its end. *)
EndRead == device' = [device EXCEPT !.mutex = "free"]

(* setBatteryLevel(level) *)
SetBatteryLevel(level) == device' = [device EXCEPT !.battery = level]
=============================================================================
