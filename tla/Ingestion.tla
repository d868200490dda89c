----------------------------- MODULE Ingestion -----------------------------
(***************************************************************************)
(* The MQTT listener (app/core/mqtt.py) storing the readings of one        *)
(* device.  The paho thread hands every valid message to a coroutine of    *)
(* its own; the coroutines interleave at their awaits, so readings commit  *)
(* in any order.  A message of an unknown device, or one that does not     *)
(* parse, is dropped before anything is written and has no step here.      *)
(***************************************************************************)
EXTENDS Naturals

CONSTANTS Times,     \* timestamps of readings
          Versions,  \* firmware versions
          Slots,     \* slots for coroutines in flight (bounds concurrency)
          None       \* no version reported

ASSUME TimesAssumption == Times \subseteq Nat
ASSUME NoneAssumption == None \notin Versions

VARIABLES
  readings,  \* the committed sensor_readings rows
  firmware,  \* devices.firmware_version
  ingest,    \* the coroutines in flight
  queue,     \* alert checks waiting in Celery's queue, by reading
  unchecked  \* history: readings whose check was never enqueued

vars == <<readings, firmware, ingest, queue, unchecked>>

Reading == [time : Times, version : Versions \cup {None}]

(* seen: the version in the devices row as loaded.  As history, raced: another
   coroutine has written that column since. *)
Coroutine ==
  [pc : {"idle", "commit", "enqueue"}, time : Times \cup {None},
   version : Versions \cup {None}, seen : Versions \cup {None}, raced : BOOLEAN]

NoCoroutine == [pc |-> "idle", time |-> None, version |-> None, seen |-> None,
                raced |-> FALSE]

TypeOK ==
  /\ readings \in SUBSET Reading
  /\ firmware \in Versions \cup {None}
  /\ ingest \in [Slots -> Coroutine]
  /\ \A s \in Slots : ingest[s].pc # "idle" => ingest[s].time \in Times
  /\ queue \in [Times -> Nat]
  /\ unchecked \in SUBSET Times

Init ==
  /\ readings = {}
  /\ firmware = None
  /\ ingest = [s \in Slots |-> NoCoroutine]
  /\ queue = [t \in Times |-> 0]
  /\ unchecked = {}

Stored(t) == \E row \in readings : row.time = t

----------------------------------------------------------------------------
(* process_telemetry_async *)

(* A message arrives and the devices row is loaded.  The device may publish a
   reading again, late, or with another firmware. *)
Receive(s) ==
  /\ ingest[s].pc = "idle"
  /\ \E row \in Reading :
       ingest' = [ingest EXCEPT ![s] = [pc |-> "commit", time |-> row.time,
                                        version |-> row.version, seen |-> firmware,
                                        raced |-> FALSE]]
  /\ UNCHANGED <<readings, firmware, queue, unchecked>>

(* The column is in the UPDATE if the reading reports a version and the loaded
   row has another one. *)
Writes(s) == ingest[s].version # None /\ ingest[s].version # ingest[s].seen

(* s goes on to pc, and the others note whether s has written the version. *)
Goto(s, pc) ==
  ingest' = [q \in Slots |->
               IF q = s THEN [ingest[s] EXCEPT !.pc = pc]
               ELSE IF Writes(s) /\ ingest[q].pc = "commit"
                    THEN [ingest[q] EXCEPT !.raced = TRUE]
                    ELSE ingest[q]]

Row(s) == [time |-> ingest[s].time, version |-> ingest[s].version]

(* Fault: a check is enqueued before its reading is committed. *)
EnqueueUncommitted(s) ==
  /\ ingest[s].pc = "commit"
  /\ Goto(s, "enqueue")
  /\ UNCHANGED <<readings, firmware, queue, unchecked>>

(* Fault: a conflict of the key is ignored (ON CONFLICT DO NOTHING). *)
CommitAgain(s) ==
  /\ ingest[s].pc = "commit"
  /\ readings' = IF Stored(ingest[s].time) THEN readings ELSE readings \cup {Row(s)}
  /\ firmware' = IF Writes(s) THEN ingest[s].version ELSE firmware
  /\ Goto(s, "enqueue")
  /\ UNCHANGED <<queue, unchecked>>

(* Fault: a reading without a version clears the column. *)
WriteEveryVersion(s) ==
  /\ ingest[s].pc = "commit"
  /\ ~Stored(ingest[s].time)
  /\ readings' = readings \cup {Row(s)}
  /\ firmware' = ingest[s].version
  /\ Goto(s, "enqueue")
  /\ UNCHANGED <<queue, unchecked>>

(* db.commit: the row and the column in one transaction *)
CommitReading(s) ==
  /\ ingest[s].pc = "commit"
  /\ ~Stored(ingest[s].time)
  /\ readings' = readings \cup {Row(s)}
  /\ firmware' = IF Writes(s) THEN ingest[s].version ELSE firmware
  /\ Goto(s, "enqueue")
  /\ UNCHANGED <<queue, unchecked>>

(* The key (time, device_id) is taken: IntegrityError, rolled back. *)
RejectDuplicate(s) ==
  /\ ingest[s].pc = "commit"
  /\ Stored(ingest[s].time)
  /\ ingest' = [ingest EXCEPT ![s] = NoCoroutine]
  /\ UNCHANGED <<readings, firmware, queue, unchecked>>

(* _dispatch_alert_check: apply_async *)
Enqueue(s) ==
  /\ ingest[s].pc = "enqueue"
  /\ queue' = [queue EXCEPT ![ingest[s].time] = @ + 1]
  /\ ingest' = [ingest EXCEPT ![s] = NoCoroutine]
  /\ UNCHANGED <<readings, firmware, unchecked>>

(* The database fails, or the process is stopped and asyncio.run cancels its
   coroutines; once the reading is committed, also a failure of the broker, which
   is only logged. *)
Drop(s) ==
  /\ ingest[s].pc # "idle"
  /\ unchecked' = IF ingest[s].pc = "enqueue" THEN unchecked \cup {ingest[s].time}
                                              ELSE unchecked
  /\ ingest' = [ingest EXCEPT ![s] = NoCoroutine]
  /\ UNCHANGED <<readings, firmware, queue>>

Continue(s) == CommitReading(s) \/ RejectDuplicate(s) \/ Enqueue(s)

Next == \E s \in Slots : Receive(s) \/ Continue(s) \/ Drop(s)

Spec == Init /\ [][Next]_vars

----------------------------------------------------------------------------
(* Properties *)

(* A reading is handed over once, whatever the device repeats, and only when it is
   stored; one whose hand-over failed is never checked. *)
EnqueuedOnce ==
  \A t \in Times :
    /\ queue[t] > 0 => Stored(t) /\ t \notin unchecked
    /\ queue[t] <= 1

(* The version of the newest stored reading that reports one *)
Reported == {row \in readings : row.version # None}
LatestVersion ==
  IF Reported = {} THEN None
  ELSE (CHOOSE row \in Reported : \A other \in Reported : other.time <= row.time).version

Outdated == firmware # LatestVersion

(* The version the OTA check compares (devices.firmware_version) falls behind the
   readings only when one is committed after a newer one, or after another
   coroutine has written the version since it loaded the row. *)
FirmwareOutdatedOnlyByDisorder ==
  [][ ~Outdated /\ Outdated' =>
        \E s \in Slots :
          /\ CommitReading(s)
          /\ ingest[s].raced \/ \E row \in readings : row.time > ingest[s].time ]_vars
============================================================================
