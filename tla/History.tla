------------------------------ MODULE History ------------------------------
(***************************************************************************)
(* What the app shows of the readings that are stored: GET /telemetry/     *)
(* {device_id}/history in its resolutions (app/api/v1/telemetry.py),       *)
(* GET /status/{device_id} (status.py), and what TimescaleDB does to the   *)
(* hypertable behind them (alembic, 20260612_1123): the continuous         *)
(* aggregate sensor_readings_hourly, its refresh policy, and retention.    *)
(*                                                                         *)
(* The view is a real-time aggregate: below its watermark, the end of the  *)
(* newest bucket it has ever materialised for any device, it shows what is *)
(* materialised, and above it aggregates the readings on the fly.          *)
(*                                                                         *)
(* Time is counted in ticks, TicksPerHour to the hour.  A reading has a    *)
(* time only: what a query shows is the set of readings it is made from,   *)
(* and the averages are left out.  Compression changes no answer.          *)
(***************************************************************************)
EXTENDS Integers, FiniteSets

CONSTANTS Devices,       \* devices that publish readings over MQTT
          Demo,          \* the device that POST /devices/demo creates
          TicksPerHour,  \* resolution of time
          HoursPerDay,   \* 24
          Retention,     \* the retention policy's drop_after, in days
          RawLimit,      \* LIMIT of the raw query
          RawWindow,     \* longest window of a raw query, in hours
          MaxTime,       \* bound: when the model ends
          MaxReadings    \* bound: readings the devices publish

Hour == TicksPerHour
Day == HoursPerDay * TicksPerHour
Times == 0 .. MaxTime

ASSUME TimeAssumption == {TicksPerHour, HoursPerDay, Retention} \subseteq Nat \ {0}
ASSUME RetentionAssumption == Retention * Day >= 3 * Hour
ASSUME BoundsAssumption == {MaxTime, MaxReadings, RawLimit, RawWindow} \subseteq Nat
ASSUME DemoAssumption == Demo \notin Devices

VARIABLES
  now,           \* the time
  stored,        \* the sensor_readings rows that no retention job has dropped
  materialised,  \* the readings behind the materialised rows of the view
  watermark,     \* where the view goes over to aggregating on the fly
  refreshed,     \* whether the refresh job has run in this hour
  excused        \* history: readings that came late, or whose refresh was missed

vars == <<now, stored, materialised, watermark, refreshed, excused>>

Reading == [device : Devices \cup {Demo}, time : Times]

Bucket(t) == t - (t % Hour)
BucketOf(row) == Bucket(row.time)
HourOf(t) == t \div Hour
DayOf(t) == t - (t % Day)

TypeOK ==
  /\ now \in Times
  /\ stored \in SUBSET Reading
  /\ materialised \in SUBSET Reading
  /\ watermark \in 0 .. (MaxTime + Hour)
  /\ watermark <= now
  /\ refreshed \in BOOLEAN
  /\ excused \in SUBSET Reading

Init ==
  /\ now = 0
  /\ stored = {} /\ materialised = {}
  /\ watermark = 0
  /\ refreshed = FALSE
  /\ excused = {}

----------------------------------------------------------------------------
(* Readings *)

(* From then on a refresh may have taken in the bucket of the reading. *)
Late(row) == now >= BucketOf(row) + 2 * Hour

(* INSERT of rows whose key (time, device_id) is free *)
Insert(rows) ==
  /\ stored' = stored \cup rows
  /\ excused' = excused \cup {row \in rows : Late(row)}
  /\ UNCHANGED <<now, materialised, watermark, refreshed>>

(* A reading arrives when it is taken, or late: a device or its gateway may have
   been without a connection.  Its clock is right.  Readings older than those
   that retention keeps are none of this module's concern. *)
Publish ==
  /\ Cardinality({row \in stored : row.device \in Devices}) < MaxReadings
  /\ \E d \in Devices, t \in 0 .. now :
       LET row == [device |-> d, time |-> t]
       IN row \notin stored /\ t >= now - Retention * Day /\ Insert({row})

(* create_demo_device: a device with the readings of the day before *)
CreateDemo ==
  /\ now > 0
  /\ \A row \in stored \cup materialised : row.device # Demo
  /\ Insert({[device |-> Demo, time |-> t] :
               t \in {u \in Times : u >= now - Day /\ u < now}})

----------------------------------------------------------------------------
(* Policies of TimescaleDB *)

(* Faults: an end_offset of zero, without and with the bucket that now lies in; a
   start_offset of NULL, which is the beginning *)
InWindowOfNow(b) == b >= now - 3 * Hour /\ b <= now
InWindowUpToNow(b) == b >= now - 3 * Hour /\ b + Hour <= now
InWindowFromStart(b) == b + Hour <= now - Hour

(* The whole buckets between start_offset and end_offset *)
InWindow(b) == b >= now - 3 * Hour /\ b + Hour <= now - Hour

(* The job replaces the buckets in its window by those of the readings that are
   stored now, and the watermark follows. *)
Refresh ==
  /\ ~refreshed
  /\ LET kept == {row \in materialised : ~InWindow(BucketOf(row))}
         new == {row \in stored : InWindow(BucketOf(row))}
     IN /\ materialised' = kept \cup new
        /\ watermark' = IF \E row \in new : BucketOf(row) + Hour > watermark
                        THEN CHOOSE w \in {BucketOf(row) + Hour : row \in new} :
                               \A row \in new : BucketOf(row) + Hour <= w
                        ELSE watermark
  /\ refreshed' = TRUE
  /\ UNCHANGED <<now, stored, excused>>

(* A tick; with the hour ends the time for its refresh, which a worker that is
   down or busy has not run. *)
Tick ==
  /\ now < MaxTime
  /\ now' = now + 1
  /\ IF HourOf(now + 1) # HourOf(now)
     THEN /\ refreshed' = FALSE
          /\ excused' = IF refreshed THEN excused
                        ELSE excused \cup {row \in stored :
                                             HourOf(row.time) + 2 = HourOf(now)}
     ELSE UNCHANGED <<refreshed, excused>>
  /\ UNCHANGED <<stored, materialised, watermark>>

(* Chunks older than drop_after; the hypertable's chunks of seven days are of
   one day here. *)
Expired(row) == DayOf(row.time) + Day <= now - Retention * Day

(* The retention job leaves the view's own rows alone. *)
DropChunks ==
  /\ \E row \in stored : Expired(row)
  /\ stored' = {row \in stored : ~Expired(row)}
  /\ excused' = {row \in excused : ~Expired(row)}
  /\ UNCHANGED <<now, materialised, watermark, refreshed>>

----------------------------------------------------------------------------
(* Queries *)

(* SELECT from sensor_readings_hourly: the readings behind its rows *)
View == {row \in materialised : BucketOf(row) < watermark}
          \cup {row \in stored : BucketOf(row) >= watermark}

(* 400 unless `to` is after `from` and a raw window is short enough *)
Accepted(interval, from, to) ==
  /\ to > from
  /\ interval = "raw" => to - from <= RawWindow * Hour

(* The first RawLimit rows in the order of time *)
RawTier(d, from, to) ==
  LET rows == {row \in stored : row.device = d /\ row.time \in from .. to}
  IN {row \in rows : Cardinality({other \in rows : other.time < row.time}) < RawLimit}

(* The rows whose bucket lies in the window, whole buckets only.  The daily query groups
   the same rows by day. *)
HourTier(d, from, to) ==
  {row \in View : row.device = d /\ BucketOf(row) \in from .. to}

(* Fault: ORDER BY time without DESC *)
LatestAscending(d) ==
  {row \in stored : /\ row.device = d
                    /\ \A other \in stored : other.device = d => other.time >= row.time}

(* GET /status: ORDER BY time DESC LIMIT 1, or nothing *)
Latest(d) ==
  {row \in stored : /\ row.device = d
                    /\ \A other \in stored : other.device = d => other.time <= row.time}

----------------------------------------------------------------------------
Next == Publish \/ CreateDemo \/ Refresh \/ Tick \/ DropChunks

Spec == Init /\ [][Next]_vars

----------------------------------------------------------------------------
(* Properties *)

(* What the raw tier of a window shows, the hourly tier of that window shows as well,
   but for the hour that `from` cuts, as it does by default (now - 24 hours): no reading
   of that one.  Other readings are hidden only if they came late or their refresh was
   missed (get_telemetry_history over the aggregate's window and watermark). *)
HiddenOnlyWhenLateOrCut ==
  \A d \in Devices \cup {Demo}, from, to \in Times :
    Accepted("raw", from, to) =>
      \A row \in RawTier(d, from, to) \ excused :
        row \in HourTier(d, from, to) <=> BucketOf(row) >= from

(* What the hourly view has taken in outlives the readings: no refresh replaces
   a bucket whose readings retention has dropped (start_offset against
   drop_after in the migration). *)
AggregateOutlivesReadings == [][ materialised \subseteq materialised' ]_vars

(* The snapshot of a device never goes back to an older reading, whatever comes
   late: it may only lose all of them to retention (device_snapshot). *)
SnapshotNeverGoesBack ==
  [][ \A d \in Devices \cup {Demo} :
        \A row \in Latest(d), next \in Latest(d)' : next.time >= row.time ]_vars

=============================================================================
