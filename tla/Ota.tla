-------------------------------- MODULE Ota --------------------------------
(***************************************************************************)
(* GET /devices/{device_id}/ota (app/api/v1/ota.py) over the column that   *)
(* the MQTT listener keeps (Ingestion): whether an update is offered.      *)
(***************************************************************************)
EXTENDS Ingestion, Sequences

CONSTANTS Semver,    \* the versions written as the code assumes, "1.4.2"
          Superseded \* the versions released before the latest one

ASSUME SemverAssumption == Semver \subseteq Versions /\ Superseded \subseteq Semver

LATEST_FIRMWARE_VERSION == "2.0.0"

(* What map(int, v.strip("v").split(".")) makes of a text that it can convert *)
Numbers ==
  [v \in {"1.4.2", "v2.0.0", "2.0.0", "2.0", "10.0.0"} |->
     CASE v = "1.4.2" -> <<1, 4, 2>>
       [] v \in {"v2.0.0", "2.0.0"} -> <<2, 0, 0>>
       [] v = "2.0" -> <<2, 0>>
       [] v = "10.0.0" -> <<10, 0, 0>>]

(* Fault: a leading "v" is not stripped. *)
ParseUnstripped(v) ==
  IF v \in DOMAIN Numbers /\ v # "v2.0.0" THEN Numbers[v] ELSE <<0, 0, 0>>

(* No version, or a text with anything else in it, counts as 0.0.0. *)
ParseVersion(v) == IF v \in DOMAIN Numbers THEN Numbers[v] ELSE <<0, 0, 0>>

(* The order of releases, by which Superseded is meant: major, minor, patch number *)
Precedes(a, b) == \E i \in 1 .. 3 : a[i] < b[i] /\ \A j \in 1 .. (i - 1) : a[j] = b[j]

ASSUME SupersededAssumption ==
  /\ \A v \in Semver : v \in DOMAIN Numbers /\ Len(Numbers[v]) = 3
  /\ Superseded = {v \in Semver : Precedes(Numbers[v], Numbers[LATEST_FIRMWARE_VERSION])}

(* Tuples of any length in Python's order: at the first difference, or where the
   first of them ends *)
Older(a, b) ==
  \E n \in 0 .. Len(a) :
    /\ n < Len(b)
    /\ \A i \in 1 .. n : a[i] = b[i]
    /\ n = Len(a) \/ a[n + 1] < b[n + 1]

(* check_ota_update: what it answers from the column as it is *)
UpdateAvailable(version) ==
  Older(ParseVersion(version), ParseVersion(LATEST_FIRMWARE_VERSION))

(* As long as the column is that of the newest reading, a device is offered the
   latest firmware if and only if it reports one released before it (check_ota_update
   over process_telemetry_async). *)
OfferedIffSuperseded ==
  ~Outdated /\ LatestVersion \in Semver =>
    (UpdateAvailable(firmware) <=> LatestVersion \in Superseded)
============================================================================
