-------------------------------- MODULE Boot --------------------------------
(***************************************************************************)
(* vibe_init and the device registry (kernel/init.c, include/vibe/device.h).*)
(* Devices register themselves with a level; the linker puts them in some  *)
(* order.  An init function may fail, which is only logged.                *)
(***************************************************************************)
EXTENDS Naturals, Sequences

CONSTANT Registry      \* the device tables the linker may produce: sequences of
                       \* [level, fn]; fn: the device has an init function

Level == {"PRE_KERNEL_1", "PRE_KERNEL_2", "POST_KERNEL", "APPLICATION"}

ASSUME BootAssumption == Registry \subseteq Seq([level : Level, fn : BOOLEAN])

VARIABLES devices,     \* the table of this image
          stage,       \* index into BootSteps
          dev,         \* _vibe_device_init_level: the next device of the walk
          result,      \* device -> the results of its init calls since reset
          facility     \* what vibe_init has set up since reset

bootvars == <<devices, stage, dev, result, facility>>

BootSteps == <<"arch", "PRE_KERNEL_1", "PRE_KERNEL_2", "idle", "workq",
               "POST_KERNEL", "log", "APPLICATION", "systick", "sched">>

Order(s) == CHOOSE i \in DOMAIN BootSteps : BootSteps[i] = s

Facilities == {"arch", "idle", "workq", "log", "systick", "sched"}

At(s) == stage <= Len(BootSteps) /\ BootSteps[stage] = s

ResetState ==
  /\ stage = 1 /\ dev = 1 /\ facility = {}
  /\ result = [d \in DOMAIN devices |-> <<>>]

BootInit == devices \in Registry /\ ResetState

(* Steps 1, 5, 6, 8 and 10.  Without the idle thread the boot stops for    *)
(* good; without the work queue it only warns.                             *)
SetUp(s) ==
  /\ s \in Facilities /\ At(s)
  /\ \/ facility' = facility \cup {s} /\ stage' = stage + 1
     \/ s = "workq" /\ stage' = stage + 1 /\ UNCHANGED facility
     \/ s = "idle" /\ stage' = Len(BootSteps) + 2 /\ UNCHANGED facility
  /\ UNCHANGED <<devices, dev, result>>

Walk_StopsAtError(l) ==
  /\ At(l) /\ dev \in DOMAIN devices
  /\ \E r \in {"ok", "error"} :
       IF devices[dev].level = l /\ devices[dev].fn
       THEN /\ result' = [result EXCEPT ![dev] = Append(@, r)]
            /\ dev' = IF r = "error" THEN Len(devices) + 1 ELSE dev + 1
       ELSE UNCHANGED result /\ dev' = dev + 1
  /\ UNCHANGED <<devices, stage, facility>>

(* One device of the walk: only those of this very level are initialised,  *)
(* and the walk goes on whatever the init function returns.                *)
vibe_device_init_level(l) ==
  /\ At(l) /\ dev \in DOMAIN devices
  /\ IF devices[dev].level = l /\ devices[dev].fn
     THEN \E r \in {"ok", "error"} : result' = [result EXCEPT ![dev] = Append(@, r)]
     ELSE UNCHANGED result
  /\ dev' = dev + 1
  /\ UNCHANGED <<devices, stage, facility>>

LevelDone(l) ==
  /\ At(l) /\ dev > Len(devices)
  /\ stage' = stage + 1 /\ dev' = 1
  /\ UNCHANGED <<devices, result, facility>>

BootStep ==
  \/ \E s \in Facilities : SetUp(s)
  \/ \E l \in Level : vibe_device_init_level(l) \/ LevelDone(l)

Halted == stage = Len(BootSteps) + 2

(* vibe_reboot from the running system, or the reset button after a halt.  *)
vibe_reboot ==
  /\ "sched" \in facility \/ Halted
  /\ stage' = 1 /\ dev' = 1 /\ facility' = {}
  /\ result' = [d \in DOMAIN devices |-> <<>>]
  /\ UNCHANGED devices

BootNext == BootStep \/ vibe_reboot

BootSpec == BootInit /\ [][BootNext]_bootvars

vibe_device_is_ready(d) == devices[d].fn
-----------------------------------------------------------------------------
(* The comment in _vibe_device_init_level: no device is initialised twice, *)
(* nor before a device of a lower level, nor, from POST_KERNEL on, before  *)
(* the idle thread exists, nor APPLICATION devices before logging.         *)
DevicesInOrder ==
  \A d \in DOMAIN devices : result[d] # <<>> =>
    /\ Len(result[d]) = 1
    /\ \A e \in DOMAIN devices :
         Order(devices[e].level) < Order(devices[d].level) /\ devices[e].fn => result[e] # <<>>
    /\ (devices[d].level \in {"POST_KERNEL", "APPLICATION"} => "idle" \in facility)
    /\ (devices[d].level = "APPLICATION" => "log" \in facility)

(* device.h of _vibe_device_init_level: "Initialise all devices up to and  *)
(* including the given level."  As vibe_init calls it, level after level,  *)
(* this is so once a level is done, by this call and the earlier ones.     *)
DevicesComplete ==
  ~Halted => \A d \in DOMAIN devices :
    devices[d].fn /\ Order(devices[d].level) < stage => result[d] # <<>>

(* The same sentence of a single call.  It is not so: the walk passes over *)
(* the devices of lower levels, and if it did not, vibe_init would have    *)
(* them initialised several times.                                         *)
OneCallInitsAll ==
  [][\A l \in Level, d \in DOMAIN devices :
       (At(l) /\ dev = d /\ dev' = d + 1 /\ devices[d].fn
          /\ Order(devices[d].level) <= Order(l)) => result'[d] # result[d]]_bootvars

(* The boot comes to its end whatever the init functions report: the       *)
(* scheduler is started, or the idle thread could not be created.          *)
BootEnds ==
  [](stage \in 2..Len(BootSteps) => <>("sched" \in facility \/ Halted))

(* What device.h says of vibe_device_is_ready: true if the init function   *)
(* returned VIBE_OK.                                                       *)
ReadyMeansOk ==
  \A d \in DOMAIN devices : vibe_device_is_ready(d) => result[d] = <<"ok">>

(* vibe_init takes every device through its initialisation once, in order  *)
(* of levels, and gets to the scheduler, although init functions fail      *)
(* (DevicesInOrder, DevicesComplete, BootEnds).                            *)
BootSound == [](DevicesInOrder /\ DevicesComplete) /\ BootEnds

=============================================================================
