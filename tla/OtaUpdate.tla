----------------------------- MODULE OtaUpdate -----------------------------
(***************************************************************************)
(* Firmware updates over the air (components/ota_update/ota_update.c).     *)
(* The httpd task calls ota_update_start, which creates an ota_task; the   *)
(* task downloads an image into the app partition that is not running,     *)
(* has it verified, makes it the boot partition and restarts the device.   *)
(* The device may also lose power, or be restarted by the watchdog, at any *)
(* moment.  Partitions, the image verification of esp_ota_end and          *)
(* esp_ota_set_boot_partition, and the bootloader are ESP-IDF's.           *)
(***************************************************************************)
EXTENDS Integers

CONSTANTS
  Urls,         \* what a client can ask for
  NoUrl,        \* s_url after a start
  Factory,      \* the image the device runs at first
  Blank,        \* a chunk of no image
  Chunks,       \* chunks in an image
  MaxStarts,    \* bound: calls of ota_update_start that are accepted
  MaxRestarts,  \* bound: restarts
  Patient       \* does the client wait for "idle" or "failed" before it asks?

Slots    == {"ota_0", "ota_1"}
Other(s) == IF s = "ota_0" THEN "ota_1" ELSE "ota_0"
Tasks    == 1..MaxStarts
Images   == Urls \cup {Factory}

(* What ota_task acquires on its way: the HTTP client, the OTA handle and  *)
(* the buffer.                                                             *)
Resources == {"client", "handle", "buffer"}

ASSUME OtaAssumption ==
  /\ Chunks \in Nat \ {0} /\ MaxStarts \in Nat /\ MaxRestarts \in Nat
  /\ Patient \in BOOLEAN
  /\ Blank \notin Images /\ Factory \notin Urls /\ NoUrl \notin Images

VARIABLES
  s_status,  \* the class of the status text
  s_url,
  starts,    \* ota tasks created so far
  task,      \* where each ota_task is
  asked,     \* the url each ota_task was created for
  url,       \* the url its HTTP client was initialised with
  target,    \* its update partition
  wrote,     \* chunks it has written
  holds,     \* of each resource, how often it acquired it less gave it back
  flash,     \* the chunks in each partition
  boot,      \* the boot partition
  running,   \* the partition the device was booted from
  restarts

taskVars == <<task, url, target, wrote, holds>>
vars == <<s_status, s_url, starts, asked, taskVars, flash, boot, running, restarts>>

(* An image passes verification if every chunk of it is there.             *)
Valid(content) == \E image \in Images : \A n \in 1..Chunks : content[n] = image

Init ==
  /\ s_status = "idle"
  /\ s_url = NoUrl
  /\ starts = 0
  /\ task = [i \in Tasks |-> "none"]
  /\ asked = [i \in Tasks |-> NoUrl]
  /\ url = [i \in Tasks |-> NoUrl]
  /\ target = [i \in Tasks |-> "ota_1"]
  /\ wrote = [i \in Tasks |-> 0]
  /\ holds = [i \in Tasks |-> [r \in Resources |-> 0]]
  /\ flash = [s \in Slots |-> [n \in 1..Chunks |-> IF s = "ota_0" THEN Factory ELSE Blank]]
  /\ boot = "ota_0"
  /\ running = "ota_0"
  /\ restarts = 0

-----------------------------------------------------------------------------
(* ota_update_start: refused only while the status is "downloading".  What *)
(* xTaskCreate returns is not looked at: the caller is told that an update *)
(* starts even if there is no memory for its task.                         *)
Start(u) ==
  /\ starts < MaxStarts
  /\ Patient => s_status \in {"idle", "failed"}
  /\ s_status # "downloading"
  /\ s_url' = u
  /\ s_status' = "starting"
  /\ starts' = starts + 1
  /\ \E outcome \in {"created", "refused"} : task' = [task EXCEPT ![starts + 1] = outcome]
  /\ asked' = [asked EXCEPT ![starts + 1] = u]
  /\ UNCHANGED <<url, target, wrote, holds, flash, boot, running, restarts>>

Run(i) ==
  /\ task[i] = "created"
  /\ s_status' = "downloading"
  /\ task' = [task EXCEPT ![i] = "connect"]
  /\ UNCHANGED <<s_url, starts, asked, url, target, wrote, holds, flash, boot, running,
                 restarts>>

Acquire(i, r) == holds' = [holds EXCEPT ![i][r] = @ + 1]

GiveBack(i, set) ==
  holds' = [holds EXCEPT ![i] = [r \in Resources |-> IF r \in set THEN @[r] - 1 ELSE @[r]]]

(* A failure tells its status, gives back what its own branch of the code  *)
(* names and ends the task.                                                *)
Fail(i, set) ==
  /\ s_status' = "failed"
  /\ GiveBack(i, set)
  /\ task' = [task EXCEPT ![i] = "ended"]
  /\ UNCHANGED <<s_url, starts, asked, url, target, wrote, flash, boot, running, restarts>>

(* esp_http_client_init copies s_url.                                      *)
ClientInit(i) ==
  /\ task[i] = "connect"
  /\ url' = [url EXCEPT ![i] = s_url]
  /\ Acquire(i, "client")
  /\ task' = [task EXCEPT ![i] = "open"]
  /\ UNCHANGED <<s_status, s_url, starts, asked, target, wrote, flash, boot, running, restarts>>

ClientInitFails(i) == task[i] = "connect" /\ Fail(i, {})

Open(i) ==
  /\ task[i] = "open"
  /\ task' = [task EXCEPT ![i] = "begin"]
  /\ UNCHANGED <<s_status, s_url, starts, asked, url, target, wrote, holds, flash, boot,
                 running, restarts>>

OpenFails(i) == task[i] = "open" /\ Fail(i, {"client"})

(* Mutation: the update goes to the running partition.                     *)
BeginOnRunning(i) ==
  /\ task[i] = "begin"
  /\ target' = [target EXCEPT ![i] = running]
  /\ Acquire(i, "handle")
  /\ task' = [task EXCEPT ![i] = "malloc"]
  /\ UNCHANGED <<s_status, s_url, starts, asked, url, wrote, flash, boot, running, restarts>>

(* esp_ota_get_next_update_partition and esp_ota_begin.                    *)
Begin(i) ==
  /\ task[i] = "begin"
  /\ target' = [target EXCEPT ![i] = Other(running)]
  /\ Acquire(i, "handle")
  /\ task' = [task EXCEPT ![i] = "malloc"]
  /\ UNCHANGED <<s_status, s_url, starts, asked, url, wrote, flash, boot, running, restarts>>

(* There is no partition, or it cannot be opened for writing.              *)
BeginFails(i) == task[i] = "begin" /\ Fail(i, {"client"})

Alloc(i) ==
  /\ task[i] = "malloc"
  /\ Acquire(i, "buffer")
  /\ task' = [task EXCEPT ![i] = "read"]
  /\ UNCHANGED <<s_status, s_url, starts, asked, url, target, wrote, flash, boot, running,
                 restarts>>

(* Mutation: esp_ota_abort is forgotten where there is no memory.          *)
AllocFailsKeepsHandle(i) == task[i] = "malloc" /\ Fail(i, {"client"})

AllocFails(i) == task[i] = "malloc" /\ Fail(i, {"handle", "client"})

(* One turn of the download loop: a chunk is read and written ...          *)
WriteChunk(i) ==
  /\ task[i] = "read"
  /\ wrote[i] < Chunks
  /\ wrote' = [wrote EXCEPT ![i] = @ + 1]
  /\ flash' = [flash EXCEPT ![target[i]][wrote[i] + 1] = url[i]]
  /\ UNCHANGED <<s_status, s_url, starts, asked, task, url, target, holds, boot, running,
                 restarts>>

(* ... or writing it fails, for one because it does not fit ...            *)
WriteFails(i) == task[i] = "read" /\ Fail(i, {"buffer", "handle", "client"})

(* ... or there is nothing more to read: the server has sent everything,   *)
(* or the connection was lost, which the loop does not tell apart.         *)
ReadEnds(i) ==
  /\ task[i] = "read"
  /\ GiveBack(i, {"buffer", "client"})
  /\ task' = [task EXCEPT ![i] = "end"]
  /\ UNCHANGED <<s_status, s_url, starts, asked, url, target, wrote, flash, boot, running,
                 restarts>>

(* Mutation: the result of esp_ota_end is not looked at.                   *)
EndUnchecked(i) ==
  /\ task[i] = "end"
  /\ GiveBack(i, {"handle"})
  /\ task' = [task EXCEPT ![i] = "boot"]
  /\ UNCHANGED <<s_status, s_url, starts, asked, url, target, wrote, flash, boot, running,
                 restarts>>

(* esp_ota_end releases the handle whatever it finds; it refuses a         *)
(* partition to which nothing was written and one that fails verification. *)
(* esp_ota_begin has not erased the partition, so what was not overwritten *)
(* is still there.                                                         *)
End(i) ==
  /\ task[i] = "end"
  /\ wrote[i] > 0 /\ Valid(flash[target[i]])
  /\ GiveBack(i, {"handle"})
  /\ task' = [task EXCEPT ![i] = "boot"]
  /\ UNCHANGED <<s_status, s_url, starts, asked, url, target, wrote, flash, boot, running,
                 restarts>>

EndFails(i) == task[i] = "end" /\ Fail(i, {"handle"})

SetBoot(i) ==
  /\ task[i] = "boot"
  /\ boot' = target[i]
  /\ task' = [task EXCEPT ![i] = "announce"]
  /\ UNCHANGED <<s_status, s_url, starts, asked, url, target, wrote, holds, flash, running,
                 restarts>>

SetBootFails(i) == task[i] = "boot" /\ Fail(i, {})

(* "success - rebooting", and two seconds to show it.                      *)
Announce(i) ==
  /\ task[i] = "announce"
  /\ s_status' = "success"
  /\ task' = [task EXCEPT ![i] = "delay"]
  /\ UNCHANGED <<s_url, starts, asked, url, target, wrote, holds, flash, boot, running,
                 restarts>>

(* The device starts afresh: RAM is gone, flash is not.  The bootloader    *)
(* takes the other partition if the boot partition fails verification.     *)
Reboot ==
  /\ running' = IF Valid(flash[boot]) THEN boot ELSE Other(boot)
  /\ s_status' = "idle"
  /\ s_url' = NoUrl
  /\ task' = [i \in Tasks |-> IF i <= starts THEN "ended" ELSE "none"]
  /\ holds' = [i \in Tasks |-> [r \in Resources |-> 0]]
  /\ restarts' = restarts + 1
  /\ UNCHANGED <<starts, asked, url, target, wrote, flash, boot>>

(* Mutation: esp_restart is not called.                                    *)
RestartForgotten(i) ==
  /\ task[i] = "delay"
  /\ task' = [task EXCEPT ![i] = "ended"]
  /\ UNCHANGED <<s_status, s_url, starts, asked, url, target, wrote, holds, flash, boot,
                 running, restarts>>

Restart(i) == task[i] = "delay" /\ Reboot

PowerLoss == restarts < MaxRestarts /\ Reboot

Fails(i) ==
  \/ ClientInitFails(i) \/ OpenFails(i) \/ BeginFails(i) \/ AllocFails(i) \/ WriteFails(i)
  \/ EndFails(i) \/ SetBootFails(i)

Goes(i) ==
  \/ Run(i) \/ ClientInit(i) \/ Open(i) \/ Begin(i) \/ Alloc(i) \/ WriteChunk(i)
  \/ ReadEnds(i) \/ End(i) \/ SetBoot(i) \/ Announce(i)

Ota(i) == Goes(i) \/ Fails(i) \/ Restart(i)

Next == (\E u \in Urls : Start(u)) \/ (\E i \in Tasks : Ota(i)) \/ PowerLoss

Spec == Init /\ [][Next]_vars

(* The scheduler runs every ota_task, and every call it makes returns.     *)
FairSpec == Spec /\ \A i \in Tasks : WF_vars(Ota(i))

-----------------------------------------------------------------------------
(* An update is being made; one whose task was not created is not.         *)
Active(i) == task[i] \notin {"none", "refused", "ended"}

(* What a chunk can be of.                                                 *)
Chunk == Images \cup {NoUrl, Blank}

Places == {"none", "refused", "created", "connect", "open", "begin", "malloc", "read", "end",
           "boot", "announce", "delay", "ended"}

(* Every variable has the values the code can give it.                     *)
TypeOK ==
  /\ s_status \in {"idle", "starting", "downloading", "failed", "success"}
  /\ s_url \in Urls \cup {NoUrl}
  /\ starts \in 0..MaxStarts
  /\ task \in [Tasks -> Places]
  /\ asked \in [Tasks -> Urls \cup {NoUrl}]
  /\ url \in [Tasks -> Urls \cup {NoUrl}]
  /\ target \in [Tasks -> Slots]
  /\ wrote \in [Tasks -> 0..Chunks]
  /\ holds \in [Tasks -> [Resources -> Int]]
  /\ flash \in [Slots -> [1..Chunks -> Chunk]]
  /\ boot \in Slots /\ running \in Slots
  /\ restarts \in Nat

(* Whenever the power fails the boot partition has a complete image: it is *)
(* not written to once it is chosen, and a download that broke off is not  *)
(* chosen.                                                                 *)
AlwaysBootable == Valid(flash[boot])

(* Whatever clients do, and whenever the power fails, the bootloader finds *)
(* an image: the partition the device runs from is never written to.       *)
NeverBricked == Valid(flash[boot]) \/ Valid(flash[Other(boot)])

(* What is chosen to boot is the image of the request that is being served.*)
BootsWhatWasAsked ==
  \A i \in Tasks : task[i] \in {"announce", "delay"} =>
    /\ boot = target[i]
    /\ \A n \in 1..Chunks : flash[boot][n] = asked[i]

(* What the status a client polls tells it of the update: "downloading"    *)
(* and "success" that one is being made, "idle" and "failed" that none is. *)
(* "starting" tells it only that the last request was accepted: its task   *)
(* has not run yet, or was never created.                                  *)
StatusHonest ==
  /\ s_status \in {"downloading", "success"} => \E i \in Tasks : Active(i)
  /\ s_status \in {"idle", "failed"} => \A i \in Tasks : ~Active(i)
  /\ s_status = "starting" => starts > 0 /\ task[starts] \in {"created", "refused"}

(* Each way through ota_task gives back what it has acquired, and once:    *)
(* no branch that ends it keeps the HTTP client, the OTA handle or the     *)
(* buffer, and nothing is freed twice or before it is there.               *)
NothingKept ==
  \A i \in Tasks : \A r \in Resources :
    holds[i][r] \in {0, 1} /\ (~Active(i) => holds[i][r] = 0)

(* A client that polls the status sees an update that has a task end, in   *)
(* "failed" or in a restart, after which the status is "idle": it is not   *)
(* left looking at "downloading".  An update whose task was not created    *)
(* has no end: the status stays "starting" until somebody asks again.      *)
UpdateEnds == \A i \in Tasks : Active(i) ~> ~Active(i) /\ s_status \in {"idle", "failed"}

=============================================================================
