----------------------------- MODULE Hypervisor -----------------------------
(***************************************************************************)
(* The life of the driver: DriverEntry and unload (driver.cpp), the        *)
(* hypervisor object they own (mshv_hypervisor), and start() and stop() of *)
(* every virtual processor, run on all processors at once by an            *)
(* inter-processor interrupt.  What happens between start() and stop() on  *)
(* a processor is VmExit.                                                  *)
(***************************************************************************)
EXTENDS Naturals, FiniteSets

CONSTANTS
  MaxProcessors,   \* bound on the processors, hot-added ones included
  AtBoot,          \* the number of processors the system has booted with
  MayFail          \* the steps of DriverEntry that may fail

ASSUME ProcessorsAssumption ==
  MaxProcessors \in Nat /\ AtBoot \in Nat /\ 0 < AtBoot /\ AtBoot <= MaxProcessors
ASSUME MayFailAssumption ==
  MayFail \subseteq {"identity_map", "assist_page", "vmx_on", "device", "link"}

VARIABLES
  stage,       \* how far the driver's thread is
  owner,       \* who holds the hypervisor object: "nobody", "entry", "global"
  vcpus,       \* the virtual processors constructed, later the length of m_virtual_cpus
  ready,       \* the virtual processors whose intialize() has succeeded
  io,          \* what the I/O manager keeps for the driver: its "device", its "link"
  active,      \* KeQueryActiveProcessorCountEx
  ipi,         \* the broadcast in progress: "none", "start" or "stop"
  at,          \* where each processor is in it
  running,     \* m_running of each virtual processor
  mode,        \* what each processor runs in: "native" or "guest"
  halted       \* a debugger break nothing returns from, or a null pointer

driverVars == <<stage, owner, vcpus, ready, io>>
cpuVars == <<at, running, mode>>
vars == <<driverVars, active, ipi, cpuVars, halted>>

Processors == 0 .. MaxProcessors - 1
Below(n) == {c \in Processors : c < n}

Init ==
  /\ stage = "absent" /\ owner = "nobody" /\ vcpus = 0 /\ ready = {} /\ io = {}
  /\ active = AtBoot
  /\ ipi = "none"
  /\ at = [c \in Processors |-> "idle"]
  /\ running = [c \in Processors |-> FALSE]
  /\ mode = [c \in Processors |-> "native"]
  /\ halted = FALSE
-----------------------------------------------------------------------------
(***************************************************************************)
(* DriverEntry up to start().  The object belongs to a local until         *)
(* start() has returned: an error destroys it, and the I/O manager unloads *)
(* the image.                                                              *)
(***************************************************************************)
At(s) == ~halted /\ stage = s

Load ==
  /\ At("absent") /\ stage' = "initialize" /\ owner' = "entry"
  /\ UNCHANGED <<vcpus, ready, io, active, ipi, cpuVars, halted>>

(***************************************************************************)
(* ~mshv_virtual_cpu: a destructor finds m_running set and stops the       *)
(* system.                                                                 *)
(***************************************************************************)
Destroy ==
  /\ owner' = "nobody" /\ vcpus' = 0 /\ ready' = {} /\ stage' = "absent"
  /\ halted' = \E c \in Below(vcpus) : running[c]
  /\ running' = [c \in Processors |-> IF c \in Below(vcpus) THEN FALSE ELSE running[c]]
  /\ UNCHANGED <<io, active, ipi, at, mode>>

(***************************************************************************)
(* intialize(): the tables, then one virtual processor for each processor  *)
(* there is now, all constructed before the first is initialized.          *)
(***************************************************************************)
BuildTables ==
  /\ At("initialize")
  /\ \/ "identity_map" \in MayFail /\ Destroy
     \/ /\ stage' = "vcpus" /\ vcpus' = active
        /\ UNCHANGED <<owner, ready, io, active, ipi, cpuVars, halted>>

InitializeVcpu ==
  /\ At("vcpus") /\ ready # Below(vcpus)
  /\ \/ "assist_page" \in MayFail /\ Destroy
     \/ /\ ready' = Below(Cardinality(ready) + 1)
        /\ UNCHANGED <<stage, owner, vcpus, io, active, ipi, cpuVars, halted>>

(***************************************************************************)
(* KeIpiGenericCall: every active processor runs the callback, and the     *)
(* caller goes on when all have returned from it.                          *)
(***************************************************************************)
Broadcast(callback) ==
  /\ ipi' = callback
  /\ at' = [c \in Processors |-> IF c < active THEN "called" ELSE "idle"]
  /\ UNCHANGED <<owner, vcpus, ready, active, running, mode, halted>>

Returned == \A c \in Processors : at[c] \in {"idle", "done"}

EndBroadcast ==
  /\ ipi' = "none" /\ at' = [c \in Processors |-> "idle"]
  /\ UNCHANGED <<vcpus, ready, active, running, mode, halted>>

BeginStart ==
  /\ At("vcpus") /\ ready = Below(vcpus)
  /\ stage' = "start" /\ Broadcast("start") /\ UNCHANGED io

EndStartEarly ==      \* mutant: the caller does not wait for the callbacks
  /\ At("start")
  /\ stage' = "device" /\ owner' = "global" /\ EndBroadcast /\ UNCHANGED io

EndStart ==
  /\ At("start") /\ Returned
  /\ stage' = "device" /\ owner' = "global" /\ EndBroadcast /\ UNCHANGED io

(***************************************************************************)
(* The device and its symbolic link.  An error here returns from           *)
(* DriverEntry with every processor in its virtual machine: nobody stops   *)
(* it and the image goes.  The device is deleted in either case, and       *)
(* g_DeviceObject never refers to it.                                      *)
(***************************************************************************)
GoOn(next) ==
  stage' = next /\ UNCHANGED <<owner, vcpus, ready, active, ipi, cpuVars, halted>>

CreateDevice ==
  /\ At("device")
  /\ \/ io' = io \cup {"device"} /\ GoOn("link")
     \/ "device" \in MayFail /\ GoOn("abandoned") /\ UNCHANGED io

CreateLinkKeepsDevice ==      \* mutant: the device is deleted only when all went well
  /\ At("link")
  /\ \/ io' = {"link"} /\ GoOn("loaded")
     \/ "link" \in MayFail /\ GoOn("abandoned") /\ UNCHANGED io

CreateLink ==
  /\ At("link")
  /\ \/ io' = {"link"} /\ GoOn("loaded")
     \/ "link" \in MayFail /\ io' = {} /\ GoOn("abandoned")

(***************************************************************************)
(* SirenHvDriverUnload.                                                    *)
(***************************************************************************)
BeginStopSkipped ==      \* mutant: the object is deleted and stop() is not called
  /\ At("loaded") /\ stage' = "delete" /\ io' = io \ {"link"}
  /\ UNCHANGED <<owner, vcpus, ready, active, ipi, cpuVars, halted>>

BeginStop ==
  At("loaded") /\ stage' = "stop" /\ io' = io \ {"link"} /\ Broadcast("stop")

EndStop ==
  /\ At("stop") /\ Returned
  /\ stage' = "delete" /\ EndBroadcast /\ UNCHANGED <<owner, io>>

Delete == At("delete") /\ Destroy
-----------------------------------------------------------------------------
(***************************************************************************)
(* start() and stop() on processor c.  get_virtual_cpu() has no virtual    *)
(* processor for one that was added after intialize().                     *)
(***************************************************************************)
Called(callback, c, step) == ~halted /\ ipi = callback /\ at[c] = step

GoTo(c, step) ==
  at' = [at EXCEPT ![c] = step] /\ UNCHANGED <<driverVars, active, ipi>>

NullVirtualCpu(c) ==
  /\ \E callback \in {"start", "stop"} : Called(callback, c, "called")
  /\ c >= vcpus
  /\ halted' = TRUE /\ UNCHANGED <<driverVars, active, ipi, cpuVars>>

EnterVmx(c) ==
  /\ Called("start", c, "called") /\ c < vcpus
  /\ \/ running[c] /\ GoTo(c, "done") /\ UNCHANGED halted
     \/ ~running[c] /\ GoTo(c, "vmx") /\ UNCHANGED halted
     \/ ~running[c] /\ "vmx_on" \in MayFail /\ halted' = TRUE /\ GoTo(c, "called")
  /\ UNCHANGED <<running, mode>>

LaunchVcpu(c) ==
  /\ Called("start", c, "vmx")
  /\ mode' = [mode EXCEPT ![c] = "guest"]
  /\ GoTo(c, "launched") /\ UNCHANGED <<running, halted>>

MarkRunningForgotten(c) ==      \* mutant: m_running is not set
  /\ Called("start", c, "launched")
  /\ GoTo(c, "done") /\ UNCHANGED <<running, mode, halted>>

MarkRunning(c) ==
  /\ Called("start", c, "launched")
  /\ running' = [running EXCEPT ![c] = TRUE]
  /\ GoTo(c, "done") /\ UNCHANGED <<mode, halted>>

(***************************************************************************)
(* The hypercall turns the virtual machine off, where there is one.        *)
(***************************************************************************)
TurnOffStays(c) ==      \* mutant: the exit handler resumes the guest
  /\ Called("stop", c, "called") /\ c < vcpus
  /\ IF running[c] THEN GoTo(c, "off") ELSE GoTo(c, "done")
  /\ UNCHANGED <<running, mode, halted>>

TurnOff(c) ==
  /\ Called("stop", c, "called") /\ c < vcpus
  /\ IF running[c]
     THEN /\ mode' = [mode EXCEPT ![c] = "native"]
          /\ halted' = (mode[c] = "native")
          /\ GoTo(c, "off")
     ELSE GoTo(c, "done") /\ UNCHANGED <<mode, halted>>
  /\ UNCHANGED running

MarkStoppedForgotten(c) ==      \* mutant: m_running is not reset
  /\ Called("stop", c, "off")
  /\ GoTo(c, "done") /\ UNCHANGED <<running, mode, halted>>

MarkStopped(c) ==
  /\ Called("stop", c, "off")
  /\ running' = [running EXCEPT ![c] = FALSE]
  /\ GoTo(c, "done") /\ UNCHANGED <<mode, halted>>

(***************************************************************************)
(* A processor is hot-added.                                               *)
(***************************************************************************)
AddProcessor ==
  /\ ~halted /\ ipi = "none" /\ active < MaxProcessors
  /\ active' = active + 1
  /\ UNCHANGED <<driverVars, ipi, cpuVars, halted>>

(***************************************************************************)
(* The system has stopped, or has lost the image its exit handlers are in. *)
(***************************************************************************)
Ended == (halted \/ stage = "abandoned") /\ UNCHANGED vars

Driver ==
  \/ BuildTables \/ InitializeVcpu \/ BeginStart \/ EndStart \/ CreateDevice \/ CreateLink
  \/ EndStop \/ Delete

Callback(c) ==
  \/ EnterVmx(c) \/ LaunchVcpu(c) \/ MarkRunning(c)
  \/ TurnOff(c) \/ MarkStopped(c) \/ NullVirtualCpu(c)

Next ==
  \/ Load \/ Driver \/ BeginStop \/ AddProcessor \/ Ended
  \/ \E c \in Processors : Callback(c)

Spec == Init /\ [][Next]_vars

(***************************************************************************)
(* The driver's thread is scheduled, and every processor takes the         *)
(* interrupt.  Nobody has to load the driver, to unload it or to add a     *)
(* processor.                                                              *)
(***************************************************************************)
FairSpec ==
  Spec /\ WF_vars(Driver) /\ \A c \in Processors : WF_vars(Callback(c))
-----------------------------------------------------------------------------
(***************************************************************************)
(* Type invariant of the driver and its processors.                        *)
(***************************************************************************)
Stages ==
  {"absent", "initialize", "vcpus", "start", "device", "link", "loaded", "stop", "delete",
   "abandoned"}

TypeOK ==
  /\ stage \in Stages
  /\ owner \in {"nobody", "entry", "global"}
  /\ vcpus \in 0 .. MaxProcessors
  /\ ready \in SUBSET Processors
  /\ io \in SUBSET {"device", "link"}
  /\ active \in AtBoot .. MaxProcessors
  /\ ipi \in {"none", "start", "stop"}
  /\ at \in [Processors -> {"idle", "called", "vmx", "launched", "off", "done"}]
  /\ running \in [Processors -> BOOLEAN]
  /\ mode \in [Processors -> {"native", "guest"}]
  /\ halted \in BOOLEAN

(***************************************************************************)
(* A processor in its virtual machine has an initialized virtual processor *)
(* under it, whose VMCS and stack are not freed before it has left (of     *)
(* DriverEntry, SirenHvDriverUnload and intialize).                        *)
(***************************************************************************)
MemoryOutlivesGuests ==
  \A c \in Processors : mode[c] = "guest" => owner # "nobody" /\ c \in ready

(***************************************************************************)
(* A processor in its virtual machine can run the exit handler: the image  *)
(* is not unloaded before it has left.  SirenHvDriverUnload sees to it     *)
(* (driver.cpp 87-90), and ~mshv_virtual_cpu checks it; DriverEntry        *)
(* returns an error with every processor in its virtual machine when the   *)
(* device or its link cannot be made (42-48).                              *)
(***************************************************************************)
ImageOutlivesGuests ==
  \A c \in Processors : mode[c] = "guest" => stage \notin {"absent", "abandoned"}

(***************************************************************************)
(* Whichever step of DriverEntry fails, and after an unload, nothing the   *)
(* I/O manager keeps refers to an image that has gone (of ON_FINAL and     *)
(* SirenHvDriverUnload).                                                   *)
(***************************************************************************)
NothingLeftBehind == stage \in {"absent", "initialize", "abandoned"} => io = {}

(***************************************************************************)
(* Outside start() and stop(), m_running says whether the processor is in  *)
(* its virtual machine; so neither of them is applied twice, and the       *)
(* destructor's check of m_running is about what it means to be about.     *)
(***************************************************************************)
RunningAgrees ==
  ~halted => \A c \in Below(vcpus) :
               at[c] \in {"idle", "called", "done"} => (running[c] <=> mode[c] = "guest")

(***************************************************************************)
(* Between two broadcasts siren has all processors it knows or none.       *)
(***************************************************************************)
AllOrNone ==
  ipi = "none" => \A c, d \in Below(vcpus) : mode[c] = mode[d]

(***************************************************************************)
(* The system stops for one of two reasons only: a processor cannot enter  *)
(* VMX operation, or one that was added after intialize() takes part in    *)
(* start() or stop() without a virtual processor.  ~mshv_virtual_cpu never *)
(* finds m_running set, no hypercall is made outside a virtual machine,    *)
(* and no processor that runs a guest enters VMX operation again.          *)
(***************************************************************************)
CannotStart(c) == ipi = "start" /\ ~running[c] /\ mode[c] = "native" /\ "vmx_on" \in MayFail

StopsOnlyInBroadcasts ==
  [][~halted /\ halted' =>
       \E c \in Processors : at[c] = "called" /\ (c >= vcpus \/ CannotStart(c))]_vars

(***************************************************************************)
(* An unload comes to its end, with every processor out of its virtual     *)
(* machine and the hypervisor freed, unless the system has stopped.        *)
(***************************************************************************)
UnloadEnds ==
  stage = "stop" ~>
    \/ halted
    \/ stage = "absent" /\ owner = "nobody" /\ \A c \in Processors : mode[c] = "native"
=============================================================================
