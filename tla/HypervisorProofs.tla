-------------------------- MODULE HypervisorProofs --------------------------
(***************************************************************************)
(* For any number of processors: the safety invariants of Hypervisor.  An  *)
(* invariant of DriverEntry, start() and stop() has to say, for each stage *)
(* of the driver and each place in the callback, what m_running and the    *)
(* processor are; IInv is that table.                                      *)
(***************************************************************************)
EXTENDS Hypervisor, TLAPS

(***************************************************************************)
(* The stage gives the owner of the object, the broadcast in progress and  *)
(* what the I/O manager keeps.                                             *)
(***************************************************************************)
Started == {"device", "link", "loaded", "abandoned"}

DriverOK ==
  /\ vcpus <= active
  /\ owner = "nobody" => stage = "absent"
  /\ stage \in {"start", "stop", "delete"} \cup Started => ready = Below(vcpus)
  /\ ipi = "start" <=> stage = "start"
  /\ ipi = "stop" <=> stage = "stop"
  /\ io = CASE stage = "link" -> {"device"} [] stage = "loaded" -> {"link"} [] OTHER -> {}

(***************************************************************************)
(* The stage and the place in the callback give m_running and the mode.    *)
(***************************************************************************)
Is(c, place, r, m) == at[c] = place /\ running[c] = r /\ mode[c] = m

KnownOK(c) ==
  /\ stage \in {"absent", "initialize", "vcpus", "delete"} => Is(c, "idle", FALSE, "native")
  /\ stage \in Started => Is(c, "idle", TRUE, "guest")
  /\ stage = "start" => \/ Is(c, "called", FALSE, "native") \/ Is(c, "vmx", FALSE, "native")
                        \/ Is(c, "launched", FALSE, "guest") \/ Is(c, "done", TRUE, "guest")
  /\ stage = "stop" => \/ Is(c, "called", TRUE, "guest") \/ Is(c, "off", TRUE, "native")
                       \/ Is(c, "done", FALSE, "native")

UnknownOK(c) ==
  /\ running[c] = FALSE /\ mode[c] = "native"
  /\ at[c] \in IF stage \in {"start", "stop"} THEN {"idle", "called"} ELSE {"idle"}

CpusOK == \A c \in Processors : IF c < vcpus THEN KnownOK(c) ELSE UnknownOK(c)

IInv == TypeOK /\ DriverOK /\ CpusOK
-----------------------------------------------------------------------------
(***************************************************************************)
(* The variables stay in their ranges in each step.                        *)
(***************************************************************************)
LEMMA DestroyKeepsTypes ==
  ASSUME TypeOK, Destroy
  PROVE  TypeOK'
<1>1. halted' \in BOOLEAN
  <2>1. CASE \E c \in Below(vcpus) : running[c]
    <3>1. halted' = TRUE
      BY <2>1, Zenon DEF Destroy
    <3> QED
      BY <3>1
  <2>2. CASE ~ \E c \in Below(vcpus) : running[c]
    <3>1. halted' = FALSE
      BY <2>2, Zenon DEF Destroy
    <3> QED
      BY <3>1
  <2> QED
    BY <2>1, <2>2
<1>2. running' \in [Processors -> BOOLEAN]
  BY DEF Destroy, TypeOK
<1>3. ready' \in SUBSET Processors /\ vcpus' \in 0 .. MaxProcessors
  BY ProcessorsAssumption DEF Destroy
<1>4. stage' \in Stages /\ owner' \in {"nobody", "entry", "global"}
  BY DEF Destroy, Stages
<1> QED
  BY <1>1, <1>2, <1>3, <1>4 DEF TypeOK, Destroy

LEMMA DriverKeepsTypes ==
  ASSUME TypeOK, Load \/ Driver \/ BeginStop \/ AddProcessor \/ Ended
  PROVE  TypeOK'
<1> USE ProcessorsAssumption DEF TypeOK, Stages, At
<1>1. CASE Load
  BY <1>1 DEF Load, cpuVars
<1>2. CASE BuildTables
  <2>1. vcpus' \in 0 .. MaxProcessors \/ Destroy
    BY <1>2 DEF BuildTables
  <2> QED
    BY <1>2, <2>1, DestroyKeepsTypes DEF BuildTables, cpuVars
<1>3. CASE InitializeVcpu
  BY <1>3, DestroyKeepsTypes DEF InitializeVcpu, Below, cpuVars
<1>4. CASE BeginStart
  BY <1>4 DEF BeginStart, Broadcast
<1>5. CASE EndStart
  BY <1>5 DEF EndStart, EndBroadcast
<1>6. CASE CreateDevice
  BY <1>6 DEF CreateDevice, GoOn, cpuVars
<1>7. CASE CreateLink
  BY <1>7 DEF CreateLink, GoOn, cpuVars
<1>8. CASE BeginStop
  BY <1>8 DEF BeginStop, Broadcast
<1>9. CASE EndStop
  BY <1>9 DEF EndStop, EndBroadcast
<1>10. CASE Delete
  BY <1>10, DestroyKeepsTypes DEF Delete
<1>11. CASE AddProcessor
  BY <1>11 DEF AddProcessor, driverVars, cpuVars
<1>12. CASE Ended
  BY <1>12 DEF Ended, vars, driverVars, cpuVars
<1> QED
  BY <1>1, <1>2, <1>3, <1>4, <1>5, <1>6, <1>7, <1>8, <1>9, <1>10, <1>11, <1>12 DEF Driver

LEMMA CallbackKeepsTypes ==
  ASSUME TypeOK, NEW c \in Processors, Callback(c)
  PROVE  TypeOK'
<1> USE DEF TypeOK, Called, GoTo, driverVars, cpuVars
<1>1. CASE EnterVmx(c)
  BY <1>1 DEF EnterVmx
<1>2. CASE LaunchVcpu(c)
  BY <1>2 DEF LaunchVcpu
<1>3. CASE MarkRunning(c)
  BY <1>3 DEF MarkRunning
<1>4. CASE TurnOff(c)
  BY <1>4 DEF TurnOff
<1>5. CASE MarkStopped(c)
  BY <1>5 DEF MarkStopped
<1>6. CASE NullVirtualCpu(c)
  BY <1>6 DEF NullVirtualCpu
<1> QED
  BY <1>1, <1>2, <1>3, <1>4, <1>5, <1>6 DEF Callback
-----------------------------------------------------------------------------
(***************************************************************************)
(* So does the rest of IInv.  Where an object is destroyed, no processor   *)
(* runs in its virtual machine.                                            *)
(***************************************************************************)
LEMMA DestroyKeepsInvariant ==
  ASSUME IInv, Destroy, stage \in {"initialize", "vcpus", "delete"}
  PROVE  DriverOK' /\ CpusOK'
<1> USE DEF Is, Started
<1>1. DriverOK'
  BY ProcessorsAssumption DEF IInv, TypeOK, DriverOK, Destroy
<1>2. CpusOK'
  BY ProcessorsAssumption DEF IInv, TypeOK, DriverOK, CpusOK, KnownOK, UnknownOK, Destroy, Below, Processors
<1> QED
  BY <1>1, <1>2

LEMMA BroadcastReachesKnown ==
  ASSUME IInv, NEW callback, Broadcast(callback), NEW c \in Processors
  PROVE  /\ c < vcpus => at'[c] = "called"
         /\ at'[c] \in {"idle", "called"}
BY ProcessorsAssumption DEF IInv, TypeOK, DriverOK, Broadcast, Processors

LEMMA DriverKeepsInvariant ==
  ASSUME IInv, Load \/ Driver \/ BeginStop \/ AddProcessor \/ Ended
  PROVE  DriverOK' /\ CpusOK'
<1> USE DEF IInv, Is, Started, At
<1>1. CASE Load
  BY <1>1 DEF Load, DriverOK, CpusOK, KnownOK, UnknownOK, cpuVars
<1>2. CASE BuildTables
  <2>1. CASE Destroy
    BY <1>2, <2>1, DestroyKeepsInvariant DEF BuildTables
  <2>2. CASE ~Destroy
    <3>1. DriverOK'
      BY <1>2, <2>2 DEF BuildTables, TypeOK, DriverOK
    <3>2. CpusOK'
      BY <1>2, <2>2 DEF BuildTables, CpusOK, KnownOK, UnknownOK, cpuVars
    <3> QED
      BY <3>1, <3>2
  <2> QED
    BY <2>1, <2>2
<1>3. CASE InitializeVcpu
  <2>1. CASE Destroy
    BY <1>3, <2>1, DestroyKeepsInvariant DEF InitializeVcpu
  <2>2. CASE ~Destroy
    BY <1>3, <2>2 DEF InitializeVcpu, DriverOK, CpusOK, KnownOK, UnknownOK, cpuVars
  <2> QED
    BY <2>1, <2>2
<1>4. CASE BeginStart
  <2>1. DriverOK'
    BY <1>4 DEF BeginStart, Broadcast, DriverOK, Below
  <2>2. CpusOK'
    BY <1>4, BroadcastReachesKnown DEF BeginStart, Broadcast, CpusOK, KnownOK, UnknownOK
  <2> QED
    BY <2>1, <2>2
<1>5. CASE EndStart
  <2>1. DriverOK'
    BY <1>5 DEF EndStart, EndBroadcast, DriverOK, Below
  <2>2. CpusOK'
    BY <1>5 DEF EndStart, EndBroadcast, Returned, CpusOK, KnownOK, UnknownOK
  <2> QED
    BY <2>1, <2>2
<1>6. CASE CreateDevice
  <2>1. DriverOK'
    BY <1>6 DEF CreateDevice, GoOn, DriverOK, Below
  <2>2. CpusOK'
    BY <1>6 DEF CreateDevice, GoOn, CpusOK, KnownOK, UnknownOK, cpuVars
  <2> QED
    BY <2>1, <2>2
<1>7. CASE CreateLink
  <2>1. DriverOK'
    BY <1>7 DEF CreateLink, GoOn, DriverOK, Below
  <2>2. CpusOK'
    BY <1>7 DEF CreateLink, GoOn, CpusOK, KnownOK, UnknownOK, cpuVars
  <2> QED
    BY <2>1, <2>2
<1>8. CASE BeginStop
  <2>1. DriverOK'
    BY <1>8 DEF BeginStop, Broadcast, DriverOK, Below
  <2>2. CpusOK'
    BY <1>8, BroadcastReachesKnown DEF BeginStop, Broadcast, CpusOK, KnownOK, UnknownOK
  <2> QED
    BY <2>1, <2>2
<1>9. CASE EndStop
  <2>1. DriverOK'
    BY <1>9 DEF EndStop, EndBroadcast, DriverOK, Below
  <2>2. CpusOK'
    BY <1>9 DEF EndStop, EndBroadcast, Returned, CpusOK, KnownOK, UnknownOK
  <2> QED
    BY <2>1, <2>2
<1>10. CASE Delete
  BY <1>10, DestroyKeepsInvariant DEF Delete
<1>11. CASE AddProcessor
  <2>1. DriverOK'
    BY <1>11, ProcessorsAssumption DEF AddProcessor, TypeOK, DriverOK, Below, driverVars
  <2>2. CpusOK'
    BY <1>11 DEF AddProcessor, CpusOK, KnownOK, UnknownOK, driverVars, cpuVars
  <2> QED
    BY <2>1, <2>2
<1>12. CASE Ended
  BY <1>12 DEF Ended, DriverOK, CpusOK, KnownOK, UnknownOK, Below, vars, driverVars, cpuVars
<1> QED
  BY <1>1, <1>2, <1>3, <1>4, <1>5, <1>6, <1>7, <1>8, <1>9, <1>10, <1>11, <1>12 DEF Driver

(***************************************************************************)
(* A callback changes only its own processor.                              *)
(***************************************************************************)
LEMMA CallbackKeepsInvariant ==
  ASSUME IInv, NEW c \in Processors, Callback(c)
  PROVE  DriverOK' /\ CpusOK'
<1> USE DEF IInv, Called, GoTo, driverVars, cpuVars
<1>1. UNCHANGED <<stage, owner, vcpus, ready, io, active, ipi>>
  BY DEF Callback, EnterVmx, LaunchVcpu, MarkRunning, TurnOff, MarkStopped, NullVirtualCpu
<1>2. DriverOK'
  BY <1>1 DEF DriverOK, Below, Started
<1>3. \A d \in Processors \ {c} : at'[d] = at[d] /\ running'[d] = running[d] /\ mode'[d] = mode[d]
  BY DEF Callback, EnterVmx, LaunchVcpu, MarkRunning, TurnOff, MarkStopped, NullVirtualCpu, TypeOK
<1>4. IF c < vcpus THEN KnownOK(c)' ELSE UnknownOK(c)'
  <2> USE <1>1 DEF TypeOK, DriverOK, CpusOK, KnownOK, UnknownOK, Is, Started
  <2>1. CASE EnterVmx(c)
    BY <2>1 DEF EnterVmx
  <2>2. CASE LaunchVcpu(c)
    BY <2>2 DEF LaunchVcpu
  <2>3. CASE MarkRunning(c)
    BY <2>3 DEF MarkRunning
  <2>4. CASE TurnOff(c)
    BY <2>4 DEF TurnOff
  <2>5. CASE MarkStopped(c)
    BY <2>5 DEF MarkStopped
  <2>6. CASE NullVirtualCpu(c)
    BY <2>6 DEF NullVirtualCpu
  <2> QED
    BY <2>1, <2>2, <2>3, <2>4, <2>5, <2>6 DEF Callback
<1>5. \A d \in Processors \ {c} : IF d < vcpus THEN KnownOK(d)' ELSE UnknownOK(d)'
  BY <1>1, <1>3 DEF CpusOK, KnownOK, UnknownOK, Is, Started
<1> QED
  BY <1>1, <1>2, <1>4, <1>5 DEF CpusOK
-----------------------------------------------------------------------------
(***************************************************************************)
(* IInv holds from Init on.                                                *)
(***************************************************************************)
LEMMA InitEstablishes == Init => IInv
<1> SUFFICES ASSUME Init
             PROVE  IInv
  OBVIOUS
<1> USE ProcessorsAssumption DEF Init
<1>1. TypeOK
  <2>1. /\ stage \in Stages
        /\ vcpus \in 0 .. MaxProcessors
        /\ active \in AtBoot .. MaxProcessors
    BY DEF Stages
  <2>2. ready \in SUBSET Processors /\ io \in SUBSET {"device", "link"}
    OBVIOUS
  <2>3. /\ at \in [Processors -> {"idle", "called", "vmx", "launched", "off", "done"}]
        /\ running \in [Processors -> BOOLEAN]
        /\ mode \in [Processors -> {"native", "guest"}]
    OBVIOUS
  <2> QED
    BY <2>1, <2>2, <2>3 DEF TypeOK
<1>2. DriverOK
  BY DEF DriverOK, Started
<1>3. CpusOK
  BY DEF CpusOK, UnknownOK, Processors
<1> QED
  BY <1>1, <1>2, <1>3 DEF IInv

LEMMA StepKeeps == IInv /\ [Next]_vars => IInv'
<1> SUFFICES ASSUME IInv, [Next]_vars
             PROVE  IInv'
  OBVIOUS
<1>1. CASE Load \/ Driver \/ BeginStop \/ AddProcessor \/ Ended
  BY <1>1, DriverKeepsTypes, DriverKeepsInvariant DEF IInv
<1>2. CASE \E c \in Processors : Callback(c)
  BY <1>2, CallbackKeepsTypes, CallbackKeepsInvariant DEF IInv
<1>3. CASE UNCHANGED vars
  BY <1>3 DEF vars, driverVars, cpuVars, IInv, TypeOK, DriverOK, CpusOK, KnownOK, UnknownOK, Is, Below
<1> QED
  BY <1>1, <1>2, <1>3 DEF Next

(***************************************************************************)
(* The table of stages, places and modes holds in every reachable state.   *)
(***************************************************************************)
THEOREM Invariance == Spec => []IInv
BY InitEstablishes, StepKeeps, PTL DEF Spec

(***************************************************************************)
(* The variables stay in their ranges, for any number of processors.       *)
(***************************************************************************)
THEOREM TypeCorrect == Spec => []TypeOK
<1>1. IInv => TypeOK
  BY DEF IInv
<1> QED
  BY <1>1, Invariance, PTL

(***************************************************************************)
(* No VMCS or stack is freed under a processor that runs on it: neither a  *)
(* failing DriverEntry nor an unload destroys the hypervisor earlier.      *)
(***************************************************************************)
THEOREM MemoryAlwaysOutlivesGuests == Spec => []MemoryOutlivesGuests
<1>1. IInv => MemoryOutlivesGuests
  BY DEF IInv, TypeOK, Stages, DriverOK, CpusOK, KnownOK, UnknownOK, Is, Started, Below, MemoryOutlivesGuests
<1> QED
  BY <1>1, Invariance, PTL

(***************************************************************************)
(* Outside the callbacks m_running tells where the processor is.           *)
(***************************************************************************)
THEOREM RunningAlwaysAgrees == Spec => []RunningAgrees
<1>1. IInv => RunningAgrees
  BY DEF IInv, TypeOK, Stages, CpusOK, KnownOK, Is, Started, Below, RunningAgrees
<1> QED
  BY <1>1, Invariance, PTL

(***************************************************************************)
(* Between two broadcasts all known processors are in the same mode.       *)
(***************************************************************************)
THEOREM AlwaysAllOrNone == Spec => []AllOrNone
<1>1. IInv => AllOrNone
  BY DEF IInv, TypeOK, Stages, DriverOK, CpusOK, KnownOK, Is, Started, Below, AllOrNone
<1> QED
  BY <1>1, Invariance, PTL

(***************************************************************************)
(* The I/O manager is left with nothing of a driver that has gone.         *)
(***************************************************************************)
THEOREM NothingIsLeftBehind == Spec => []NothingLeftBehind
<1>1. IInv => NothingLeftBehind
  BY DEF IInv, TypeOK, Stages, DriverOK, NothingLeftBehind
<1> QED
  BY <1>1, Invariance, PTL
-----------------------------------------------------------------------------
(***************************************************************************)
(* The system stops only in a broadcast, and there only on a processor     *)
(* that cannot enter VMX operation or has no virtual processor: with any   *)
(* steps failing and processors added at any time.                         *)
(***************************************************************************)
THEOREM OnlyStopsInBroadcasts == Spec => StopsOnlyInBroadcasts
<1> DEFINE Reason ==
      ~halted /\ halted' =>
        \E c \in Processors : at[c] = "called" /\ (c >= vcpus \/ CannotStart(c))
<1>1. IInv /\ [Next]_vars => Reason
  <2> SUFFICES ASSUME IInv, [Next]_vars, ~halted
               PROVE  halted' => \E c \in Processors : at[c] = "called" /\ (c >= vcpus \/ CannotStart(c))
    OBVIOUS
  <2> USE DEF IInv, At, Called
  <2>1. ASSUME Destroy, stage \in {"initialize", "vcpus", "delete"}
        PROVE  ~halted'
    BY <2>1 DEF Destroy, CpusOK, KnownOK, Is, Below
  <2>2. CASE Load \/ Driver \/ BeginStop \/ AddProcessor \/ Ended
    <3>1. CASE BuildTables
      BY <3>1, <2>1 DEF BuildTables
    <3>2. CASE InitializeVcpu \/ Delete
      BY <3>2, <2>1 DEF InitializeVcpu, Delete
    <3>3. CASE Load \/ BeginStart \/ EndStart \/ CreateDevice \/ CreateLink
      BY <3>3 DEF Load, BeginStart, EndStart, CreateDevice, CreateLink, Broadcast, EndBroadcast, GoOn
    <3>4. CASE BeginStop \/ EndStop \/ AddProcessor \/ Ended
      BY <3>4 DEF BeginStop, EndStop, AddProcessor, Ended, Broadcast, EndBroadcast, vars, driverVars
    <3> QED
      BY <2>2, <3>1, <3>2, <3>3, <3>4 DEF Driver
  <2>3. ASSUME NEW c \in Processors, Callback(c)
        PROVE  halted' => at[c] = "called" /\ (c >= vcpus \/ CannotStart(c))
    <3>1. CASE NullVirtualCpu(c)
      BY <3>1 DEF NullVirtualCpu
    <3>2. CASE EnterVmx(c)
      BY <3>2 DEF EnterVmx, CannotStart, DriverOK, CpusOK, KnownOK, Is
    <3>3. CASE TurnOff(c)
      BY <3>3 DEF TurnOff, GoTo, driverVars, DriverOK, CpusOK, KnownOK, Is
    <3>4. CASE LaunchVcpu(c) \/ MarkRunning(c) \/ MarkStopped(c)
      BY <3>4 DEF LaunchVcpu, MarkRunning, MarkStopped, GoTo, driverVars
    <3> QED
      BY <2>3, <3>1, <3>2, <3>3, <3>4 DEF Callback
  <2>4. CASE UNCHANGED vars
    BY <2>4 DEF vars, driverVars
  <2> QED
    BY <2>2, <2>3, <2>4 DEF Next
<1>2. IInv /\ [Next]_vars => [Reason]_vars
  BY <1>1
<1> QED
  BY <1>2, Invariance, PTL DEF Spec, StopsOnlyInBroadcasts
=============================================================================
