----------------------------- MODULE VmcsSetup -----------------------------
(***************************************************************************)
(* One processor from start() to turn_off_vm(): which state of it the VMCS *)
(* takes over at start(), what a VM exit and a VM entry do to it in        *)
(* between, and what turn_off_vm() gives back.  The operating system loads *)
(* segment registers, writes base and debug registers, switches and ends   *)
(* processes before, under and after siren.  start() and the handlers run  *)
(* with interrupts off, and are one action each.                           *)
(***************************************************************************)
EXTENDS Segmentation, VmxControls

CONSTANTS
  Caps,          \* capability MSRs a processor may have
  Cr0Bits, Cr4Bits,
  Cr0s, Cr4s,    \* what the operating system has in CR0 and CR4
  Cr0Fixed, Cr4Fixed,      \* IA32_VMX_CR0_FIXED0 and 1, IA32_VMX_CR4_FIXED0 and 1
  Processes, System,       \* System: PsInitialSystemProcess
  Pcr,           \* the base the kernel runs with in GS: its data of this processor
  FsBases,       \* bases programs give FS
  Gdt,           \* the address of the GDT
  Loadable,      \* selectors the operating system has in a segment register (with an
                 \* index that is an index of the GDT too)
  Boot           \* the selectors it begins with

Fixed(bits) == [zero : SUBSET bits, one : SUBSET bits]

ASSUME CapsAssumption == Caps \subseteq Capabilities
ASSUME FixedAssumption ==
  /\ Cr0Fixed \in Fixed(Cr0Bits) /\ Cr0Fixed.zero \subseteq Cr0Fixed.one
  /\ Cr4Fixed \in Fixed(Cr4Bits) /\ Cr4Fixed.zero \subseteq Cr4Fixed.one
ASSUME CrAssumption == Cr0s \subseteq SUBSET Cr0Bits /\ Cr4s \subseteq SUBSET Cr4Bits
ASSUME SystemAssumption == System \in Processes
ASSUME BasesAssumption == Pcr \in Addresses /\ FsBases \subseteq Addresses
ASSUME GdtAssumption == Gdt \in Tables /\ 0 \in DOMAIN Memory[Gdt]
ASSUME LoadableAssumption ==
  /\ Loadable \in [SegmentRegisters -> SUBSET Selectors]
  /\ \A r \in SegmentRegisters : \A s \in Loadable[r] : s.index \in DOMAIN Memory[Gdt]
  /\ \A s \in Loadable["TR"] : ~IsNull(s) /\ NamesSystem(Gdt, s)
  /\ \A s \in Loadable["LDTR"] : IsNull(s) \/ NamesSystem(Gdt, s)
  /\ \A s \in Loadable["CS"] : s.index # 0 /\ s.table_indicator = 0
  /\ Boot \in [SegmentRegisters -> Selectors]
  /\ \A r \in SegmentRegisters : Boot[r] \in Loadable[r] /\ Boot[r].table_indicator = 0

VARIABLES
  cap,           \* the capability MSRs of the processor
  mode,          \* "native", "guest", "stopped" (in the debugger), "lost" (no page tables)
  cr3, alive,    \* the process whose address space it runs in; the processes there are
  cr0, cr4, debug,         \* CR0, CR4; whether DR7 or IA32_DEBUGCTL is armed
  breakpoints,   \* whether the operating system has armed it (read by no action)
  selector, hidden,        \* the segment registers
  vmcs           \* m_evmcs_region

vars == <<cap, mode, cr3, alive, cr0, cr4, debug, breakpoints, selector, hidden, vmcs>>

Running == mode \in {"native", "guest"}

(***************************************************************************)
(* A kernel that runs with its own data in GS, whatever selector is there. *)
(***************************************************************************)
LoadedHidden(r, s, ldtr) ==
  IF IsNull(s) THEN NoSegment
  ELSE [base   |-> IF r \in {"LDTR", "TR"} THEN SystemBase(Gdt, s.index)
                   ELSE Base(TableOf(Gdt, ldtr, s), s.index),
        usable |-> TRUE]

KernelHidden(r, s, ldtr) ==
  IF r = "GS" THEN [LoadedHidden(r, s, ldtr) EXCEPT !.base = Pcr] ELSE LoadedHidden(r, s, ldtr)

BlankHost ==
  [cr0 |-> {}, cr3 |-> System, cr4 |-> {},
   selector |-> [r \in SegmentRegisters |-> NullSelector],
   base |-> [r \in {"FS", "GS", "TR"} |-> Zero]]

Init ==
  /\ cap \in Caps
  /\ mode = "native"
  /\ cr3 = System /\ alive = Processes
  /\ cr0 \in Cr0s /\ cr4 \in Cr4s /\ debug = FALSE
  /\ breakpoints = FALSE
  /\ selector = Boot
  /\ hidden = [r \in SegmentRegisters |-> KernelHidden(r, selector[r], selector["LDTR"])]
  /\ vmcs = [guest_debug |-> FALSE, host |-> BlankHost,
             controls |-> NoControls,
             pointers |-> [ept_pointer |-> Unwritten, vpid |-> 0,
                           msr_bitmap_address |-> Unwritten]]
-----------------------------------------------------------------------------
(***************************************************************************)
(* The operating system.  It gives up an LDT only when no register holds a *)
(* selector of it.                                                         *)
(***************************************************************************)
LoadSegment(r, s) ==
  /\ Running /\ r \in {"DS", "FS", "GS", "LDTR"} /\ s \in Loadable[r] /\ s # selector[r]
  /\ IF r = "LDTR" THEN \A q \in SegmentRegisters : selector[q].table_indicator = 0
     ELSE IsNull(s) \/ NamesSegment(Gdt, selector["LDTR"], s)
  /\ selector' = [selector EXCEPT ![r] = s]
  /\ hidden' = [hidden EXCEPT ![r] = KernelHidden(r, s, selector["LDTR"])]
  /\ UNCHANGED <<cap, mode, cr3, alive, cr0, cr4, debug, breakpoints, vmcs>>

WriteFsBase(base) ==
  /\ Running
  /\ hidden' = [hidden EXCEPT !["FS"].base = base]
  /\ UNCHANGED <<cap, mode, cr3, alive, cr0, cr4, debug, breakpoints, selector, vmcs>>

WriteDebug ==
  /\ Running /\ breakpoints' = ~breakpoints /\ debug' = breakpoints'
  /\ UNCHANGED <<cap, mode, cr3, alive, cr0, cr4, selector, hidden, vmcs>>

SwitchProcess(p) ==
  /\ Running /\ p \in alive /\ p # cr3 /\ cr3' = p
  /\ UNCHANGED <<cap, mode, alive, cr0, cr4, debug, breakpoints, selector, hidden, vmcs>>

ProcessEnds(p) ==
  /\ p \in alive \ {System, cr3} /\ alive' = alive \ {p}
  /\ UNCHANGED <<cap, mode, cr3, cr0, cr4, debug, breakpoints, selector, hidden, vmcs>>
-----------------------------------------------------------------------------
(***************************************************************************)
(* start().  DriverEntry attaches to the system process first, but only on *)
(* the processor it runs on: the others run start() in whichever process   *)
(* the interrupt has found them.                                           *)
(***************************************************************************)
MayStart(initiates) == initiates => cr3 = System

WithFixedBits(word, fixed) == (word \union fixed.zero) \intersect fixed.one

(***************************************************************************)
(* evmcs_setup_segment: the base a register has in the VMCS.  The limit    *)
(* and the access rights are read with LSL and LAR, which give what a load *)
(* of the selector gives.                                                  *)
(***************************************************************************)
SegmentBaseInTables(r) ==      \* mutant: FS and GS have the base of their descriptor
  IF r \in {"LDTR", "TR"} THEN SystemBase(Gdt, selector[r].index)
  ELSE Base(TableOf(Gdt, selector["LDTR"], selector[r]), selector[r].index)

SegmentBase32(r) ==      \* mutant: base_high of an LDT or TSS descriptor is left out
  IF r \in {"FS", "GS"} THEN hidden[r].base
  ELSE Base(TableOf(Gdt, selector["LDTR"], selector[r]), selector[r].index)

SegmentBase(r) ==
  IF r \in {"LDTR", "TR"} THEN SystemBase(Gdt, selector[r].index)
  ELSE IF r \in {"FS", "GS"} THEN hidden[r].base
  ELSE Base(TableOf(Gdt, selector["LDTR"], selector[r]), selector[r].index)

SetupSegment(r) ==
  IF IsNull(selector[r]) THEN NoSegment ELSE [base |-> SegmentBase(r), usable |-> TRUE]

(***************************************************************************)
(* evmcs_setup_host: the fields a VM exit loads.                           *)
(***************************************************************************)
HostSelectorWithRpl(s) ==      \* mutant: RPL stays
  [index |-> s.index, table_indicator |-> 0, rpl |-> s.rpl]

HostSelector(s) == [index |-> s.index, table_indicator |-> 0, rpl |-> 0]

SetupHost ==
  [cr0 |-> WithFixedBits(cr0, Cr0Fixed), cr4 |-> WithFixedBits(cr4, Cr4Fixed), cr3 |-> cr3,
   selector |-> [r \in SegmentRegisters |->
                   IF r = "LDTR" THEN NullSelector ELSE HostSelector(selector[r])],
   base |-> [r \in {"FS", "GS", "TR"} |-> SetupSegment(r).base]]

(***************************************************************************)
(* External: the checks of VMXON and of a VM entry.                        *)
(***************************************************************************)
Satisfies(word, fixed) == fixed.zero \subseteq word /\ word \subseteq fixed.one

GuestValid(segments, newCr0, newCr4) ==
  /\ segments["CS"].usable /\ segments["TR"].usable
  /\ Satisfies(newCr0, Cr0Fixed) /\ Satisfies(newCr4, Cr4Fixed)

HostValid(host) ==
  /\ \A r \in SegmentRegisters :
       host.selector[r].rpl = 0 /\ host.selector[r].table_indicator = 0
  /\ ~IsNull(host.selector["CS"]) /\ ~IsNull(host.selector["TR"])
  /\ Satisfies(host.cr0, Cr0Fixed) /\ Satisfies(host.cr4, Cr4Fixed)

(***************************************************************************)
(* launch(): a VM entry that fails ends in the debugger.                   *)
(***************************************************************************)
AfterLaunch(valid) == IF valid THEN "guest" ELSE "stopped"

Start(initiates) ==
  LET newCr0   == WithFixedBits(cr0, Cr0Fixed)
      newCr4   == WithFixedBits(cr4, Cr4Fixed)
      segments == [r \in SegmentRegisters |-> SetupSegment(r)]
      valid    == /\ ControlsValid(cap, Controls(cap), PointersOf(cap))
                  /\ GuestValid(segments, newCr0, newCr4) /\ HostValid(SetupHost)
  IN  /\ mode = "native" /\ MayStart(initiates)
      /\ cr0' = newCr0 /\ cr4' = newCr4
      /\ vmcs' = [guest_debug |-> debug, host |-> SetupHost,
                  controls |-> Controls(cap), pointers |-> PointersOf(cap)]
      /\ mode' = AfterLaunch(valid)
      /\ hidden' = IF valid THEN segments ELSE hidden
      /\ UNCHANGED <<cap, cr3, alive, debug, breakpoints, selector>>

(***************************************************************************)
(* A VM exit runs in the host's address space.  The segment registers are  *)
(* saved and loaded again; the debug registers are saved and loaded if the *)
(* controls say so, and an exit disarms them.                              *)
(***************************************************************************)
HostSpace == mode = "guest" /\ vmcs.host.cr3 \in alive

ExitAndResume ==
  LET saved == IF "save_debug_controls" \in vmcs.controls["exit"] THEN debug ELSE vmcs.guest_debug
  IN  /\ HostSpace
      /\ vmcs' = [vmcs EXCEPT !.guest_debug = saved]
      /\ debug' = ("load_debug_controls" \in vmcs.controls["entry"] /\ saved)
      /\ UNCHANGED <<cap, mode, cr3, alive, cr0, cr4, breakpoints, selector, hidden>>

ExitWithoutHostSpace ==
  /\ mode = "guest" /\ ~HostSpace /\ mode' = "lost"
  /\ UNCHANGED <<cap, cr3, alive, cr0, cr4, debug, breakpoints, selector, hidden, vmcs>>

(***************************************************************************)
(* What a VM exit leaves in a register: the host's selector, no LDT, and   *)
(* the host's base in FS, GS and TR, nothing in the others.                *)
(***************************************************************************)
HostHidden(r) ==
  [base |-> IF r \in {"FS", "GS", "TR"} THEN vmcs.host.base[r] ELSE Zero,
   usable |-> ~IsNull(vmcs.host.selector[r])]

(***************************************************************************)
(* turn_off_vm(): CR3, GDTR and IDTR and the bases of FS and GS come from  *)
(* the guest; the other segment registers stay as the exit has loaded      *)
(* them, and so do the debug registers.                                    *)
(***************************************************************************)
TurnOffOnlyGs ==      \* mutant: the base of FS is not written
  [r \in SegmentRegisters |->
     IF r = "GS" THEN [HostHidden(r) EXCEPT !.base = hidden[r].base] ELSE HostHidden(r)]

TurnedOff ==
  [r \in SegmentRegisters |->
     IF r \in {"FS", "GS"} THEN [HostHidden(r) EXCEPT !.base = hidden[r].base]
     ELSE HostHidden(r)]

TurnOff ==
  /\ HostSpace
  /\ mode' = "native"
  /\ cr0' = vmcs.host.cr0 /\ cr4' = vmcs.host.cr4 \ {"vmx_enable"}
  /\ selector' = vmcs.host.selector /\ hidden' = TurnedOff
  /\ debug' = FALSE /\ breakpoints' = FALSE
  /\ UNCHANGED <<cap, cr3, alive, vmcs>>

Halted == mode \in {"stopped", "lost"} /\ UNCHANGED vars

Next ==
  \/ \E r \in SegmentRegisters : \E s \in Loadable[r] : LoadSegment(r, s)
  \/ \E base \in FsBases : WriteFsBase(base)
  \/ WriteDebug
  \/ \E p \in Processes : SwitchProcess(p) \/ ProcessEnds(p)
  \/ \E initiates \in BOOLEAN : Start(initiates)
  \/ ExitAndResume \/ ExitWithoutHostSpace \/ TurnOff
  \/ Halted

Spec == Init /\ [][Next]_vars
-----------------------------------------------------------------------------
(***************************************************************************)
(* Type invariant of the processor and its VMCS.                           *)
(***************************************************************************)
Host ==
  [cr0 : SUBSET Cr0Bits, cr3 : Processes, cr4 : SUBSET Cr4Bits,
   selector : [SegmentRegisters -> Selectors], base : [{"FS", "GS", "TR"} -> Addresses]]

Vmcs ==
  [guest_debug : BOOLEAN, host : Host, controls : ControlWords, pointers : Pointers]

TypeOK ==
  /\ cap \in Caps
  /\ mode \in {"native", "guest", "stopped", "lost"}
  /\ cr3 \in alive /\ alive \in SUBSET Processes
  /\ cr0 \in SUBSET Cr0Bits /\ cr4 \in SUBSET Cr4Bits
  /\ debug \in BOOLEAN /\ breakpoints \in BOOLEAN
  /\ selector \in [SegmentRegisters -> Selectors]
  /\ hidden \in [SegmentRegisters -> Hidden]
  /\ vmcs \in Vmcs

(***************************************************************************)
(* On a processor that can run siren the VM entry of launch() succeeds,    *)
(* whatever the operating system has in the segment and control registers  *)
(* (of evmcs_setup_guest, _host and _controls).                            *)
(***************************************************************************)
LaunchSucceeds == Sufficient(cap) => mode # "stopped"

(***************************************************************************)
(* The guest's physical addresses go through siren's tables and its MSRs   *)
(* through siren's bitmap, on every processor that can do both, and no     *)
(* control is on without the field it makes the processor read (of         *)
(* evmcs_setup_controls_execution).                                        *)
(***************************************************************************)
RunsOnSirensTables ==
  mode = "guest" /\ Sufficient(cap) =>
    /\ {"activate_secondary_controls", "use_msr_bitmaps"} \subseteq vmcs.controls["primary"]
    /\ "enable_ept" \in vmcs.controls["secondary"]
    /\ vmcs.pointers.ept_pointer = "top level table"
    /\ vmcs.pointers.msr_bitmap_address = "msr bitmap"
    /\ "enable_vpid" \in vmcs.controls["secondary"] => vmcs.pointers.vpid # 0

(***************************************************************************)
(* The handler of a VM exit finds the kernel's data of its processor in    *)
(* GS, unless start() has found a null selector there: then it takes the   *)
(* base for 0 (of evmcs_setup_segment and evmcs_setup_host).               *)
(***************************************************************************)
HostFindsItsPcr ==
  mode = "guest" /\ ~IsNull(vmcs.host.selector["GS"]) => vmcs.host.base["GS"] = Pcr

(***************************************************************************)
(* The page tables the handlers of a VM exit run on are there as long as   *)
(* the guest runs: DriverEntry attaches to the system process around       *)
(* start() to that end (driver.cpp 31-36), and evmcs_setup_host takes the  *)
(* host's CR3 on each processor from what it finds there (293).            *)
(***************************************************************************)
HostSpaceOutlives == mode = "guest" => vmcs.host.cr3 \in alive

(***************************************************************************)
(* start() returns on the processor it was called on: the registers whose  *)
(* base 64-bit code uses keep it, and all keep whether they can be used    *)
(* (of evmcs_setup_segment).  The exception is a null selector in FS or GS *)
(* under a base that is not null: start() resets it.                       *)
(***************************************************************************)
HasBase == {"FS", "GS", "LDTR", "TR"}

PlainNulls == \A r \in {"FS", "GS"} : IsNull(selector[r]) => hidden[r].base = Zero

StartKeepsSegments ==
  [][mode = "native" /\ mode' = "guest" /\ PlainNulls =>
       \A r \in SegmentRegisters :
         /\ hidden'[r].usable = hidden[r].usable
         /\ r \in HasBase => hidden'[r].base = hidden[r].base]_vars

(***************************************************************************)
(* turn_off_vm() gives the kernel back its stack, code and task segment    *)
(* and the bases of FS and GS the guest had, whatever other selectors it   *)
(* has loaded since start() (of siren_hypercall_turn_off_vm).  The other   *)
(* selectors stay those of start(), without RPL.                           *)
(***************************************************************************)
TurnOffKeepsSegments ==
  [][mode = "guest" /\ mode' = "native" =>
       /\ \A r \in {"CS", "SS", "TR"} : selector'[r].index = selector[r].index
       /\ hidden'["TR"] = hidden["TR"]
       /\ \A r \in {"FS", "GS"} : hidden'[r].base = hidden[r].base]_vars

(***************************************************************************)
(* Breakpoints the guest has armed survive VM exits: an exit saves what    *)
(* the next entry loads (of evmcs_setup_controls_exit and _entry).         *)
(* turn_off_vm() alone disarms them.                                       *)
(***************************************************************************)
BreakpointsSurvive == Sufficient(cap) => debug = breakpoints
=============================================================================
