------------------------------- MODULE VmExit -------------------------------
(***************************************************************************)
(* One virtual processor: mshv_virtual_cpu from launch() to turn_off_vm(), *)
(* and mshv_vmexit_handler in between.  The guest runs until an            *)
(* instruction exits; entry_point and dispatch() copy its registers into   *)
(* guest_state, a handler changes them and the enlightened VMCS, and the   *)
(* processor re-enters the guest with what the upper hypervisor reads from *)
(* the VMCS.  A handler runs with interrupts off, on state only its        *)
(* processor touches, and is one action.                                   *)
(***************************************************************************)
EXTENDS Instructions

CONSTANTS
  CpuIndices,    \* values of m_index
  ForcedExits,   \* instructions the processor makes exit although the VMCS
                 \* does not ask for it (mask0 of the capability MSRs)
  FlushResults,  \* what HvFlushVirtualAddressSpace may return
  CleanAtExit    \* the clean bits the upper hypervisor may set at a VM exit

ASSUME ForcedExitsAssumption == ForcedExits \subseteq {"hlt", "mov_cr3"}
ASSUME FlushAssumption == FlushResults \subseteq {"success", "error"}
ASSUME CpuIndexAssumption == CpuIndices \subseteq Nat
ASSUME CleanAssumption == CleanAtExit \subseteq SUBSET {"guest_basic", "crdr", "control_event"}

VARIABLES
  index,         \* m_index
  mode,          \* "native", "guest", "exit" (between a VM exit and its handler), "failed"
                 \* (the same, and the exit is a VM entry that failed), "stopped"
  cpu,           \* the processor state of the guest
  insn,          \* the instruction at its RIP, or NoInsn between two
  fault,         \* the exception delivered at the last VM entry
  evmcs,         \* m_evmcs_region: the fields and clean bits the handlers touch
  loaded,        \* the upper hypervisor's copy of those fields
  host_cr4       \* CR4 as evmcs_setup_host has captured it

vars == <<index, mode, cpu, insn, fault, evmcs, loaded, host_cr4>>

(***************************************************************************)
(* mshv_clean_fields: the groups whose fields the upper hypervisor need    *)
(* not read again at a VM entry.  guest_rip is in no group.                *)
(***************************************************************************)
Groups == {"guest_basic", "crdr", "control_event"}

Fields == [rsp : Words, cr4 : Cr4Operands, shadow : Cr4Operands, event : {"none", "ud", "gp"}]

Evmcs == [rip : 0 .. 2, context : Contexts, clean : SUBSET Groups, fields : Fields]

FieldsOf(cpustate, shadow) ==
  [rsp |-> cpustate.regs.rsp, cr4 |-> cpustate.cr4, shadow |-> shadow, event |-> "none"]

BlankFields == [rsp |-> <<>>, cr4 |-> "none", shadow |-> "none", event |-> "none"]

Init ==
  /\ index \in CpuIndices
  /\ mode = "native"
  /\ cpu = [regs |-> Own, cr4 |-> "none", xcr0 |-> 0, context |-> 0,
            msr |-> [m \in Msrs |-> [hi |-> <<"hi">>, lo |-> <<"lo">>]]]
  /\ insn = NoInsn
  /\ fault = "none"
  /\ evmcs = [rip |-> 0, context |-> 0, clean |-> {}, fields |-> BlankFields]
  /\ loaded = BlankFields
  /\ host_cr4 = "none"
-----------------------------------------------------------------------------
(***************************************************************************)
(* The guest, and the processor under it.                                  *)
(***************************************************************************)
Running == mode \in {"native", "guest"}

Fetch ==
  /\ Running /\ insn = NoInsn
  /\ insn' \in Insns
  /\ \E regs \in Operands(insn'), context \in Contexts :
       cpu' = [cpu EXCEPT !.regs = regs, !.context = context]
  /\ fault' = "none"
  /\ UNCHANGED <<index, mode, evmcs, loaded, host_cr4>>

(***************************************************************************)
(* What makes an instruction exit under the controls of                    *)
(* evmcs_setup_controls_execution: CPUID, VMCALL and XSETBV always do,     *)
(* RDMSR and WRMSR outside the ranges of the (all clear) MSR bitmap, and a *)
(* MOV to CR4 that gives a bit of ctrl_cr4_guest_host_mask a value other   *)
(* than in ctrl_cr4_read_shadow.                                           *)
(***************************************************************************)
Exits ==
  CASE insn.op \in {"cpuid", "vmcall", "xsetbv"} -> TRUE
    [] insn.op \in {"rdmsr", "wrmsr"} -> MsrOf(cpu.regs) # "ranged"
    [] insn.op = "mov_cr4" -> Paging(cpu.regs[insn.from][1]) # Paging(loaded.shadow)
    [] OTHER -> insn.op \in ForcedExits

(***************************************************************************)
(* A MOV to CR4 that does not exit writes the bits outside the mask only.  *)
(***************************************************************************)
Cr4AfterMov(v) ==
  IF mode = "guest" THEN Cr4With(Paging(cpu.cr4), Other(v)) ELSE v

Effect ==
  IF insn.op = "mov_cr4"
  THEN [cpu EXCEPT !.cr4 = Cr4AfterMov(cpu.regs[insn.from][1])]
  ELSE Native(insn, cpu)

Execute ==
  /\ Running /\ insn # NoInsn
  /\ mode = "guest" => ~Exits
  /\ fault' = Fault(insn, cpu)
  /\ cpu' = IF fault' = "none" THEN Effect ELSE cpu
  /\ insn' = NoInsn
  /\ UNCHANGED <<index, mode, evmcs, loaded, host_cr4>>

(***************************************************************************)
(* A VM exit: the upper hypervisor writes the guest's state to the VMCS    *)
(* and clears the event of the last entry; it may set clean bits (nothing  *)
(* in siren sets one).                                                     *)
(***************************************************************************)
Exit ==
  /\ mode = "guest" /\ insn # NoInsn /\ Exits
  /\ mode' = "exit"
  /\ \E clean \in CleanAtExit :
       evmcs' = [rip |-> 0, context |-> cpu.context, clean |-> clean,
                 fields |-> FieldsOf(cpu, loaded.shadow)]
  /\ loaded' = evmcs'.fields
  /\ UNCHANGED <<index, cpu, insn, fault, host_cr4>>
-----------------------------------------------------------------------------
(***************************************************************************)
(* start(): the VMCS describes the processor as it is, with nothing clean, *)
(* and the VM entry of launch() returns to start() in the guest.           *)
(***************************************************************************)
SetupGuest ==
  evmcs' = [rip |-> 0, context |-> cpu.context, clean |-> {},
            fields |-> FieldsOf(cpu, cpu.cr4)]

SetupHost == host_cr4' = cpu.cr4

Launch == mode' = "guest" /\ loaded' = evmcs'.fields

Start ==
  /\ mode = "native" /\ insn = NoInsn
  /\ SetupGuest /\ SetupHost /\ Launch
  /\ UNCHANGED <<index, cpu, insn, fault>>

(***************************************************************************)
(* guest_state as entry_point and dispatch() fill it: the registers, and   *)
(* RSP and RIP from the VMCS.  RIP counts instructions from the one that   *)
(* exited; 2 is anywhere behind the next one.                              *)
(***************************************************************************)
GuestState == [regs |-> [cpu.regs EXCEPT !.rsp = evmcs.fields.rsp], rip |-> evmcs.rip]

AdvanceRip(state) == [state EXCEPT !.rip = IF @ = 0 THEN 1 ELSE 2]

(***************************************************************************)
(* The end of dispatch(): RSP and RIP go back to the VMCS.                 *)
(***************************************************************************)
WriteBack(state, vmcs) ==
  [vmcs EXCEPT !.fields.rsp = state.regs.rsp,
               !.rip = state.rip,
               !.clean = IF vmcs.fields.rsp # state.regs.rsp THEN @ \ {"guest_basic"} ELSE @]

(***************************************************************************)
(* inject_ud_exception and inject_gp_exception.                            *)
(***************************************************************************)
Inject(exception, vmcs) ==
  [vmcs EXCEPT !.fields.event = exception, !.clean = @ \ {"control_event"}]

(***************************************************************************)
(* VMRESUME: the upper hypervisor reads the groups that are not clean.  An *)
(* event is delivered at the RIP of the entry; without one the guest goes  *)
(* on there, at the same instruction or behind it.  No entry that is right *)
(* leaves RIP anywhere else: Lost.                                         *)
(***************************************************************************)
ReadAtEntry(vmcs) ==
  LET Read(group, stale, fresh) == IF group \in vmcs.clean THEN stale ELSE fresh
      f == vmcs.fields
  IN  [rsp    |-> Read("guest_basic", loaded.rsp, f.rsp),
       cr4    |-> Read("crdr", loaded.cr4, f.cr4),
       shadow |-> Read("crdr", loaded.shadow, f.shadow),
       event  |-> Read("control_event", loaded.event, f.event)]

Lost == [op |-> "lost", cpl |-> 0, from |-> "rax"]

InsnAfterEntry(rip, event) ==
  CASE rip = 0 /\ event = "none" -> insn
    [] rip = 0 /\ event # "none" -> NoInsn
    [] rip = 1 /\ event = "none" -> NoInsn
    [] OTHER -> Lost

Enter(state, vmcs, msr) ==
  /\ mode' = "guest"
  /\ evmcs' = vmcs
  /\ loaded' = ReadAtEntry(vmcs)
  /\ cpu' = [cpu EXCEPT !.regs = [state.regs EXCEPT !.rsp = loaded'.rsp],
                        !.cr4 = loaded'.cr4, !.msr = msr]
  /\ insn' = InsnAfterEntry(vmcs.rip, loaded'.event)
  /\ fault' = loaded'.event
  /\ UNCHANGED <<index, host_cr4>>

(***************************************************************************)
(* With a reserved bit in guest_cr4 the entry fails: an exit that says so, *)
(* and the guest has not moved.                                            *)
(***************************************************************************)
EntryFails(vmcs) ==
  /\ ReadAtEntry(vmcs).cr4 = "reserved"
  /\ mode' = "failed"
  /\ evmcs' = vmcs
  /\ loaded' = ReadAtEntry(vmcs)
  /\ UNCHANGED <<index, cpu, insn, fault, host_cr4>>

EnterIfValid(state, vmcs, msr) ==
  \/ EntryFails(vmcs)
  \/ ReadAtEntry(vmcs).cr4 # "reserved" /\ Enter(state, vmcs, msr)

(***************************************************************************)
(* resume == true: the write-back, the restored registers, VMRESUME.       *)
(***************************************************************************)
Resume(state, vmcs, msr) == Enter(state, WriteBack(state, vmcs), msr)

(***************************************************************************)
(* DbgBreakPoint in root mode: a kernel debugger lets the handler go on,   *)
(* without one the system stops.  The same goes for a #GP in the handler.  *)
(***************************************************************************)
Stop == mode' = "stopped" /\ UNCHANGED <<index, cpu, insn, fault, evmcs, loaded, host_cr4>>

Handling(op) == mode = "exit" /\ insn.op = op

OnInstructionCpuid ==
  LET result == CpuidRegs(GuestState.regs)
      named  == [result EXCEPT !.rbx = <<"eris">>, !.rcx = <<"vh-n">>, !.rdx = <<"0">>]
      after  == IF cpu.regs.rax = <<"vendor leaf">> THEN named ELSE result
  IN  /\ Handling("cpuid")
      /\ Resume(AdvanceRip([GuestState EXCEPT !.regs = after]), evmcs, cpu.msr)

(***************************************************************************)
(* RDMSR and WRMSR are executed for the guest, split over two registers.   *)
(* An MSR that does not exist faults in the handler.                       *)
(***************************************************************************)
OnInstructionRdmsr ==
  /\ Handling("rdmsr")
  /\ IF MsrOf(cpu.regs) \in Msrs
     THEN LET value == cpu.msr[MsrOf(cpu.regs)]
          IN  Resume(AdvanceRip([GuestState EXCEPT !.regs.rax = value.lo, !.regs.rdx = value.hi]),
                     evmcs, cpu.msr)
     ELSE Stop

OnInstructionWrmsr ==
  /\ Handling("wrmsr")
  /\ IF MsrOf(cpu.regs) \in Msrs
     THEN LET value == [hi |-> GuestState.regs.rdx, lo |-> GuestState.regs.rax]
          IN  Resume(AdvanceRip(GuestState), evmcs, [cpu.msr EXCEPT ![MsrOf(cpu.regs)] = value])
     ELSE Stop

HltStays == Handling("hlt") /\ Resume(GuestState, evmcs, cpu.msr)   \* mutant: RIP is not advanced

OnInstructionHlt == Handling("hlt") /\ Resume(AdvanceRip(GuestState), evmcs, cpu.msr)

(***************************************************************************)
(* VMCALL.  Outside ring 0 it raises #UD, to hide siren from processes; in *)
(* ring 0 it is for siren, or is passed on to the hypercall page.          *)
(***************************************************************************)
OnVmcallOutsideRing0 ==
  /\ Handling("vmcall") /\ insn.cpl # 0
  /\ Resume(GuestState, Inject("ud", evmcs), cpu.msr)

ForSiren(function) ==
  /\ Handling("vmcall") /\ insn.cpl = 0
  /\ cpu.regs.rax = <<"vhrs">> /\ cpu.regs.rbx = function

Answer(word) == Resume(AdvanceRip([GuestState EXCEPT !.regs.rax = word]), evmcs, cpu.msr)

SirenHypercallEcho == ForSiren(<<"0">>) /\ Answer(<<"srhv">>)

SirenHypercallNotImplemented ==
  /\ \E f \in {cpu.regs.rbx} \ {<<"0">>, <<"1">>} : ForSiren(f)
  /\ Answer(<<"not implemented">>)

(***************************************************************************)
(* turn_off_vm: the context of the guest replaces the one the VM exit      *)
(* loaded, VMX goes off, and entry_point returns to the guest's RIP with   *)
(* the guest's registers.  CR4 stays as it was when siren was started.     *)
(***************************************************************************)
TurnOffKeepsHostContext ==      \* mutant: the guest's CR3, GDTR, IDTR, FS and GS are not restored
  LET state == AdvanceRip(GuestState)
  IN  /\ ForSiren(<<"1">>)
      /\ mode' = "native"
      /\ \E context \in Contexts :
           cpu' = [cpu EXCEPT !.regs = state.regs, !.cr4 = host_cr4, !.context = context]
      /\ insn' = InsnAfterEntry(state.rip, "none")
      /\ fault' = "none"
      /\ UNCHANGED <<index, evmcs, loaded, host_cr4>>

SirenHypercallTurnOffVm ==
  LET state == AdvanceRip(GuestState)
  IN  /\ ForSiren(<<"1">>)
      /\ mode' = "native"
      /\ cpu' = [cpu EXCEPT !.regs = state.regs, !.cr4 = host_cr4,
                             !.context = evmcs.context]
      /\ insn' = InsnAfterEntry(state.rip, "none")
      /\ fault' = "none"
      /\ UNCHANGED <<index, evmcs, loaded, host_cr4>>

MicrosoftHypercall ==
  LET regs  == GuestState.regs
      out   == HypercallRegs(regs)
      after == IF regs.rcx = <<"fast">>
               THEN [regs EXCEPT !.rax = out.rax, !.rdx = out.rdx, !.r8 = out.r8, !.xmm = out.xmm]
               ELSE [regs EXCEPT !.rax = out.rax]
  IN  /\ Handling("vmcall") /\ insn.cpl = 0 /\ regs.rax # <<"vhrs">>
      /\ Resume(AdvanceRip([GuestState EXCEPT !.regs = after]), evmcs, cpu.msr)

(***************************************************************************)
(* on_cr_access returns before the write-back: RIP stays at the MOV, which *)
(* is executed again and exits no more, because the read shadow now has    *)
(* its value.  A flush that fails adds a #GP; the flush is skipped (after  *)
(* a break) where a 64-bit mask has no bit for the processor.  The value   *)
(* is not looked at: the entry with a reserved bit fails.                  *)
(***************************************************************************)
MovToCr4LeavesClean(v, vmcs) ==      \* mutant: the clean bit of crdr stays as it is
  [vmcs EXCEPT !.fields.cr4 = v, !.fields.shadow = v]

MovToCr4WithoutShadow(v, vmcs) ==    \* mutant: the read shadow stays as it is
  [vmcs EXCEPT !.fields.cr4 = v, !.clean = @ \ {"crdr"}]

MovToCr4(v, vmcs) ==
  [vmcs EXCEPT !.fields.cr4 = v, !.fields.shadow = v, !.clean = @ \ {"crdr"}]

OnMovToCr4 ==
  LET v == GuestState.regs[insn.from][1]
  IN  /\ Handling("mov_cr4")
      /\ \/ /\ index < 64
            /\ \E flush \in FlushResults :
                 EnterIfValid(GuestState,
                              MovToCr4(v, IF flush = "success" THEN evmcs ELSE Inject("gp", evmcs)),
                              cpu.msr)
         \/ index >= 64 /\ (Stop \/ EnterIfValid(GuestState, MovToCr4(v, evmcs), cpu.msr))

(***************************************************************************)
(* Any other access to a control register breaks, and RIP stays here too.  *)
(***************************************************************************)
OnOtherCrAccess ==
  Handling("mov_cr3") /\ (Stop \/ Enter(GuestState, evmcs, cpu.msr))

(***************************************************************************)
(* The default of dispatch(): break, then skip the instruction.            *)
(***************************************************************************)
OnUnknownExit ==
  Handling("xsetbv") /\ (Stop \/ Resume(AdvanceRip(GuestState), evmcs, cpu.msr))

(***************************************************************************)
(* An entry that failed: break, advance RIP, and enter again with the same *)
(* CR4, which fails again.                                                 *)
(***************************************************************************)
OnEntryFailure ==
  /\ mode = "failed"
  /\ Stop \/ EntryFails(WriteBack(AdvanceRip(GuestState), evmcs))

Dispatch ==
  \/ OnInstructionCpuid \/ OnInstructionRdmsr \/ OnInstructionWrmsr \/ OnInstructionHlt
  \/ OnVmcallOutsideRing0 \/ MicrosoftHypercall
  \/ SirenHypercallEcho \/ SirenHypercallNotImplemented \/ SirenHypercallTurnOffVm
  \/ OnMovToCr4 \/ OnOtherCrAccess \/ OnUnknownExit \/ OnEntryFailure

Stopped == mode = "stopped" /\ UNCHANGED vars

Next == Fetch \/ Execute \/ Exit \/ Start \/ Dispatch \/ Stopped

Spec == Init /\ [][Next]_vars

(***************************************************************************)
(* The processor executes what it has fetched, and a handler once entered  *)
(* runs to its end.                                                        *)
(***************************************************************************)
FairSpec == Spec /\ WF_vars(Execute) /\ WF_vars(Exit) /\ WF_vars(Dispatch)
-----------------------------------------------------------------------------
(***************************************************************************)
(* Type invariant of the virtual processor.                                *)
(***************************************************************************)
TypeOK ==
  /\ index \in CpuIndices
  /\ mode \in {"native", "guest", "exit", "failed", "stopped"}
  /\ cpu \in Cpus
  /\ insn \in Insns \union {NoInsn}
  /\ fault \in {"none", "ud", "gp"}
  /\ evmcs \in Evmcs
  /\ loaded \in Fields
  /\ host_cr4 \in Cr4Values

(***************************************************************************)
(* The guest runs on what the handlers have written: whatever clean bits   *)
(* the upper hypervisor has set, none covers a field changed since (of the *)
(* assignments to mshv_clean_fields in dispatch, on_cr_access and Inject). *)
(***************************************************************************)
NothingStale == mode = "guest" => loaded = evmcs.fields

(***************************************************************************)
(* A guest that reads CR4 finds there the paging bits it runs with: the    *)
(* read shadow and the guest's CR4 agree on the masked bits, so that a MOV *)
(* to CR4 exits exactly when it changes one of them (of on_cr_access).     *)
(***************************************************************************)
ShadowAgrees ==
  mode \in {"guest", "exit"} => Paging(loaded.shadow) = Paging(cpu.cr4)

(***************************************************************************)
(* Every instruction the guest begins comes to its end: a handler that     *)
(* leaves RIP where it is (on_cr_access) has made the exit go away.  Two   *)
(* do not: an access to another control register that exits, where the     *)
(* handler has a todo, and a MOV to CR4 after which the VM entry fails.    *)
(***************************************************************************)
InsnRetires ==
  insn # NoInsn /\ insn.op # "mov_cr3" ~> (insn = NoInsn \/ mode \in {"failed", "stopped"})

(***************************************************************************)
(* Behind siren the guest has the processor it had before, up to the       *)
(* differences BareCpu names: every instruction takes effect once, with    *)
(* its own operands, and the registers it does not write keep their values *)
(* (of dispatch, the handlers and turn_off_vm).                            *)
(***************************************************************************)
Bare == INSTANCE BareCpu WITH siren <- mode # "native", up <- mode # "stopped"

ImplementsBareCpu == Bare!BSpec
=============================================================================
