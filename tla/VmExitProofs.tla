---------------------------- MODULE VmExitProofs ----------------------------
(***************************************************************************)
(* Proofs about VmExit for every set of processor indices, of forced       *)
(* exits, of flush results and of clean bits.                              *)
(***************************************************************************)
EXTENDS VmExit, SequenceTheorems, TLAPS

(***************************************************************************)
(* Words and registers.                                                    *)
(***************************************************************************)
Regs == [Registers -> Words]

LEMMA WordTypes ==
  /\ \A s \in Names : <<s>> \in Words
  /\ \A s, t \in Names : <<s, t>> \in Words
  /\ \A v, w \in Words : v \o w \in Words
  BY DEF Words

LEMMA OwnType == Own \in Regs
  BY WordTypes DEF Own, Regs, Names

LEMMA CpuidRegsType ==
  ASSUME NEW regs \in Regs PROVE CpuidRegs(regs) \in Regs
  BY WordTypes DEF CpuidRegs, Regs, Registers, Names

LEMMA HypercallRegsType ==
  ASSUME NEW regs \in Regs PROVE HypercallRegs(regs) \in Regs
<1> DEFINE status == HypercallStatus(regs.rcx, regs.rdx, regs.r8)
<1>1. regs.rcx \in Words /\ regs.rdx \in Words /\ regs.r8 \in Words /\ regs.xmm \in Words
  BY DEF Regs, Registers
<1>2. status \in Words
  BY <1>1, WordTypes DEF HypercallStatus, Names
<1>3. <<"out">> \o regs.xmm \in Words /\ <<"out", "rdx">> \in Words /\ <<"out", "r8">> \in Words
  BY <1>1, WordTypes DEF Names, Registers
<1> HIDE DEF status
<1> QED
  BY <1>2, <1>3 DEF HypercallRegs, Regs, Registers, status

(***************************************************************************)
(* The operands of an instruction are registers, and what MOV to CR4 finds *)
(* in its source is a value of CR4.                                        *)
(***************************************************************************)
LEMMA OperandsTypes ==
  ASSUME NEW i \in Insns
  PROVE  /\ Operands(i) \subseteq Regs
         /\ i.op = "mov_cr4" => \A regs \in Operands(i) : regs[i.from][1] \in Cr4Operands
<1>1. i.from \in Registers
  BY DEF Insns, Registers
<1>2. \A r \in Registers, s \in Names :
        [Own EXCEPT ![r] = <<s>>] \in Regs /\ [Own EXCEPT ![r] = <<s>>][r] = <<s>>
  BY OwnType, WordTypes DEF Regs
<1>3. CASE i.op = "mov_cr4"
  <2>1. Operands(i) = {[Own EXCEPT ![i.from] = <<v>>] : v \in Cr4Operands}
    BY <1>3 DEF Operands
  <2>2. \A v \in Cr4Operands : v \in Names /\ <<v>>[1] = v
    BY DEF Names
  <2> QED
    BY <1>1, <1>2, <2>1, <2>2
<1>4. CASE i.op = "cpuid"
  <2>1. Operands(i) = {[Own EXCEPT !.rax = <<leaf>>] : leaf \in {"vendor leaf", "leaf"}}
    BY <1>4 DEF Operands
  <2>2. \A s \in Names : [Own EXCEPT !.rax = <<s>>] \in Regs
    BY <1>2 DEF Registers
  <2>3. \A leaf \in {"vendor leaf", "leaf"} : leaf \in Names
    BY DEF Names
  <2>4. \A regs \in Operands(i) : regs \in Regs
    BY <2>1, <2>2, <2>3, Zenon
  <2> QED
    BY <1>4, <2>4
<1>5. CASE i.op \in {"rdmsr", "wrmsr"}
  <2>1. Operands(i) = {[Own EXCEPT !.rcx = <<m>>] : m \in {"ranged", "synthetic", "absent"}}
    BY <1>5 DEF Operands
  <2>2. \A s \in Names : [Own EXCEPT !.rcx = <<s>>] \in Regs
    BY <1>2 DEF Registers
  <2>3. \A m \in {"ranged", "synthetic", "absent"} : m \in Names
    BY DEF Names
  <2>4. \A regs \in Operands(i) : regs \in Regs
    BY <2>1, <2>2, <2>3, Zenon
  <2> QED
    BY <1>5, <2>4
<1>6. CASE i.op = "vmcall"
  <2>1. Operands(i) = {[Own EXCEPT !.rax = <<"vhrs">>, !.rbx = <<f>>] : f \in {"0", "1", "2"}}
                        \union {[Own EXCEPT !.rcx = <<kind>>] : kind \in {"fast", "slow"}}
    BY <1>6 DEF Operands
  <2>2. \A s, t \in Names : [Own EXCEPT !.rax = <<s>>, !.rbx = <<t>>] \in Regs
    BY OwnType, WordTypes DEF Regs
  <2>3. \A s \in Names : [Own EXCEPT !.rcx = <<s>>] \in Regs
    BY <1>2 DEF Registers
  <2>4. (\A f \in {"0", "1", "2"} : f \in Names) /\ (\A kind \in {"fast", "slow"} : kind \in Names)
    BY DEF Names
  <2>5. {[Own EXCEPT !.rax = <<"vhrs">>, !.rbx = <<f>>] : f \in {"0", "1", "2"}} \subseteq Regs
    <3>1. "vhrs" \in Names
      BY DEF Names
    <3> QED
      BY <3>1, <2>2, <2>4
  <2>6. {[Own EXCEPT !.rcx = <<kind>>] : kind \in {"fast", "slow"}} \subseteq Regs
    BY <2>3, <2>4, Zenon
  <2> QED
    BY <1>6, <2>1, <2>5, <2>6
<1>7. CASE i.op \in {"mov_cr3", "hlt", "xsetbv"}
  BY <1>7, OwnType DEF Operands
<1> QED
  BY <1>3, <1>4, <1>5, <1>6, <1>7 DEF Insns

(***************************************************************************)
(* What an instruction does to the processor.                              *)
(***************************************************************************)
Ready(i, c) ==
  /\ i \in Insns
  /\ c \in Cpus
  /\ i.op = "mov_cr4" => c.regs[i.from][1] \in Cr4Operands

LEMMA NativeType ==
  ASSUME NEW i, NEW c, Ready(i, c), Fault(i, c) = "none"
  PROVE  Native(i, c) \in Cpus
<1>1. c.regs \in Regs /\ c.msr \in [Msrs -> MsrValues] /\ c.xcr0 \in {0, 1} /\ c.context \in Contexts
  BY DEF Ready, Cpus, Regs
<1>2. CASE i.op \in {"cpuid", "vmcall"}
  BY <1>1, <1>2, CpuidRegsType, HypercallRegsType DEF Ready, Native, Cpus, Regs
<1>3. CASE i.op \in {"rdmsr", "wrmsr"}
  <2>1. MsrOf(c.regs) \in Msrs
    BY <1>3 DEF Fault
  <2> HIDE DEF MsrOf
  <2>2. c.msr[MsrOf(c.regs)] \in MsrValues
    BY <1>1, <2>1
  <2>3. CASE i.op = "rdmsr"
    BY <1>1, <2>1, <2>2, <2>3 DEF Ready, Native, Cpus, Regs, Registers, MsrValues
  <2>4. CASE i.op = "wrmsr"
    BY <1>1, <2>1, <2>2, <2>4 DEF Ready, Native, Cpus, Regs, Registers, MsrValues
  <2> QED
    BY <1>3, <2>3, <2>4
<1>4. CASE i.op \in {"mov_cr4", "mov_cr3", "xsetbv", "hlt"}
  <2>1. i.op = "mov_cr4" => c.regs[i.from][1] \in Cr4Values
    BY DEF Ready, Fault, Cr4Operands
  <2> QED
    BY <1>1, <1>4, <2>1 DEF Ready, Native, Cpus, Contexts
<1> QED
  BY <1>2, <1>3, <1>4 DEF Ready, Insns
-----------------------------------------------------------------------------
(***************************************************************************)
(* The inductive invariant: between its fetch and its end an instruction   *)
(* has its operands, and from a VM exit to the handler the VMCS and the    *)
(* upper hypervisor's copy of it describe the processor.                   *)
(***************************************************************************)
OperandsOK ==
  insn # NoInsn => insn \in Insns /\ cpu.regs \in Operands(insn) /\ fault = "none"

ExitOK ==
  mode = "exit" =>
    /\ insn # NoInsn
    /\ loaded = evmcs.fields
    /\ evmcs.rip = 0 /\ evmcs.context = cpu.context
    /\ loaded.rsp = cpu.regs.rsp /\ loaded.cr4 = cpu.cr4 /\ loaded.event = "none"

IInv == TypeOK /\ OperandsOK /\ ExitOK /\ NothingStale /\ ShadowAgrees

(***************************************************************************)
(* A VMCS is honest against the upper hypervisor's copy if no group with a *)
(* clean bit differs from it.  Every writer keeps it so.                   *)
(***************************************************************************)
Honest(vmcs, copy) ==
  /\ "guest_basic" \in vmcs.clean => vmcs.fields.rsp = copy.rsp
  /\ "crdr" \in vmcs.clean => vmcs.fields.cr4 = copy.cr4 /\ vmcs.fields.shadow = copy.shadow
  /\ "control_event" \in vmcs.clean => vmcs.fields.event = copy.event

LEMMA ReadsWritten ==
  ASSUME NEW vmcs \in Evmcs, Honest(vmcs, loaded)
  PROVE  ReadAtEntry(vmcs) = vmcs.fields
  BY DEF ReadAtEntry, Honest, Evmcs, Fields

LEMMA InjectIsHonest ==
  ASSUME NEW vmcs \in Evmcs, NEW copy, Honest(vmcs, copy), NEW exception \in {"ud", "gp"}
  PROVE  /\ Inject(exception, vmcs) \in Evmcs
         /\ Honest(Inject(exception, vmcs), copy)
         /\ Inject(exception, vmcs).rip = vmcs.rip
         /\ Inject(exception, vmcs).fields = [vmcs.fields EXCEPT !.event = exception]
  BY DEF Inject, Honest, Evmcs, Fields

LEMMA MovToCr4IsHonest ==
  ASSUME NEW vmcs \in Evmcs, NEW copy, Honest(vmcs, copy), NEW v \in Cr4Operands
  PROVE  /\ MovToCr4(v, vmcs) \in Evmcs
         /\ Honest(MovToCr4(v, vmcs), copy)
         /\ MovToCr4(v, vmcs).rip = vmcs.rip
         /\ MovToCr4(v, vmcs).fields = [vmcs.fields EXCEPT !.cr4 = v, !.shadow = v]
  BY DEF MovToCr4, Honest, Evmcs, Fields

(***************************************************************************)
(* What an entry does with an honest VMCS.                                 *)
(***************************************************************************)
Entered(regs, msr) ==
  /\ evmcs' \in Evmcs /\ Honest(evmcs', loaded)
  /\ evmcs'.fields.rsp = regs.rsp /\ evmcs'.fields.cr4 \in Cr4Values
  /\ Paging(evmcs'.fields.shadow) = Paging(evmcs'.fields.cr4)
  /\ Enter([regs |-> regs, rip |-> evmcs'.rip], evmcs', msr)
  /\ \/ evmcs'.rip = 0 /\ regs = cpu.regs
     \/ evmcs'.rip = 1 /\ evmcs'.fields.event = "none"

LEMMA EntryKeeps ==
  ASSUME IInv, mode = "exit",
         NEW regs \in Regs, NEW msr \in [Msrs -> MsrValues], Entered(regs, msr)
  PROVE  /\ IInv'
         /\ cpu' = [cpu EXCEPT !.regs = regs, !.cr4 = evmcs'.fields.cr4, !.msr = msr]
         /\ insn' = IF evmcs'.rip = 0 /\ evmcs'.fields.event = "none" THEN insn ELSE NoInsn
         /\ fault' = evmcs'.fields.event /\ mode' = "guest"
<1>1. loaded' = evmcs'.fields /\ mode' = "guest" /\ index' = index /\ host_cr4' = host_cr4
  <2>1. PICK vmcs \in Evmcs : vmcs = evmcs' /\ Honest(vmcs, loaded)
    BY DEF Entered
  <2>2. loaded' = ReadAtEntry(vmcs)
    BY <2>1 DEF Entered, Enter
  <2> QED
    BY <2>1, <2>2, ReadsWritten DEF Entered, Enter
<1>2. [regs EXCEPT !.rsp = evmcs'.fields.rsp] = regs
  BY DEF Entered, Regs, Registers
<1>3. cpu' = [cpu EXCEPT !.regs = regs, !.cr4 = evmcs'.fields.cr4, !.msr = msr]
  BY <1>1, <1>2 DEF Entered, Enter
<1>4. insn' = IF evmcs'.rip = 0 /\ evmcs'.fields.event = "none" THEN insn ELSE NoInsn
  BY <1>1 DEF Entered, Enter, InsnAfterEntry
<1>5. fault' = evmcs'.fields.event
  BY <1>1 DEF Entered, Enter
<1>6. cpu' \in Cpus /\ cpu'.regs = regs /\ cpu'.cr4 = evmcs'.fields.cr4
  BY <1>3 DEF IInv, TypeOK, Cpus, Regs, Evmcs, Fields, Entered
<1>7. TypeOK'
  BY <1>1, <1>4, <1>5, <1>6 DEF IInv, TypeOK, Evmcs, Fields, Entered
<1>8. OperandsOK'
  BY <1>4, <1>5, <1>6 DEF IInv, OperandsOK, Entered
<1>9. ExitOK' /\ NothingStale' /\ ShadowAgrees'
  BY <1>1, <1>6 DEF ExitOK, NothingStale, ShadowAgrees, Entered
<1> QED
  BY <1>1, <1>3, <1>4, <1>5, <1>7, <1>8, <1>9 DEF IInv

(***************************************************************************)
(* At a VM exit the guest's registers, the VMCS and the copy agree.        *)
(***************************************************************************)
LEMMA AtExit ==
  ASSUME IInv, mode = "exit"
  PROVE  /\ insn \in Insns /\ cpu.regs \in Operands(insn) /\ cpu.regs \in Regs
         /\ evmcs \in Evmcs /\ Honest(evmcs, loaded) /\ evmcs.fields = loaded
         /\ evmcs.rip = 0 /\ loaded.event = "none" /\ loaded.cr4 = cpu.cr4
         /\ Paging(loaded.shadow) = Paging(loaded.cr4)
         /\ GuestState = [regs |-> cpu.regs, rip |-> 0] /\ cpu.cr4 \in Cr4Values
         /\ cpu.msr \in [Msrs -> MsrValues] /\ loaded.rsp = cpu.regs.rsp
<1>1. insn \in Insns /\ cpu.regs \in Operands(insn) /\ cpu \in Cpus /\ evmcs \in Evmcs
  BY DEF IInv, TypeOK, OperandsOK, ExitOK
<1>2. cpu.regs \in Regs /\ cpu.msr \in [Msrs -> MsrValues] /\ cpu.cr4 \in Cr4Values
  BY <1>1 DEF Cpus, Regs
<1>3. evmcs.fields = loaded /\ evmcs.rip = 0 /\ loaded.event = "none" /\ loaded.cr4 = cpu.cr4
      /\ loaded.rsp = cpu.regs.rsp /\ Paging(loaded.shadow) = Paging(cpu.cr4)
  BY DEF IInv, ExitOK, ShadowAgrees
<1>4. [cpu.regs EXCEPT !.rsp = evmcs.fields.rsp] = cpu.regs
  BY <1>2, <1>3 DEF Regs, Registers
<1> QED
  BY <1>1, <1>2, <1>3, <1>4 DEF GuestState, Honest

(***************************************************************************)
(* A handler that resumes behind the instruction.                          *)
(***************************************************************************)
LEMMA ResumeKeeps ==
  ASSUME IInv, mode = "exit",
         NEW regs \in Regs, NEW msr \in [Msrs -> MsrValues],
         Resume(AdvanceRip([GuestState EXCEPT !.regs = regs]), evmcs, msr)
  PROVE  /\ IInv'
         /\ cpu' = [cpu EXCEPT !.regs = regs, !.msr = msr]
         /\ insn' = NoInsn /\ fault' = "none" /\ mode' = "guest"
<1>1. AdvanceRip([GuestState EXCEPT !.regs = regs]) = [regs |-> regs, rip |-> 1]
  <2>1. [GuestState EXCEPT !.regs = regs] = [regs |-> regs, rip |-> 0]
    BY AtExit
  <2>2. AdvanceRip([regs |-> regs, rip |-> 0]) = [regs |-> regs, rip |-> 1]
    BY DEF AdvanceRip
  <2> QED
    BY <2>1, <2>2
<1>2. evmcs' = WriteBack([regs |-> regs, rip |-> 1], evmcs)
      /\ Enter([regs |-> regs, rip |-> 1], evmcs', msr)
  BY <1>1 DEF Resume, Enter
<1>3. /\ evmcs' \in Evmcs /\ Honest(evmcs', loaded) /\ evmcs'.rip = 1
      /\ evmcs'.fields = [evmcs.fields EXCEPT !.rsp = regs.rsp]
  <2>1. evmcs \in Evmcs /\ Honest(evmcs, loaded) /\ evmcs.fields.rsp = loaded.rsp
    BY AtExit
  <2>2. regs.rsp \in Words
    BY DEF Regs, Registers
  <2>3. /\ evmcs'.fields = [evmcs.fields EXCEPT !.rsp = regs.rsp]
        /\ evmcs'.rip = 1 /\ evmcs'.context = evmcs.context
        /\ evmcs'.clean = IF evmcs.fields.rsp # regs.rsp THEN evmcs.clean \ {"guest_basic"}
                                                        ELSE evmcs.clean
    BY <1>2, <2>1 DEF WriteBack, Evmcs, Fields
  <2>4. evmcs' = [evmcs EXCEPT !.fields = evmcs'.fields, !.rip = 1, !.clean = evmcs'.clean]
    BY <1>2, <2>1, <2>3 DEF WriteBack, Evmcs
  <2>5. evmcs' \in Evmcs
    BY <2>1, <2>2, <2>3, <2>4 DEF Evmcs, Fields
  <2> QED
    BY <2>1, <2>3, <2>5 DEF Honest, Evmcs, Fields
<1>4. /\ evmcs'.fields.rsp = regs.rsp /\ evmcs'.fields.event = "none"
      /\ evmcs'.fields.cr4 = cpu.cr4 /\ evmcs'.fields.shadow = loaded.shadow
  BY <1>3, AtExit DEF Evmcs, Fields
<1>5. Paging(evmcs'.fields.shadow) = Paging(evmcs'.fields.cr4)
  BY <1>4, AtExit
<1>6. Entered(regs, msr)
  BY <1>2, <1>3, <1>4, <1>5, AtExit DEF Entered
<1>7. /\ IInv'
      /\ cpu' = [cpu EXCEPT !.regs = regs, !.cr4 = cpu.cr4, !.msr = msr]
      /\ insn' = NoInsn /\ fault' = "none" /\ mode' = "guest"
  <2>1. /\ IInv'
        /\ cpu' = [cpu EXCEPT !.regs = regs, !.cr4 = evmcs'.fields.cr4, !.msr = msr]
        /\ insn' = IF evmcs'.rip = 0 /\ evmcs'.fields.event = "none" THEN insn ELSE NoInsn
        /\ fault' = evmcs'.fields.event /\ mode' = "guest"
    BY <1>6, EntryKeeps
  <2> QED
    BY <1>3, <1>4, <2>1
<1>8. [cpu EXCEPT !.regs = regs, !.cr4 = cpu.cr4, !.msr = msr] = [cpu EXCEPT !.regs = regs, !.msr = msr]
  BY DEF IInv, TypeOK, Cpus
<1> QED
  BY <1>7, <1>8
-----------------------------------------------------------------------------
(***************************************************************************)
(* The step of BareCpu that an action of VmExit makes.                     *)
(***************************************************************************)
BareStep == [Bare!BNext]_(Bare!bvars)

LEMMA SameArchitecture ==
  /\ \A regs : Bare!CpuidRegs(regs) = CpuidRegs(regs)
  /\ \A i, c : Bare!Native(i, c) = Native(i, c)
  /\ \A i, c : Bare!Fault(i, c) = Fault(i, c)
  /\ \A i : Bare!Operands(i) = Operands(i)
  /\ Bare!Cpus = Cpus /\ Bare!Insns = Insns /\ Bare!NoInsn = NoInsn
  /\ Bare!Contexts = Contexts /\ Bare!Cr4Values = Cr4Values
<1>1. /\ Bare!Insns = Insns /\ Bare!NoInsn = NoInsn /\ Bare!Contexts = Contexts
      /\ Bare!Cr4Values = Cr4Values /\ Bare!Registers = Registers
  BY DEF Bare!Insns, Insns, Bare!NoInsn, NoInsn, Bare!Contexts, Contexts,
         Bare!Cr4Values, Cr4Values, Bare!Registers, Registers
<1>9. Bare!Cr4Operands = Cr4Operands
  BY <1>1 DEF Bare!Cr4Operands, Cr4Operands
<1>2. Bare!Own = Own
  BY <1>1 DEF Bare!Own, Own
<1>3. Bare!Words = Words
  BY <1>1, <1>9 DEF Bare!Words, Words, Bare!Names, Names
<1>4. Bare!Cpus = Cpus
  BY <1>1, <1>3 DEF Bare!Cpus, Cpus, Bare!MsrValues, MsrValues
<1>5. ASSUME NEW regs
      PROVE  /\ Bare!CpuidRegs(regs) = CpuidRegs(regs)
             /\ Bare!HypercallRegs(regs) = HypercallRegs(regs)
             /\ Bare!MsrOf(regs) = MsrOf(regs)
  BY DEF Bare!CpuidRegs, CpuidRegs, Bare!HypercallRegs, HypercallRegs,
         Bare!HypercallStatus, HypercallStatus, Bare!MsrOf, MsrOf
<1>6. ASSUME NEW i, NEW c PROVE Bare!Native(i, c) = Native(i, c)
  BY <1>5 DEF Bare!Native, Native
<1>7. ASSUME NEW i, NEW c PROVE Bare!Fault(i, c) = Fault(i, c)
  BY <1>5 DEF Bare!Fault, Fault
<1>8. ASSUME NEW i PROVE Bare!Operands(i) = Operands(i)
  BY <1>1, <1>2, <1>9 DEF Bare!Operands, Operands
<1> QED
  BY <1>1, <1>4, <1>5, <1>6, <1>7, <1>8

LEMMA ResumeRetires ==
  ASSUME IInv, mode = "exit",
         NEW regs \in Regs, NEW msr \in [Msrs -> MsrValues],
         Resume(AdvanceRip([GuestState EXCEPT !.regs = regs]), evmcs, msr)
  PROVE  /\ Bare!Busy
         /\ Bare!Retire([cpu EXCEPT !.regs = regs, !.msr = msr], "none")
<1>1. /\ cpu' = [cpu EXCEPT !.regs = regs, !.msr = msr]
      /\ insn' = NoInsn /\ fault' = "none" /\ mode' = "guest"
  BY ResumeKeeps
<1>2. insn # NoInsn
  BY DEF IInv, ExitOK
<1> QED
  BY <1>1, <1>2, SameArchitecture DEF Bare!Busy, Bare!Retire

(***************************************************************************)
(* The handlers that resume behind the instruction.                        *)
(***************************************************************************)
LEMMA StopStep ==
  ASSUME IInv, mode \in {"exit", "failed"}, Stop PROVE IInv' /\ BareStep
<1>1. IInv'
  BY DEF Stop, IInv, TypeOK, OperandsOK, ExitOK, NothingStale, ShadowAgrees
<1>2. Bare!Stop
  BY DEF Stop, Bare!Stop
<1> QED
  BY <1>1, <1>2 DEF BareStep, Bare!BNext

LEMMA CpuidStep ==
  ASSUME IInv, OnInstructionCpuid PROVE IInv' /\ BareStep
<1> DEFINE result == CpuidRegs(cpu.regs)
           named  == [result EXCEPT !.rbx = <<"eris">>, !.rcx = <<"vh-n">>, !.rdx = <<"0">>]
<1>1. mode = "exit" /\ insn.op = "cpuid" /\ GuestState.regs = cpu.regs
  <2>1. mode = "exit" /\ insn.op = "cpuid"
    BY DEF OnInstructionCpuid, Handling
  <2>2. GuestState = [regs |-> cpu.regs, rip |-> 0]
    BY <2>1, AtExit
  <2> QED
    BY <2>1, <2>2
<1>2. PICK regs : regs = IF cpu.regs.rax = <<"vendor leaf">> THEN named ELSE result
  OBVIOUS
<1>3. regs \in Regs
  <2>1. result \in Regs
    BY <1>1, AtExit, CpuidRegsType
  <2>2. <<"eris">> \in Words /\ <<"vh-n">> \in Words /\ <<"0">> \in Words
    BY WordTypes DEF Names
  <2> QED
    BY <1>2, <2>1, <2>2 DEF Regs
<1>4. PICK msr \in [Msrs -> MsrValues] : msr = cpu.msr
  BY <1>1, AtExit
<1>5. Resume(AdvanceRip([GuestState EXCEPT !.regs = regs]), evmcs, msr)
  BY <1>1, <1>2, <1>4 DEF OnInstructionCpuid, Resume, Enter
<1>6. IInv' /\ Bare!Busy /\ Bare!Retire([cpu EXCEPT !.regs = regs, !.msr = msr], "none")
  BY <1>1, <1>3, <1>5, ResumeKeeps, ResumeRetires
<1>7. [cpu EXCEPT !.regs = regs, !.msr = msr] = [cpu EXCEPT !.regs = regs]
  BY <1>4 DEF IInv, TypeOK, Cpus
<1>8. CASE cpu.regs.rax = <<"vendor leaf">>
  <2>1. Bare!NameSiren
    BY <1>1, <1>2, <1>6, <1>7, <1>8, SameArchitecture DEF Bare!NameSiren
  <2> QED
    BY <1>6, <2>1 DEF BareStep, Bare!BNext
<1>9. CASE cpu.regs.rax # <<"vendor leaf">>
  <2>1. Fault(insn, cpu) = "none" /\ Native(insn, cpu) = [cpu EXCEPT !.regs = regs]
    BY <1>1, <1>2, <1>9 DEF Fault, Native
  <2>2. Bare!Execute
    BY <1>1, <1>6, <1>7, <1>9, <2>1, SameArchitecture
       DEF Bare!Execute, Bare!AnsweredBySiren, Bare!Retire
  <2> QED
    BY <1>6, <2>2 DEF BareStep, Bare!BNext
<1> QED
  BY <1>8, <1>9

LEMMA RdmsrStep ==
  ASSUME IInv, OnInstructionRdmsr PROVE IInv' /\ BareStep
<1> DEFINE value == cpu.msr[MsrOf(cpu.regs)]
<1>1. mode = "exit" /\ insn.op = "rdmsr"
  BY DEF OnInstructionRdmsr, Handling
<1>2. CASE MsrOf(cpu.regs) \in Msrs
  <2>1. GuestState = [regs |-> cpu.regs, rip |-> 0] /\ cpu.regs \in Regs
    BY <1>1, AtExit
  <2>2. PICK regs : regs = [cpu.regs EXCEPT !.rax = value.lo, !.rdx = value.hi]
    OBVIOUS
  <2>3. PICK msr \in [Msrs -> MsrValues] : msr = cpu.msr
    BY <1>1, AtExit
  <2>4. value.lo \in Words /\ value.hi \in Words
    BY <1>2, <2>3 DEF MsrValues
  <2>5. regs \in Regs
    BY <2>1, <2>2, <2>4 DEF Regs
  <2>6. [GuestState EXCEPT !.regs.rax = value.lo, !.regs.rdx = value.hi]
          = [GuestState EXCEPT !.regs = regs]
    BY <2>1, <2>2
  <2>7. Resume(AdvanceRip([GuestState EXCEPT !.regs = regs]), evmcs, msr)
    BY <1>1, <1>2, <2>6, <2>3 DEF OnInstructionRdmsr, Resume, Enter
  <2>8. IInv' /\ Bare!Busy /\ Bare!Retire([cpu EXCEPT !.regs = regs, !.msr = msr], "none")
    BY <1>1, <2>5, <2>7, ResumeKeeps, ResumeRetires
  <2>9. Fault(insn, cpu) = "none" /\ Native(insn, cpu) = [cpu EXCEPT !.regs = regs, !.msr = msr]
    BY <1>1, <1>2, <2>2, <2>3 DEF Fault, Native, IInv, TypeOK, Cpus
  <2>10. Bare!Execute
    BY <1>1, <2>8, <2>9, SameArchitecture DEF Bare!Execute, Bare!AnsweredBySiren, Bare!Retire
  <2> QED
    BY <2>8, <2>10 DEF BareStep, Bare!BNext
<1>3. CASE MsrOf(cpu.regs) \notin Msrs
  BY <1>1, <1>3, StopStep DEF OnInstructionRdmsr
<1> QED
  BY <1>2, <1>3

LEMMA WrmsrStep ==
  ASSUME IInv, OnInstructionWrmsr PROVE IInv' /\ BareStep
<1>1. mode = "exit" /\ insn.op = "wrmsr"
  BY DEF OnInstructionWrmsr, Handling
<1>2. CASE MsrOf(cpu.regs) \in Msrs
  <2>1. GuestState = [regs |-> cpu.regs, rip |-> 0] /\ cpu.regs \in Regs
        /\ cpu.msr \in [Msrs -> MsrValues]
    BY <1>1, AtExit
  <2>2. PICK regs : regs = cpu.regs
    OBVIOUS
  <2>3. PICK value : value = [hi |-> cpu.regs.rdx, lo |-> cpu.regs.rax]
    OBVIOUS
  <2>4. PICK msr : msr = [cpu.msr EXCEPT ![MsrOf(cpu.regs)] = value]
    OBVIOUS
  <2>5. regs \in Regs /\ value \in MsrValues
    BY <2>1, <2>2, <2>3 DEF Regs, Registers, MsrValues
  <2>6. msr \in [Msrs -> MsrValues]
    BY <2>1, <2>4, <2>5
  <2>7. GuestState = [GuestState EXCEPT !.regs = regs] /\ GuestState.regs = cpu.regs
    BY <2>1, <2>2
  <2>8. Resume(AdvanceRip([GuestState EXCEPT !.regs = regs]), evmcs, msr)
    BY <1>1, <1>2, <2>3, <2>4, <2>7 DEF OnInstructionWrmsr, Resume, Enter
  <2>9. IInv' /\ Bare!Busy /\ Bare!Retire([cpu EXCEPT !.regs = regs, !.msr = msr], "none")
    BY <1>1, <2>5, <2>6, <2>8, ResumeKeeps, ResumeRetires
  <2>10. Native(insn, cpu) = [cpu EXCEPT !.msr = msr]
    BY <1>1, <2>3, <2>4 DEF Native, IInv, TypeOK, Cpus
  <2>11. [cpu EXCEPT !.msr = msr] = [cpu EXCEPT !.regs = regs, !.msr = msr]
    BY <2>2 DEF IInv, TypeOK, Cpus
  <2>12. Fault(insn, cpu) = "none"
    BY <1>1, <1>2 DEF Fault
  <2>13. Bare!Execute
    BY <1>1, <2>9, <2>10, <2>11, <2>12, SameArchitecture
       DEF Bare!Execute, Bare!AnsweredBySiren, Bare!Retire
  <2> QED
    BY <2>9, <2>13 DEF BareStep, Bare!BNext
<1>3. CASE MsrOf(cpu.regs) \notin Msrs
  BY <1>1, <1>3, StopStep DEF OnInstructionWrmsr
<1> QED
  BY <1>2, <1>3

(***************************************************************************)
(* A handler that advances RIP and changes nothing else.                   *)
(***************************************************************************)
LEMMA SkipRetires ==
  ASSUME IInv, mode = "exit", Resume(AdvanceRip(GuestState), evmcs, cpu.msr)
  PROVE  IInv' /\ Bare!Busy /\ Bare!Retire(cpu, "none")
<1>1. GuestState = [regs |-> cpu.regs, rip |-> 0] /\ cpu.regs \in Regs
  BY AtExit
<1>2. PICK regs \in Regs : regs = cpu.regs
  BY <1>1
<1>3. PICK msr \in [Msrs -> MsrValues] : msr = cpu.msr
  BY AtExit
<1>4. GuestState = [GuestState EXCEPT !.regs = regs]
  BY <1>1, <1>2
<1>5. Resume(AdvanceRip([GuestState EXCEPT !.regs = regs]), evmcs, msr)
  BY <1>3, <1>4 DEF Resume, Enter
<1>6. IInv' /\ Bare!Busy /\ Bare!Retire([cpu EXCEPT !.regs = regs, !.msr = msr], "none")
  BY <1>5, ResumeKeeps, ResumeRetires
<1>7. [cpu EXCEPT !.regs = regs, !.msr = msr] = cpu
  BY <1>2, <1>3 DEF IInv, TypeOK, Cpus
<1> QED
  BY <1>6, <1>7 DEF Bare!Retire

LEMMA HltStep ==
  ASSUME IInv, OnInstructionHlt PROVE IInv' /\ BareStep
<1>1. mode = "exit" /\ insn.op = "hlt"
  BY DEF OnInstructionHlt, Handling
<1>2. IInv' /\ Bare!Busy /\ Bare!Retire(cpu, "none")
  BY <1>1, SkipRetires DEF OnInstructionHlt
<1>3. Fault(insn, cpu) = "none" /\ Native(insn, cpu) = cpu
  BY <1>1 DEF Fault, Native
<1>4. Bare!Execute
  BY <1>1, <1>2, <1>3, SameArchitecture DEF Bare!Execute, Bare!AnsweredBySiren, Bare!Retire
<1> QED
  BY <1>2, <1>4 DEF BareStep, Bare!BNext

LEMMA UnknownExitStep ==
  ASSUME IInv, OnUnknownExit PROVE IInv' /\ BareStep
<1>1. mode = "exit" /\ insn.op = "xsetbv"
  BY DEF OnUnknownExit, Handling
<1>2. CASE Resume(AdvanceRip(GuestState), evmcs, cpu.msr)
  <2>1. IInv' /\ Bare!Busy /\ Bare!Retire(cpu, "none")
    BY <1>1, <1>2, SkipRetires
  <2>2. Bare!Skip
    BY <1>1, <2>1 DEF Bare!Skip
  <2> QED
    BY <2>1, <2>2 DEF BareStep, Bare!BNext
<1> QED
  BY <1>1, <1>2, StopStep DEF OnUnknownExit

(***************************************************************************)
(* VMCALL.                                                                 *)
(***************************************************************************)
LEMMA AnswerRetires ==
  ASSUME IInv, mode = "exit", NEW word \in Words, Answer(word)
  PROVE  IInv' /\ Bare!Busy /\ Bare!Retire([cpu EXCEPT !.regs.rax = word], "none")
<1>1. GuestState = [regs |-> cpu.regs, rip |-> 0] /\ cpu.regs \in Regs
  BY AtExit
<1>2. PICK regs : regs = [cpu.regs EXCEPT !.rax = word]
  OBVIOUS
<1>3. PICK msr \in [Msrs -> MsrValues] : msr = cpu.msr
  BY AtExit
<1>4. regs \in Regs
  BY <1>1, <1>2 DEF Regs
<1>5. [GuestState EXCEPT !.regs.rax = word] = [GuestState EXCEPT !.regs = regs]
  BY <1>1, <1>2
<1>6. Resume(AdvanceRip([GuestState EXCEPT !.regs = regs]), evmcs, msr)
  BY <1>3, <1>5 DEF Answer, Resume, Enter
<1>7. IInv' /\ Bare!Busy /\ Bare!Retire([cpu EXCEPT !.regs = regs, !.msr = msr], "none")
  BY <1>4, <1>6, ResumeKeeps, ResumeRetires
<1>8. [cpu EXCEPT !.regs = regs, !.msr = msr] = [cpu EXCEPT !.regs.rax = word]
  BY <1>2, <1>3 DEF IInv, TypeOK, Cpus
<1> QED
  BY <1>7, <1>8 DEF Bare!Retire

LEMMA EchoStep ==
  ASSUME IInv, SirenHypercallEcho PROVE IInv' /\ BareStep
<1>1. /\ mode = "exit" /\ insn.op = "vmcall" /\ insn.cpl = 0
      /\ cpu.regs.rax = <<"vhrs">> /\ cpu.regs.rbx = <<"0">> /\ Answer(<<"srhv">>)
  BY DEF SirenHypercallEcho, ForSiren, Handling
<1>2. <<"srhv">> \in Words
  BY WordTypes DEF Names
<1>3. IInv' /\ Bare!Busy /\ Bare!Retire([cpu EXCEPT !.regs.rax = <<"srhv">>], "none")
  BY <1>1, <1>2, AnswerRetires
<1>4. Bare!Echo
  BY <1>1, <1>3 DEF Bare!Echo, Bare!ToSiren
<1> QED
  BY <1>3, <1>4 DEF BareStep, Bare!BNext

LEMMA NotImplementedStep ==
  ASSUME IInv, SirenHypercallNotImplemented PROVE IInv' /\ BareStep
<1>1. /\ mode = "exit" /\ insn.op = "vmcall" /\ insn.cpl = 0
      /\ cpu.regs.rax = <<"vhrs">> /\ cpu.regs.rbx \notin {<<"0">>, <<"1">>}
      /\ Answer(<<"not implemented">>)
  BY DEF SirenHypercallNotImplemented, ForSiren, Handling
<1>2. <<"not implemented">> \in Words
  BY WordTypes DEF Names
<1>3. IInv' /\ Bare!Busy /\ Bare!Retire([cpu EXCEPT !.regs.rax = <<"not implemented">>], "none")
  BY <1>1, <1>2, AnswerRetires
<1>4. cpu.regs.rbx = <<"2">>
  <2>1. cpu.regs \in Operands(insn)
    BY <1>1, AtExit
  <2>2. \/ \E f \in {"0", "1", "2"} :
             cpu.regs = [Own EXCEPT !.rax = <<"vhrs">>, !.rbx = <<f>>]
        \/ \E kind \in {"fast", "slow"} : cpu.regs = [Own EXCEPT !.rcx = <<kind>>]
    BY <1>1, <2>1 DEF Operands
  <2>3. ASSUME NEW kind, cpu.regs = [Own EXCEPT !.rcx = <<kind>>] PROVE FALSE
    <3>1. cpu.regs.rax = <<"rax">>
      BY <2>3 DEF Own, Registers
    <3>2. <<"rax">> # <<"vhrs">>
      OBVIOUS
    <3> QED
      BY <3>1, <3>2, <1>1
  <2>4. ASSUME NEW f \in {"0", "1", "2"},
               cpu.regs = [Own EXCEPT !.rax = <<"vhrs">>, !.rbx = <<f>>]
        PROVE  cpu.regs.rbx = <<"2">>
    <3>1. cpu.regs.rbx = <<f>>
      <4>1. DOMAIN Own = Registers
        BY DEF Own
      <4> QED
        BY <2>4, <4>1 DEF Registers
    <3> QED
      BY <3>1, <1>1
  <2> QED
    BY <2>2, <2>3, <2>4
<1>5. Bare!NotImplemented
  BY <1>1, <1>3, <1>4 DEF Bare!NotImplemented, Bare!ToSiren
<1> QED
  BY <1>3, <1>5 DEF BareStep, Bare!BNext

LEMMA MicrosoftHypercallStep ==
  ASSUME IInv, MicrosoftHypercall PROVE IInv' /\ BareStep
<1> DEFINE out == HypercallRegs(cpu.regs)
           after == IF cpu.regs.rcx = <<"fast">>
                    THEN [cpu.regs EXCEPT !.rax = out.rax, !.rdx = out.rdx, !.r8 = out.r8,
                                          !.xmm = out.xmm]
                    ELSE [cpu.regs EXCEPT !.rax = out.rax]
<1>1. mode = "exit" /\ insn.op = "vmcall" /\ insn.cpl = 0
  BY DEF MicrosoftHypercall, Handling
<1>2. GuestState = [regs |-> cpu.regs, rip |-> 0] /\ cpu.regs \in Regs
  BY <1>1, AtExit
<1>3. cpu.regs.rax # <<"vhrs">>
  BY <1>2 DEF MicrosoftHypercall
<1>4. after = out
  BY <1>2 DEF HypercallRegs, Regs, Registers
<1>5. PICK regs : regs = after
  OBVIOUS
<1>6. PICK msr \in [Msrs -> MsrValues] : msr = cpu.msr
  BY <1>1, AtExit
<1>7. regs \in Regs
  BY <1>2, <1>4, <1>5, HypercallRegsType
<1>8. GuestState.regs = cpu.regs
  BY <1>2
<1>9. Resume(AdvanceRip([GuestState EXCEPT !.regs = regs]), evmcs, msr)
  BY <1>5, <1>6, <1>8 DEF MicrosoftHypercall, Resume, Enter
<1>10. IInv' /\ Bare!Busy /\ Bare!Retire([cpu EXCEPT !.regs = regs, !.msr = msr], "none")
  BY <1>1, <1>7, <1>9, ResumeKeeps, ResumeRetires
<1>11. Fault(insn, cpu) = "none" /\ Native(insn, cpu) = [cpu EXCEPT !.regs = out]
  BY <1>1 DEF Fault, Native
<1>12. [cpu EXCEPT !.regs = regs, !.msr = msr] = [cpu EXCEPT !.regs = out]
  BY <1>4, <1>5, <1>6 DEF IInv, TypeOK, Cpus
<1>13. Bare!Execute
  BY <1>1, <1>3, <1>10, <1>11, <1>12, SameArchitecture
     DEF Bare!Execute, Bare!AnsweredBySiren, Bare!Retire
<1> QED
  BY <1>10, <1>13 DEF BareStep, Bare!BNext

LEMMA OutsideRing0Step ==
  ASSUME IInv, OnVmcallOutsideRing0 PROVE IInv' /\ BareStep
<1>1. mode = "exit" /\ insn.op = "vmcall" /\ insn.cpl # 0
  BY DEF OnVmcallOutsideRing0, Handling
<1>2. /\ GuestState = [regs |-> cpu.regs, rip |-> 0] /\ cpu.regs \in Regs
      /\ evmcs \in Evmcs /\ Honest(evmcs, loaded) /\ evmcs.fields = loaded
      /\ evmcs.rip = 0 /\ loaded.cr4 = cpu.cr4 /\ loaded.rsp = cpu.regs.rsp
      /\ Paging(loaded.shadow) = Paging(loaded.cr4)
  BY <1>1, AtExit
<1>3. PICK regs \in Regs : regs = cpu.regs
  BY <1>2
<1>4. PICK msr \in [Msrs -> MsrValues] : msr = cpu.msr
  BY <1>1, AtExit
<1>5. PICK vmcs : vmcs = Inject("ud", evmcs)
  OBVIOUS
<1>6. /\ vmcs \in Evmcs /\ Honest(vmcs, loaded) /\ vmcs.rip = 0
      /\ vmcs.fields = [evmcs.fields EXCEPT !.event = "ud"]
  BY <1>2, <1>5, InjectIsHonest
<1>7. vmcs.fields.rsp = regs.rsp
  BY <1>2, <1>3, <1>6 DEF Evmcs, Fields
<1>8. WriteBack(GuestState, vmcs) = vmcs
  <2>1. GuestState = [regs |-> regs, rip |-> 0]
    BY <1>2, <1>3
  <2>2. [vmcs EXCEPT !.fields.rsp = regs.rsp, !.rip = 0, !.clean = vmcs.clean] = vmcs
    <3>1. [vmcs.fields EXCEPT !.rsp = regs.rsp] = vmcs.fields
      BY <1>6, <1>7 DEF Evmcs, Fields
    <3>2. vmcs = [vmcs EXCEPT !.fields = vmcs.fields, !.rip = 0, !.clean = vmcs.clean]
      BY <1>6 DEF Evmcs
    <3> QED
      BY <3>1, <3>2
  <2>3. WriteBack([regs |-> regs, rip |-> 0], vmcs) = vmcs
    BY <1>7, <2>2 DEF WriteBack
  <2> QED
    BY <2>1, <2>3
<1>9. evmcs' = vmcs /\ Enter([regs |-> regs, rip |-> vmcs.rip], vmcs, msr)
  BY <1>2, <1>3, <1>4, <1>5, <1>6, <1>8 DEF OnVmcallOutsideRing0, Resume, Enter
<1>10. /\ vmcs.fields.event = "ud" /\ vmcs.fields.cr4 = cpu.cr4
       /\ Paging(vmcs.fields.shadow) = Paging(vmcs.fields.cr4)
  BY <1>2, <1>6 DEF Evmcs, Fields
<1>11. Entered(regs, msr)
  <2>1. cpu.cr4 \in Cr4Values
    BY DEF IInv, TypeOK, Cpus
  <2> QED
    BY <1>3, <1>6, <1>7, <1>9, <1>10, <2>1 DEF Entered, Enter
<1>12. /\ IInv'
       /\ cpu' = [cpu EXCEPT !.regs = regs, !.cr4 = evmcs'.fields.cr4, !.msr = msr]
       /\ insn' = IF evmcs'.rip = 0 /\ evmcs'.fields.event = "none" THEN insn ELSE NoInsn
       /\ fault' = evmcs'.fields.event /\ mode' = "guest"
  BY <1>1, <1>11, EntryKeeps
<1>13. cpu' = cpu /\ insn' = NoInsn /\ fault' = "ud"
  BY <1>3, <1>4, <1>9, <1>10, <1>12 DEF IInv, TypeOK, Cpus
<1>14. Fault(insn, cpu) = "ud" /\ insn # NoInsn
  BY <1>1 DEF Fault, IInv, ExitOK
<1>15. Bare!RaiseFault
  BY <1>1, <1>12, <1>13, <1>14, SameArchitecture DEF Bare!RaiseFault, Bare!Busy, Bare!Retire
<1> QED
  BY <1>12, <1>15 DEF BareStep, Bare!BNext

(***************************************************************************)
(* MOV to CR4: the entry stays at the instruction, which has its effect,   *)
(* or a #GP takes its place.                                               *)
(***************************************************************************)
LEMMA MovToCr4Entry ==
  ASSUME IInv, Handling("mov_cr4"), NEW v, v = cpu.regs[insn.from][1], v # "reserved",
         NEW vmcs \in Evmcs, Honest(vmcs, loaded), vmcs.rip = 0,
         NEW event \in {"none", "gp"}, vmcs.fields = [evmcs.fields EXCEPT !.event = event],
         Enter(GuestState, MovToCr4(v, vmcs), cpu.msr)
  PROVE  IInv' /\ BareStep
<1>1. mode = "exit" /\ insn.op = "mov_cr4"
  BY DEF Handling
<1>2. /\ GuestState = [regs |-> cpu.regs, rip |-> 0] /\ cpu.regs \in Regs
      /\ evmcs \in Evmcs /\ evmcs.fields = loaded /\ loaded.rsp = cpu.regs.rsp
      /\ insn \in Insns /\ cpu.regs \in Operands(insn)
  BY <1>1, AtExit
<1>3. v \in Cr4Values /\ v \in Cr4Operands
  BY <1>1, <1>2, OperandsTypes DEF Cr4Operands
<1>4. PICK regs \in Regs : regs = cpu.regs
  BY <1>2
<1>5. PICK msr \in [Msrs -> MsrValues] : msr = cpu.msr
  BY <1>1, AtExit
<1>6. PICK after : after = MovToCr4(v, vmcs)
  OBVIOUS
<1>7. /\ after \in Evmcs /\ Honest(after, loaded) /\ after.rip = 0
      /\ after.fields = [vmcs.fields EXCEPT !.cr4 = v, !.shadow = v]
  BY <1>3, <1>6, MovToCr4IsHonest
<1>8. /\ after.fields.rsp = regs.rsp /\ after.fields.event = event
      /\ after.fields.cr4 = v /\ after.fields.shadow = v
  BY <1>2, <1>4, <1>7 DEF Evmcs, Fields
<1>9. evmcs' = after /\ Enter([regs |-> regs, rip |-> after.rip], after, msr)
  BY <1>2, <1>4, <1>5, <1>6, <1>7 DEF Enter
<1>10. Entered(regs, msr)
  BY <1>3, <1>4, <1>7, <1>8, <1>9 DEF Entered, Enter
<1>11. /\ IInv'
       /\ cpu' = [cpu EXCEPT !.regs = regs, !.cr4 = evmcs'.fields.cr4, !.msr = msr]
       /\ insn' = IF evmcs'.rip = 0 /\ evmcs'.fields.event = "none" THEN insn ELSE NoInsn
       /\ fault' = evmcs'.fields.event /\ mode' = "guest"
  BY <1>1, <1>10, EntryKeeps
<1>12. cpu' = Native(insn, cpu)
  <2>1. cpu' = [cpu EXCEPT !.cr4 = v]
    BY <1>4, <1>5, <1>8, <1>9, <1>11 DEF IInv, TypeOK, Cpus
  <2> QED
    BY <1>1, <2>1 DEF Native
<1>13. insn # NoInsn /\ Fault(insn, cpu) = "none"
  BY <1>1 DEF IInv, ExitOK, Fault
<1>14. CASE event = "none"
  <2>1. insn' = insn /\ fault' = "none"
    BY <1>7, <1>8, <1>9, <1>11, <1>14
  <2>2. fault = "none"
    BY <1>13 DEF IInv, OperandsOK
  <2>3. Bare!EarlyMovToCr4
    BY <1>1, <1>11, <1>12, <1>13, <2>1, <2>2, SameArchitecture
       DEF Bare!EarlyMovToCr4, Bare!Busy
  <2> QED
    BY <1>11, <2>3 DEF BareStep, Bare!BNext
<1>15. CASE event = "gp"
  <2>1. insn' = NoInsn /\ fault' = "gp"
    BY <1>7, <1>8, <1>9, <1>11, <1>15
  <2>2. Bare!FaultAfterMovToCr4
    BY <1>1, <1>11, <1>12, <1>13, <2>1, SameArchitecture
       DEF Bare!FaultAfterMovToCr4, Bare!Busy, Bare!Retire
  <2> QED
    BY <1>11, <2>2 DEF BareStep, Bare!BNext
<1> QED
  BY <1>14, <1>15

(***************************************************************************)
(* With a reserved bit the entry fails, and the guest stays as it is.      *)
(***************************************************************************)
LEMMA EntryFailsStep ==
  ASSUME IInv, mode \in {"exit", "failed"}, NEW vmcs \in Evmcs, EntryFails(vmcs)
  PROVE  IInv' /\ BareStep
<1>1. /\ mode' = "failed" /\ evmcs' = vmcs /\ loaded' = ReadAtEntry(vmcs)
      /\ UNCHANGED <<index, cpu, insn, fault, host_cr4>>
  BY DEF EntryFails
<1>2. loaded \in Fields /\ vmcs.fields \in Fields
  BY DEF IInv, TypeOK, Evmcs
<1>3. ReadAtEntry(vmcs) \in Fields
  BY <1>2 DEF ReadAtEntry, Fields
<1>4. IInv'
  BY <1>1, <1>3 DEF IInv, TypeOK, OperandsOK, ExitOK, NothingStale, ShadowAgrees
<1> QED
  BY <1>1, <1>4 DEF BareStep, Bare!bvars

LEMMA MovToCr4Step ==
  ASSUME IInv, OnMovToCr4 PROVE IInv' /\ BareStep
<1>1. mode = "exit" /\ Handling("mov_cr4")
  BY DEF OnMovToCr4, Handling
<1>2. /\ evmcs \in Evmcs /\ Honest(evmcs, loaded) /\ evmcs.rip = 0
      /\ GuestState.regs = cpu.regs /\ evmcs.fields = loaded /\ loaded.event = "none"
  <2>1. GuestState = [regs |-> cpu.regs, rip |-> 0]
    BY <1>1, AtExit
  <2> QED
    BY <1>1, <2>1, AtExit
<1>3. PICK v : v = cpu.regs[insn.from][1]
  OBVIOUS
<1>4. v \in Cr4Operands
  <2>1. insn \in Insns /\ insn.op = "mov_cr4" /\ cpu.regs \in Operands(insn)
    BY <1>1, AtExit DEF Handling
  <2> QED
    BY <1>3, <2>1, OperandsTypes
<1>5. ASSUME NEW event \in {"none", "gp"}, NEW vmcs \in Evmcs, Honest(vmcs, loaded), vmcs.rip = 0,
             vmcs.fields = [evmcs.fields EXCEPT !.event = event],
             EnterIfValid(GuestState, MovToCr4(v, vmcs), cpu.msr)
      PROVE  IInv' /\ BareStep
  <2>1. PICK after : after = MovToCr4(v, vmcs)
    OBVIOUS
  <2>2. /\ after \in Evmcs /\ Honest(after, loaded)
        /\ after.fields = [vmcs.fields EXCEPT !.cr4 = v, !.shadow = v]
    BY <1>4, <1>5, <2>1, MovToCr4IsHonest
  <2>3. ReadAtEntry(after).cr4 = v
    BY <2>2, ReadsWritten DEF Evmcs, Fields
  <2>4. \/ EntryFails(after)
        \/ v # "reserved" /\ Enter(GuestState, MovToCr4(v, vmcs), cpu.msr)
    BY <1>5, <2>1, <2>3 DEF EnterIfValid, Enter, EntryFails
  <2> QED
    BY <1>1, <1>3, <1>5, <2>2, <2>4, EntryFailsStep, MovToCr4Entry
<1>6. ASSUME EnterIfValid(GuestState, MovToCr4(v, evmcs), cpu.msr) PROVE IInv' /\ BareStep
  <2>1. PICK vmcs : vmcs = evmcs
    OBVIOUS
  <2>2. EnterIfValid(GuestState, MovToCr4(v, vmcs), cpu.msr)
    BY <1>6, <2>1 DEF EnterIfValid, Enter, EntryFails
  <2>3. vmcs.fields = [evmcs.fields EXCEPT !.event = "none"]
    BY <1>2, <2>1 DEF Evmcs, Fields
  <2> QED
    BY <1>2, <1>5, <2>1, <2>2, <2>3
<1>7. ASSUME EnterIfValid(GuestState, MovToCr4(v, Inject("gp", evmcs)), cpu.msr)
      PROVE  IInv' /\ BareStep
  <2>1. PICK vmcs : vmcs = Inject("gp", evmcs)
    OBVIOUS
  <2>2. /\ vmcs \in Evmcs /\ Honest(vmcs, loaded) /\ vmcs.rip = 0
        /\ vmcs.fields = [evmcs.fields EXCEPT !.event = "gp"]
    BY <1>2, <2>1, InjectIsHonest
  <2>3. EnterIfValid(GuestState, MovToCr4(v, vmcs), cpu.msr)
    BY <1>7, <2>1 DEF EnterIfValid, Enter, EntryFails
  <2> QED
    BY <1>5, <2>2, <2>3
<1>8. \/ Stop
      \/ EnterIfValid(GuestState, MovToCr4(v, evmcs), cpu.msr)
      \/ EnterIfValid(GuestState, MovToCr4(v, Inject("gp", evmcs)), cpu.msr)
  BY <1>2, <1>3 DEF OnMovToCr4, EnterIfValid, Enter, EntryFails
<1> QED
  BY <1>1, <1>6, <1>7, <1>8, StopStep

LEMMA EntryFailureStep ==
  ASSUME IInv, OnEntryFailure PROVE IInv' /\ BareStep
<1>1. mode = "failed"
  BY DEF OnEntryFailure
<1>2. CASE EntryFails(WriteBack(AdvanceRip(GuestState), evmcs))
  <2>1. PICK vmcs : vmcs = WriteBack(AdvanceRip(GuestState), evmcs)
    OBVIOUS
  <2>2. PICK rip \in 0 .. 2 : AdvanceRip(GuestState).rip = rip
    BY DEF AdvanceRip, GuestState
  <2>3. AdvanceRip(GuestState).regs.rsp = evmcs.fields.rsp
    BY DEF AdvanceRip, GuestState, IInv, TypeOK, Cpus, Registers
  <2>4. evmcs \in Evmcs
    BY DEF IInv, TypeOK
  <2>5. vmcs = [evmcs EXCEPT !.rip = rip]
    BY <2>1, <2>2, <2>3, <2>4 DEF WriteBack, Evmcs, Fields
  <2>6. vmcs \in Evmcs
    BY <2>4, <2>5 DEF Evmcs
  <2>7. EntryFails(vmcs)
    BY <1>2, <2>1 DEF EntryFails
  <2> QED
    BY <1>1, <2>6, <2>7, EntryFailsStep
<1> QED
  BY <1>1, <1>2, StopStep DEF OnEntryFailure

LEMMA OtherCrAccessStep ==
  ASSUME IInv, OnOtherCrAccess PROVE IInv' /\ BareStep
<1>1. mode = "exit"
  BY DEF OnOtherCrAccess, Handling
<1>2. CASE Enter(GuestState, evmcs, cpu.msr)
  <2>1. /\ GuestState = [regs |-> cpu.regs, rip |-> 0] /\ cpu.regs \in Regs
        /\ evmcs \in Evmcs /\ Honest(evmcs, loaded) /\ evmcs.fields = loaded
        /\ evmcs.rip = 0 /\ loaded.cr4 = cpu.cr4 /\ loaded.rsp = cpu.regs.rsp
        /\ loaded.event = "none" /\ Paging(loaded.shadow) = Paging(loaded.cr4)
    BY <1>1, AtExit
  <2>2. PICK regs \in Regs : regs = cpu.regs
    BY <2>1
  <2>3. PICK msr \in [Msrs -> MsrValues] : msr = cpu.msr
    BY <1>1, AtExit
  <2>4. evmcs' = evmcs /\ Enter([regs |-> regs, rip |-> evmcs'.rip], evmcs', msr)
    BY <1>2, <2>1, <2>2, <2>3 DEF Enter
  <2>5. Entered(regs, msr)
    BY <1>1, <2>1, <2>2, <2>4, AtExit DEF Entered
  <2>6. /\ IInv'
        /\ cpu' = [cpu EXCEPT !.regs = regs, !.cr4 = evmcs'.fields.cr4, !.msr = msr]
        /\ insn' = IF evmcs'.rip = 0 /\ evmcs'.fields.event = "none" THEN insn ELSE NoInsn
        /\ fault' = evmcs'.fields.event /\ mode' = "guest"
    BY <1>1, <2>5, EntryKeeps
  <2>7. cpu' = cpu /\ insn' = insn /\ fault' = fault
    BY <1>1, <2>1, <2>2, <2>3, <2>4, <2>6 DEF IInv, TypeOK, Cpus, OperandsOK, ExitOK
  <2> QED
    BY <1>1, <2>6, <2>7 DEF BareStep, Bare!bvars
<1> QED
  BY <1>1, <1>2, StopStep DEF OnOtherCrAccess

LEMMA TurnOffStep ==
  ASSUME IInv, SirenHypercallTurnOffVm PROVE IInv' /\ BareStep
<1>1. /\ mode = "exit" /\ insn.op = "vmcall" /\ insn.cpl = 0
      /\ cpu.regs.rax = <<"vhrs">> /\ cpu.regs.rbx = <<"1">>
  BY DEF SirenHypercallTurnOffVm, ForSiren, Handling
<1>2. AdvanceRip(GuestState) = [regs |-> cpu.regs, rip |-> 1]
  <2>1. GuestState = [regs |-> cpu.regs, rip |-> 0]
    BY <1>1, AtExit
  <2>2. AdvanceRip([regs |-> cpu.regs, rip |-> 0]) = [regs |-> cpu.regs, rip |-> 1]
    BY DEF AdvanceRip
  <2> QED
    BY <2>1, <2>2
<1>3. evmcs.context = cpu.context
  BY <1>1 DEF IInv, ExitOK
<1>4. /\ mode' = "native" /\ insn' = NoInsn /\ fault' = "none"
      /\ cpu' = [cpu EXCEPT !.regs = cpu.regs, !.cr4 = host_cr4, !.context = cpu.context]
      /\ UNCHANGED <<index, evmcs, loaded, host_cr4>>
  BY <1>2, <1>3 DEF SirenHypercallTurnOffVm, InsnAfterEntry
<1>5. cpu' = [cpu EXCEPT !.cr4 = host_cr4]
  BY <1>4 DEF IInv, TypeOK, Cpus
<1>6. IInv'
  BY <1>4, <1>5 DEF IInv, TypeOK, OperandsOK, ExitOK, NothingStale, ShadowAgrees, Cpus
<1>7. insn # NoInsn /\ host_cr4 \in Cr4Values
  BY <1>1 DEF IInv, TypeOK, ExitOK
<1>8. Bare!SirenOff
  BY <1>1, <1>4, <1>5, <1>7, SameArchitecture DEF Bare!SirenOff, Bare!ToSiren, Bare!Busy
<1> QED
  BY <1>6, <1>8 DEF BareStep, Bare!BNext
-----------------------------------------------------------------------------
(***************************************************************************)
(* The guest's own actions, and the two ways into siren.                   *)
(***************************************************************************)
LEMMA FetchStep ==
  ASSUME IInv, Fetch PROVE IInv' /\ BareStep
<1>1. PICK regs \in Operands(insn'), context \in Contexts :
        cpu' = [cpu EXCEPT !.regs = regs, !.context = context]
  BY DEF Fetch
<1>2. insn' \in Insns /\ insn = NoInsn /\ fault' = "none" /\ Running
      /\ UNCHANGED <<index, mode, evmcs, loaded, host_cr4>>
  BY DEF Fetch
<1>3. regs \in Regs
  BY <1>1, <1>2, OperandsTypes
<1>4. cpu' \in Cpus /\ cpu'.regs = regs /\ cpu'.cr4 = cpu.cr4
  BY <1>1, <1>3 DEF IInv, TypeOK, Cpus, Regs
<1>5. IInv'
  BY <1>1, <1>2, <1>4
     DEF IInv, TypeOK, OperandsOK, ExitOK, NothingStale, ShadowAgrees, Running
<1>6. Bare!Fetch
  BY <1>1, <1>2, SameArchitecture DEF Bare!Fetch, Running
<1> QED
  BY <1>5, <1>6 DEF BareStep, Bare!BNext

LEMMA Cr4WithItsBits ==
  ASSUME NEW v \in Cr4Values PROVE Cr4With(Paging(v), Other(v)) = v
<1>1. \A u \in Cr4Values : Paging(u) = Paging(v) /\ Other(u) = Other(v) => u = v
  BY DEF Cr4Values, Paging, Other
<1> QED
  BY <1>1 DEF Cr4With

LEMMA ExecuteStep ==
  ASSUME IInv, Execute PROVE IInv' /\ BareStep
<1>1. /\ Running /\ insn # NoInsn /\ insn \in Insns /\ cpu \in Cpus /\ Ready(insn, cpu)
      /\ insn' = NoInsn /\ UNCHANGED <<index, mode, evmcs, loaded, host_cr4>>
  <2>1. insn # NoInsn /\ insn \in Insns /\ cpu.regs \in Operands(insn) /\ cpu \in Cpus
    BY DEF Execute, IInv, TypeOK, OperandsOK
  <2>2. insn.op = "mov_cr4" => cpu.regs[insn.from][1] \in Cr4Operands
    BY <2>1, OperandsTypes
  <2> QED
    BY <2>1, <2>2 DEF Execute, Ready
<1>2. CASE Fault(insn, cpu) # "none"
  <2>1. cpu' = cpu /\ fault' = Fault(insn, cpu) /\ fault' \in {"ud", "gp"}
    BY <1>2 DEF Execute, Fault
  <2>2. IInv'
    BY <1>1, <2>1
       DEF IInv, TypeOK, OperandsOK, ExitOK, NothingStale, ShadowAgrees, Running
  <2>3. Bare!RaiseFault
    BY <1>1, <1>2, <2>1, SameArchitecture
       DEF Bare!RaiseFault, Bare!Busy, Bare!Retire, Running
  <2> QED
    BY <2>2, <2>3 DEF BareStep, Bare!BNext
<1>3. CASE Fault(insn, cpu) = "none"
  <2>1. fault' = "none" /\ cpu' = Effect
    BY <1>3 DEF Execute
  <2>2. Native(insn, cpu) \in Cpus
    BY <1>1, <1>3, NativeType
  <2>3. Effect = Native(insn, cpu)
    <3>1. CASE insn.op = "mov_cr4"
      <4>1. PICK v \in Cr4Values : v = cpu.regs[insn.from][1]
        BY <1>1, <1>3, <3>1 DEF Ready, Fault, Cr4Operands
      <4>2. CASE mode = "guest"
        <5>1. Paging(v) = Paging(loaded.shadow)
          BY <3>1, <4>1, <4>2 DEF Execute, Exits
        <5>2. Paging(loaded.shadow) = Paging(cpu.cr4)
          BY <4>2 DEF IInv, ShadowAgrees
        <5>3. Cr4With(Paging(cpu.cr4), Other(v)) = v
          BY <5>1, <5>2, Cr4WithItsBits
        <5> QED
          BY <3>1, <4>1, <4>2, <5>3 DEF Effect, Cr4AfterMov, Native
      <4>3. CASE mode # "guest"
        BY <3>1, <4>3 DEF Effect, Cr4AfterMov, Native
      <4> QED
        BY <4>2, <4>3
    <3> QED
      BY <3>1 DEF Effect
  <2>4. mode = "guest" => Paging(cpu'.cr4) = Paging(cpu.cr4)
    <3>1. CASE insn.op = "mov_cr4" /\ mode = "guest"
      <4>1. Paging(cpu.regs[insn.from][1]) = Paging(loaded.shadow)
        BY <3>1 DEF Execute, Exits
      <4>2. cpu'.cr4 = cpu.regs[insn.from][1]
        BY <1>1, <2>1, <2>3, <3>1 DEF Native, Cpus
      <4> QED
        BY <3>1, <4>1, <4>2 DEF IInv, ShadowAgrees
    <3>2. CASE insn.op # "mov_cr4"
      BY <1>1, <2>1, <2>3, <3>2 DEF Native, Insns, Cpus
    <3> QED
      BY <3>1, <3>2
  <2>5. IInv'
    BY <1>1, <2>1, <2>2, <2>3, <2>4
       DEF IInv, TypeOK, OperandsOK, ExitOK, NothingStale, ShadowAgrees, Running
  <2>6. ~Bare!AnsweredBySiren
    BY <1>1 DEF Execute, Exits, Bare!AnsweredBySiren, Running
  <2>7. Bare!Execute
    BY <1>1, <1>3, <2>1, <2>3, <2>6, SameArchitecture
       DEF Bare!Execute, Bare!Busy, Bare!Retire, Running
  <2> QED
    BY <2>5, <2>7 DEF BareStep, Bare!BNext
<1> QED
  BY <1>2, <1>3

LEMMA ExitStep ==
  ASSUME IInv, Exit PROVE IInv' /\ BareStep
<1>1. PICK clean \in CleanAtExit :
        evmcs' = [rip |-> 0, context |-> cpu.context, clean |-> clean,
                  fields |-> FieldsOf(cpu, loaded.shadow)]
  BY DEF Exit
<1>2. /\ mode = "guest" /\ mode' = "exit" /\ insn # NoInsn /\ loaded' = evmcs'.fields
      /\ UNCHANGED <<index, cpu, insn, fault, host_cr4>>
  BY DEF Exit
<1>3. cpu.regs.rsp \in Words /\ cpu.cr4 \in Cr4Values /\ cpu.context \in Contexts
  BY DEF IInv, TypeOK, Cpus, Registers
<1>4. evmcs'.fields = [rsp |-> cpu.regs.rsp, cr4 |-> cpu.cr4, shadow |-> loaded.shadow, event |-> "none"]
  BY <1>1 DEF FieldsOf
<1>5. evmcs' \in Evmcs /\ loaded' \in Fields
  BY <1>1, <1>2, <1>3, <1>4, CleanAssumption DEF IInv, TypeOK, Evmcs, Fields, Groups, FieldsOf, Cr4Operands
<1>6. TypeOK'
  BY <1>2, <1>5 DEF IInv, TypeOK
<1>7. OperandsOK' /\ ExitOK' /\ NothingStale' /\ ShadowAgrees'
  BY <1>1, <1>2, <1>4 DEF IInv, OperandsOK, ExitOK, NothingStale, ShadowAgrees
<1>8. UNCHANGED Bare!bvars
  BY <1>2 DEF Bare!bvars
<1> QED
  BY <1>6, <1>7, <1>8 DEF IInv, BareStep

LEMMA StartStep ==
  ASSUME IInv, Start PROVE IInv' /\ BareStep
<1>1. /\ mode = "native" /\ mode' = "guest" /\ insn = NoInsn
      /\ evmcs' = [rip |-> 0, context |-> cpu.context, clean |-> {},
                   fields |-> FieldsOf(cpu, cpu.cr4)]
      /\ loaded' = evmcs'.fields /\ host_cr4' = cpu.cr4
      /\ UNCHANGED <<index, cpu, insn, fault>>
  BY DEF Start, SetupGuest, SetupHost, Launch
<1>2. cpu.regs.rsp \in Words /\ cpu.cr4 \in Cr4Values /\ cpu.context \in Contexts
  BY DEF IInv, TypeOK, Cpus, Registers
<1>3. evmcs'.fields = [rsp |-> cpu.regs.rsp, cr4 |-> cpu.cr4, shadow |-> cpu.cr4, event |-> "none"]
  BY <1>1 DEF FieldsOf
<1>4. evmcs' \in Evmcs /\ loaded' \in Fields
  BY <1>1, <1>2, <1>3 DEF Evmcs, Fields, FieldsOf, Cr4Operands
<1>5. TypeOK'
  BY <1>1, <1>2, <1>4 DEF IInv, TypeOK
<1>6. OperandsOK' /\ ExitOK' /\ NothingStale' /\ ShadowAgrees'
  BY <1>1, <1>3 DEF IInv, OperandsOK, ExitOK, NothingStale, ShadowAgrees
<1>7. Bare!SirenOn
  BY <1>1, SameArchitecture DEF Bare!SirenOn
<1> QED
  BY <1>5, <1>6, <1>7 DEF IInv, BareStep, Bare!BNext

LEMMA StutterStep ==
  ASSUME IInv, UNCHANGED vars PROVE IInv' /\ BareStep
  BY DEF vars, IInv, TypeOK, OperandsOK, ExitOK, NothingStale, ShadowAgrees, BareStep, Bare!bvars

LEMMA NextStep ==
  ASSUME IInv, [Next]_vars PROVE IInv' /\ BareStep
<1>1. CASE Dispatch
  BY <1>1, CpuidStep, RdmsrStep, WrmsrStep, HltStep, OutsideRing0Step, MicrosoftHypercallStep,
     EchoStep, NotImplementedStep, TurnOffStep, MovToCr4Step, OtherCrAccessStep, UnknownExitStep,
     EntryFailureStep
     DEF Dispatch
<1>2. CASE Stopped
  BY <1>2, StutterStep DEF Stopped
<1> QED
  BY <1>1, <1>2, FetchStep, ExecuteStep, ExitStep, StartStep, StutterStep DEF Next

LEMMA InitStep ==
  ASSUME Init PROVE IInv /\ Bare!BInit
<1>1. cpu \in Cpus
  <2>1. <<"hi">> \in Words /\ <<"lo">> \in Words
    BY WordTypes DEF Names
  <2>2. cpu.msr \in [Msrs -> MsrValues]
    BY <2>1 DEF Init, MsrValues
  <2> QED
    BY <2>2, OwnType DEF Init, Cpus, Cr4Values, Contexts, Regs
<1>2. BlankFields \in Fields
  <2>1. <<>> \in Words
    BY DEF Words
  <2> QED
    BY <2>1 DEF BlankFields, Fields, Cr4Values, Cr4Operands
<1>3. evmcs \in Evmcs
  BY <1>2 DEF Init, Evmcs, Contexts
<1>4. IInv
  BY <1>1, <1>2, <1>3
     DEF Init, IInv, TypeOK, OperandsOK, ExitOK, NothingStale, ShadowAgrees, Cr4Values
<1>5. Bare!BInit
  BY <1>1, SameArchitecture DEF Init, Bare!BInit
<1> QED
  BY <1>4, <1>5
-----------------------------------------------------------------------------
(***************************************************************************)
(* The theorems.  The invariant is inductive (of every action of one       *)
(* virtual processor, mshv_virtual_cpu and mshv_vmexit_handler).           *)
(***************************************************************************)
THEOREM Invariance == Spec => []IInv
<1>1. Init => IInv
  BY InitStep
<1>2. IInv /\ [Next]_vars => IInv'
  BY NextStep
<1> QED
  BY <1>1, <1>2, PTL DEF Spec

(***************************************************************************)
(* The type invariant of the virtual processor (mshv_virtual_cpu).         *)
(***************************************************************************)
THEOREM TypeCorrect == Spec => []TypeOK
<1>1. IInv => TypeOK
  BY DEF IInv
<1> QED
  BY <1>1, Invariance, PTL

(***************************************************************************)
(* The guest always runs on what the handlers have written, whatever clean *)
(* bits the upper hypervisor sets (of mshv_clean_fields in dispatch,       *)
(* on_cr_access and the inject functions).                                 *)
(***************************************************************************)
THEOREM NothingIsEverStale == Spec => []NothingStale
<1>1. IInv => NothingStale
  BY DEF IInv
<1> QED
  BY <1>1, Invariance, PTL

(***************************************************************************)
(* The read shadow of CR4 always agrees with CR4 on the masked bits (of    *)
(* on_cr_access and evmcs_setup_controls_execution).                       *)
(***************************************************************************)
THEOREM ShadowAlwaysAgrees == Spec => []ShadowAgrees
<1>1. IInv => ShadowAgrees
  BY DEF IInv
<1> QED
  BY <1>1, Invariance, PTL

(***************************************************************************)
(* Behind siren the guest has the processor it had before, up to the       *)
(* differences BareCpu names (of dispatch, every handler, launch and       *)
(* turn_off_vm).                                                           *)
(***************************************************************************)
THEOREM VmExitImplementsBareCpu == Spec => ImplementsBareCpu
<1>1. Init => Bare!BInit
  BY InitStep
<1>2. IInv /\ [Next]_vars => [Bare!BNext]_(Bare!bvars)
  BY NextStep DEF BareStep
<1> QED
  BY <1>1, <1>2, Invariance, PTL DEF Spec, ImplementsBareCpu, Bare!BSpec
=============================================================================
