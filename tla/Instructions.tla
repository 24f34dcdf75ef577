---------------------------- MODULE Instructions ----------------------------
(***************************************************************************)
(* The instructions that can reach mshv_vmexit_handler, and what they do   *)
(* on a processor without siren: the architecture and the upper hypervisor *)
(* (Hyper-V), against which the handlers are compared.                     *)
(*                                                                         *)
(* A register holds a word, a tuple of names: <<"rbx">> is whatever the    *)
(* guest had in rbx.  Only the registers an instruction or a handler reads *)
(* or writes have a name of their own; "rest" stands for the others.       *)
(***************************************************************************)
EXTENDS Naturals, Sequences

CONSTANT
  Msrs           \* the MSRs there are: one inside the two ranges of the MSR
                 \* bitmap, one outside (the synthetic MSRs of Hyper-V)

ASSUME MsrsAssumption == Msrs \subseteq {"ranged", "synthetic"}

Registers == {"rax", "rbx", "rcx", "rdx", "r8", "rsp", "xmm", "rest"}

Cr4Values == {"none", "paging", "other", "both"}
Cr4Operands == Cr4Values \union {"reserved"}

Names ==
  Registers \union Cr4Operands \union {"hi", "lo"}
    \union {"vendor leaf", "leaf", "cpuid", "a", "b", "c", "d", "eris", "vh-n"}
    \union {"ranged", "synthetic", "absent"}
    \union {"vhrs", "0", "1", "2", "srhv", "not implemented"}
    \union {"fast", "slow", "status of", "out"}

Words == Seq(Names)

Own == [r \in Registers |-> <<r>>]

(***************************************************************************)
(* A value of CR4 by two facts: whether the bits that change the paging    *)
(* mode (PSE, PAE, PGE) have the value "on", and whether any other does.   *)
(* An operand may also have bits that are reserved.                        *)
(***************************************************************************)
Paging(v) == v \in {"paging", "both", "reserved"}
Other(v) == v \in {"other", "both"}

Cr4With(paging, other) ==
  CHOOSE v \in Cr4Values : Paging(v) = paging /\ Other(v) = other

MsrValues == [hi : Words, lo : Words]

Contexts == {0, 1}   \* CR3, GDTR, IDTR and the FS and GS bases, as a whole

(***************************************************************************)
(* The processor state a guest sees.                                       *)
(***************************************************************************)
Cpus == [regs : [Registers -> Words], cr4 : Cr4Values, msr : [Msrs -> MsrValues],
         xcr0 : {0, 1}, context : Contexts]

NoInsn == [op |-> "none", cpl |-> 0, from |-> "rax"]

Insns ==
  [op : {"cpuid", "rdmsr", "wrmsr", "mov_cr3", "hlt", "xsetbv"}, cpl : {0}, from : {"rax"}]
    \union [op : {"mov_cr4"}, cpl : {0}, from : {"rcx", "rsp"}]
    \union [op : {"vmcall"}, cpl : {0, 3}, from : {"rax"}]

(***************************************************************************)
(* What the guest may have in its registers before an instruction.         *)
(***************************************************************************)
Operands(insn) ==
  CASE insn.op = "cpuid" ->
         {[Own EXCEPT !.rax = <<leaf>>] : leaf \in {"vendor leaf", "leaf"}}
    [] insn.op \in {"rdmsr", "wrmsr"} ->
         {[Own EXCEPT !.rcx = <<m>>] : m \in {"ranged", "synthetic", "absent"}}
    [] insn.op = "vmcall" ->
         {[Own EXCEPT !.rax = <<"vhrs">>, !.rbx = <<f>>] : f \in {"0", "1", "2"}}
           \union {[Own EXCEPT !.rcx = <<kind>>] : kind \in {"fast", "slow"}}
    [] insn.op = "mov_cr4" ->
         {[Own EXCEPT ![insn.from] = <<v>>] : v \in Cr4Operands}
    [] OTHER -> {Own}

(***************************************************************************)
(* Results of CPUID, of a hypercall and of reading an MSR.                 *)
(***************************************************************************)
CpuidRegs(regs) ==
  [regs EXCEPT !.rax = <<"cpuid", "a">>, !.rbx = <<"cpuid", "b">>,
               !.rcx = <<"cpuid", "c">>, !.rdx = <<"cpuid", "d">>]

HypercallStatus(input, rdx, r8) == <<"status of">> \o input \o rdx \o r8

HypercallRegs(regs) ==
  LET status == HypercallStatus(regs.rcx, regs.rdx, regs.r8)
  IN  IF regs.rcx = <<"fast">>
      THEN [regs EXCEPT !.rax = status, !.rdx = <<"out", "rdx">>, !.r8 = <<"out", "r8">>,
                        !.xmm = <<"out">> \o regs.xmm]
      ELSE [regs EXCEPT !.rax = status]

MsrOf(regs) == regs.rcx[1]

(***************************************************************************)
(* The exception an instruction raises, and otherwise what it does.        *)
(***************************************************************************)
Fault(insn, cpu) ==
  CASE insn.op = "vmcall" /\ insn.cpl # 0 -> "ud"
    [] insn.op \in {"rdmsr", "wrmsr"} /\ MsrOf(cpu.regs) \notin Msrs -> "gp"
    [] insn.op = "mov_cr4" /\ cpu.regs[insn.from][1] = "reserved" -> "gp"
    [] OTHER -> "none"

Native(insn, cpu) ==
  CASE insn.op = "cpuid" -> [cpu EXCEPT !.regs = CpuidRegs(@)]
    [] insn.op = "vmcall" -> [cpu EXCEPT !.regs = HypercallRegs(@)]
    [] insn.op = "rdmsr" ->
         [cpu EXCEPT !.regs.rax = cpu.msr[MsrOf(cpu.regs)].lo,
                     !.regs.rdx = cpu.msr[MsrOf(cpu.regs)].hi]
    [] insn.op = "wrmsr" ->
         [cpu EXCEPT !.msr[MsrOf(cpu.regs)] = [hi |-> cpu.regs.rdx, lo |-> cpu.regs.rax]]
    [] insn.op = "mov_cr4" -> [cpu EXCEPT !.cr4 = cpu.regs[insn.from][1]]
    [] insn.op = "mov_cr3" -> [cpu EXCEPT !.context = 1 - @]
    [] insn.op = "xsetbv" -> [cpu EXCEPT !.xcr0 = 1 - @]
    [] insn.op = "hlt" -> cpu
=============================================================================
