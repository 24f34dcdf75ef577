------------------------------ MODULE BareCpu ------------------------------
(***************************************************************************)
(* What siren promises the guest: the processor it had before, one that    *)
(* executes every instruction once and as the architecture says, with a    *)
(* short list of differences, each an action below: CPUID names another    *)
(* hypervisor, some hypercalls are answered by siren, an instruction siren *)
(* does not know is skipped, a MOV to CR4 may report a fault, and the      *)
(* system may stop in the debugger.  It promises no progress: of that      *)
(* InsnRetires of VmExit speaks.                                           *)
(***************************************************************************)
EXTENDS Instructions

VARIABLES
  cpu,           \* the processor state the guest sees
  insn,          \* the instruction at its RIP, or NoInsn between two
  fault,         \* the exception it gets before the next instruction
  siren,         \* siren is on
  up             \* the system runs

bvars == <<cpu, insn, fault, siren, up>>

BInit ==
  /\ cpu \in Cpus /\ insn = NoInsn /\ fault = "none"
  /\ siren = FALSE /\ up = TRUE

Retire(after, exception) ==
  /\ cpu' = after /\ insn' = NoInsn /\ fault' = exception
  /\ UNCHANGED <<siren, up>>

(***************************************************************************)
(* Whatever the guest does between two instructions of the list leaves it  *)
(* with the operands of the next one.                                      *)
(***************************************************************************)
Fetch ==
  /\ up /\ insn = NoInsn
  /\ insn' \in Insns
  /\ \E regs \in Operands(insn'), context \in Contexts :
       cpu' = [cpu EXCEPT !.regs = regs, !.context = context]
  /\ fault' = "none"
  /\ UNCHANGED <<siren, up>>

Busy == up /\ insn # NoInsn

AnsweredBySiren ==
  /\ siren
  /\ \/ insn.op = "cpuid" /\ cpu.regs.rax = <<"vendor leaf">>
     \/ insn.op = "vmcall" /\ cpu.regs.rax = <<"vhrs">>

Execute ==
  /\ Busy /\ Fault(insn, cpu) = "none" /\ ~AnsweredBySiren
  /\ Retire(Native(insn, cpu), "none")

RaiseFault == Busy /\ Fault(insn, cpu) # "none" /\ Retire(cpu, Fault(insn, cpu))

(***************************************************************************)
(* The vendor leaf of CPUID names siren.                                   *)
(***************************************************************************)
NameSiren ==
  /\ Busy /\ siren /\ insn.op = "cpuid" /\ cpu.regs.rax = <<"vendor leaf">>
  /\ Retire([cpu EXCEPT !.regs = [CpuidRegs(@) EXCEPT !.rbx = <<"eris">>, !.rcx = <<"vh-n">>,
                                                      !.rdx = <<"0">>]], "none")

(***************************************************************************)
(* Hypercalls to siren: 0 is an echo, 1 turns siren off and may undo what  *)
(* the guest has written to CR4, and there are no others.                  *)
(***************************************************************************)
ToSiren(function) ==
  /\ Busy /\ siren /\ insn.op = "vmcall" /\ insn.cpl = 0
  /\ cpu.regs.rax = <<"vhrs">> /\ cpu.regs.rbx = <<function>>

Echo == ToSiren("0") /\ Retire([cpu EXCEPT !.regs.rax = <<"srhv">>], "none")

NotImplemented ==
  /\ ToSiren("2")
  /\ Retire([cpu EXCEPT !.regs.rax = <<"not implemented">>], "none")

SirenOff ==
  /\ ToSiren("1")
  /\ \E v \in Cr4Values : cpu' = [cpu EXCEPT !.cr4 = v]
  /\ insn' = NoInsn /\ fault' = "none" /\ siren' = FALSE
  /\ UNCHANGED up

SirenOn == up /\ insn = NoInsn /\ ~siren /\ siren' = TRUE /\ UNCHANGED <<cpu, insn, fault, up>>

Skip == Busy /\ siren /\ insn.op = "xsetbv" /\ Retire(cpu, "none")

(***************************************************************************)
(* A MOV to CR4 may take effect before it retires, or end in a fault       *)
(* although it has taken effect.                                           *)
(***************************************************************************)
EarlyMovToCr4 ==
  /\ Busy /\ siren /\ insn.op = "mov_cr4" /\ Fault(insn, cpu) = "none"
  /\ cpu' = Native(insn, cpu) /\ UNCHANGED <<insn, fault, siren, up>>

FaultAfterMovToCr4 ==
  /\ Busy /\ siren /\ insn.op = "mov_cr4" /\ Fault(insn, cpu) = "none"
  /\ Retire(Native(insn, cpu), "gp")

Stop == up /\ siren /\ up' = FALSE /\ UNCHANGED <<cpu, insn, fault, siren>>

BNext ==
  \/ Fetch \/ Execute \/ RaiseFault
  \/ NameSiren \/ Echo \/ NotImplemented \/ SirenOff \/ SirenOn
  \/ Skip \/ EarlyMovToCr4 \/ FaultAfterMovToCr4 \/ Stop

BSpec == BInit /\ [][BNext]_bvars
=============================================================================
