---------------------------- MODULE VmxControls ----------------------------
(***************************************************************************)
(* The VM-execution, VM-exit and VM-entry controls of                      *)
(* evmcs_setup_controls_execution, _exit and _entry.  A control word is    *)
(* the set of the controls that are 1.  The capability MSRs of the         *)
(* processor say of each word what has to be 1 (mask0) and what may be 1   *)
(* (mask1).                                                                *)
(***************************************************************************)
PinControls ==
  {"external_interrupt_exiting", "nmi_exiting", "virtual_nmis",
   "activate_vmx_preemption_timer", "process_posted_interrupts"}

PrimaryControls ==
  {"interrupt_window_exiting", "use_tsc_offsetting", "hlt_exiting", "invlpg_exiting",
   "mwait_exiting", "rdpmc_exiting", "rdtsc_exiting", "cr3_load_exiting",
   "cr3_store_exiting", "activate_tertiary_controls", "cr8_load_exiting",
   "cr8_store_exiting", "use_tpr_shadow", "nmi_window_exiting", "mov_dr_exiting",
   "unconditional_io_exiting", "use_io_bitmaps", "monitor_trap_flag", "use_msr_bitmaps",
   "monitor_exiting", "pause_exiting", "activate_secondary_controls"}

SecondaryControls ==
  {"virtualize_apic_accesses", "enable_ept", "descriptor_table_exiting", "enable_rdtscp",
   "virtualize_x2apic_mode", "enable_vpid", "wbinvd_exiting", "unrestricted_guest",
   "apic_register_virtualization", "virtual_interrupt_delivery", "pause_loop_exiting",
   "rdrand_exiting", "enable_invpcid", "enable_vm_functions", "vmcs_shadowing",
   "enable_encls_exiting", "rdseed_exiting", "enable_pml",
   "raise_ve_exception_when_ept_violation", "conceal_vmx_from_pt", "enable_xsave_xrstors",
   "mode_based_execute_control_for_ept", "sub_page_write_permissions_for_ept",
   "intel_pt_uses_guest_physical_addresses", "use_tsc_scaling",
   "enable_user_wait_and_pause", "enable_pconfig", "enable_enclv_exiting"}

ExitControls ==
  {"save_debug_controls", "host_address_space_size", "load_ia32_perf_global_ctrl",
   "acknowledge_interrupt_on_exit", "save_ia32_pat", "load_ia32_pat", "save_ia32_efer",
   "load_ia32_efer", "save_vmx_preemption_timer_value", "clear_ia32_bndcfgs",
   "conceal_vmx_from_pt", "clear_ia32_rtit_ctl", "clear_ia32_lbr_ctl", "load_cet_state",
   "load_pkrs", "save_ia32_perf_global_ctrl", "activate_secondary_controls"}

EntryControls ==
  {"load_debug_controls", "ia32e_mode_guest", "entry_to_smm",
   "deactivate_dual_monitor_treatment", "load_ia32_perf_global_ctrl", "load_ia32_pat",
   "load_ia32_efer", "load_ia32_bndcfgs", "conceal_vmx_from_pt", "load_ia32_rtit_ctl",
   "load_cet_state", "load_guest_ia32_lbr_ctl", "load_pkrs"}

AllControls ==
  UNION {PinControls, PrimaryControls, SecondaryControls, ExitControls, EntryControls}

Words == {"pin", "primary", "secondary", "exit", "entry"}

ControlWords ==
  [pin : SUBSET AllControls, primary : SUBSET AllControls, secondary : SUBSET AllControls,
   exit : SUBSET AllControls, entry : SUBSET AllControls]

NoControls == [pin |-> {}, primary |-> {}, secondary |-> {}, exit |-> {}, entry |-> {}]

(***************************************************************************)
(* What siren asks for.                                                    *)
(***************************************************************************)
WantedWithoutSave ==      \* mutant: save_debug_controls is not asked for
  [pin       |-> {},
   primary   |-> {"use_msr_bitmaps", "activate_secondary_controls"},
   secondary |-> {"enable_ept", "enable_rdtscp", "enable_invpcid", "conceal_vmx_from_pt",
                  "enable_xsave_xrstors", "intel_pt_uses_guest_physical_addresses"},
   exit      |-> {"host_address_space_size", "acknowledge_interrupt_on_exit"},
   entry     |-> {"load_debug_controls", "ia32e_mode_guest"}]

Wanted ==
  [pin       |-> {},
   primary   |-> {"use_msr_bitmaps", "activate_secondary_controls"},
   secondary |-> {"enable_ept", "enable_rdtscp", "enable_invpcid", "conceal_vmx_from_pt",
                  "enable_xsave_xrstors", "intel_pt_uses_guest_physical_addresses"},
   exit      |-> {"save_debug_controls", "host_address_space_size",
                  "acknowledge_interrupt_on_exit"},
   entry     |-> {"load_debug_controls", "ia32e_mode_guest"}]

(***************************************************************************)
(* The capability MSRs: IA32_VMX_BASIC, the MSRs every processor has, the  *)
(* IA32_VMX_TRUE_* ones, which count if a control of the default1 class    *)
(* can be 0, and IA32_VMX_PROCBASED_CTLS2, here in both (only the others   *)
(* come twice); of IA32_VMX_EPT_VPID_CAP the accessed and dirty flags.     *)
(***************************************************************************)
Masks == [mask0 : SUBSET AllControls, mask1 : SUBSET AllControls]

Capabilities ==
  [default1_controls_can_be_zero : BOOLEAN,
   plain : [Words -> Masks], true : [Words -> Masks],
   support_accessed_and_dirty_flags : BOOLEAN]

MasksOf(cap, word) ==
  IF cap.default1_controls_can_be_zero THEN cap.true[word] ELSE cap.plain[word]

Adjusted(cap, word) ==
  (Wanted[word] \union MasksOf(cap, word).mask0) \intersect MasksOf(cap, word).mask1

(***************************************************************************)
(* The secondary word goes through the masks, and to the VMCS, only if the *)
(* primary word activates it; else the local variable keeps what siren     *)
(* wants.  Tertiary controls are never wanted and never written.           *)
(***************************************************************************)
SecondaryOnIfForced(cap) ==      \* mutant: mask0 instead of the word
  "activate_secondary_controls" \in MasksOf(cap, "primary").mask0

SecondaryOn(cap) == "activate_secondary_controls" \in Adjusted(cap, "primary")

LocalSecondary(cap) ==
  IF SecondaryOn(cap) THEN Adjusted(cap, "secondary") ELSE Wanted["secondary"]

Controls(cap) ==
  [pin       |-> Adjusted(cap, "pin"),
   primary   |-> Adjusted(cap, "primary"),
   secondary |-> IF SecondaryOn(cap) THEN LocalSecondary(cap) ELSE {},
   exit      |-> Adjusted(cap, "exit"),
   entry     |-> Adjusted(cap, "entry")]

(***************************************************************************)
(* The fields a control makes the processor read.  The EPT pointer is for  *)
(* a write-back tree of four levels with accessed and dirty flags, which   *)
(* the code does not ask the processor for.                                *)
(***************************************************************************)
Unwritten == "0"
Pointers == [ept_pointer : {Unwritten, "top level table"}, vpid : {0, 1},
             msr_bitmap_address : {Unwritten, "msr bitmap"}]

PointersOf(cap) ==
  [msr_bitmap_address |-> IF "use_msr_bitmaps" \in Adjusted(cap, "primary")
                          THEN "msr bitmap" ELSE Unwritten,
   ept_pointer        |-> IF "enable_ept" \in LocalSecondary(cap)
                          THEN "top level table" ELSE Unwritten,
   vpid               |-> IF "enable_vpid" \in LocalSecondary(cap) THEN 1 ELSE 0]

(***************************************************************************)
(* External: the checks of a VM entry on the controls, and what the        *)
(* processor needs to run siren as it is meant.                            *)
(***************************************************************************)
Demanded(cap, word) ==
  (IF cap.default1_controls_can_be_zero THEN cap.true ELSE cap.plain)[word]

Allowed(cap, word, controls) ==
  /\ Demanded(cap, word).mask0 \subseteq controls[word]
  /\ controls[word] \subseteq Demanded(cap, word).mask1

ControlsValid(cap, controls, pointers) ==
  /\ \A word \in Words \ {"secondary"} : Allowed(cap, word, controls)
  /\ "host_address_space_size" \in controls.exit /\ "ia32e_mode_guest" \in controls.entry
  /\ "activate_secondary_controls" \in controls.primary =>
       /\ Allowed(cap, "secondary", controls)
       /\ "enable_ept" \in controls.secondary =>
            pointers.ept_pointer # Unwritten /\ cap.support_accessed_and_dirty_flags
       /\ "enable_vpid" \in controls.secondary => pointers.vpid # 0
       /\ "intel_pt_uses_guest_physical_addresses" \in controls.secondary =>
            /\ "enable_ept" \in controls.secondary
            /\ "load_ia32_rtit_ctl" \in controls.entry
            /\ "clear_ia32_rtit_ctl" \in controls.exit
  /\ "use_msr_bitmaps" \in controls.primary => pointers.msr_bitmap_address # Unwritten

(***************************************************************************)
(* A processor that can run siren: its masks agree with each other, it has *)
(* what a 64-bit host and guest on the extended page tables need, and no   *)
(* mask lets the guest's Intel PT output through them: siren asks for this *)
(* without the two controls that have to come with it.                     *)
(***************************************************************************)
Sufficient(cap) ==
  /\ \A word \in Words : Demanded(cap, word).mask0 \subseteq Demanded(cap, word).mask1
  /\ "host_address_space_size" \in Demanded(cap, "exit").mask1
  /\ {"ia32e_mode_guest", "load_debug_controls"} \subseteq Demanded(cap, "entry").mask1
  /\ "save_debug_controls" \in Demanded(cap, "exit").mask1
  /\ {"activate_secondary_controls", "use_msr_bitmaps"} \subseteq Demanded(cap, "primary").mask1
  /\ "enable_ept" \in Demanded(cap, "secondary").mask1
  /\ "intel_pt_uses_guest_physical_addresses" \notin Demanded(cap, "secondary").mask1
  /\ cap.support_accessed_and_dirty_flags
=============================================================================
