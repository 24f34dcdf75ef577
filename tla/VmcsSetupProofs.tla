-------------------------- MODULE VmcsSetupProofs --------------------------
(***************************************************************************)
(* For every processor, every set of processes and all descriptor tables:  *)
(* what start() puts into the VMCS lets the guest be entered, keeps it on  *)
(* siren's tables, and is what VM exits and turn_off_vm() need.            *)
(***************************************************************************)
EXTENDS VmcsSetup, TLAPS

(***************************************************************************)
(* The control words of a VMCS in use are those of Controls.               *)
(***************************************************************************)
ControlsInv ==
  /\ mode = "guest" => /\ vmcs.controls = Controls(cap) /\ vmcs.pointers = PointersOf(cap)
                       /\ ControlsValid(cap, vmcs.controls, vmcs.pointers)
  /\ Sufficient(cap) => mode # "stopped"

(***************************************************************************)
(* Selectors name descriptors; CS and TR never leave theirs.               *)
(***************************************************************************)
SelectorsInv ==
  /\ \A r \in SegmentRegisters :
       /\ selector[r].index \in DOMAIN Memory[Gdt]
       /\ selector[r].table_indicator = 1 => NamesSegment(Gdt, selector["LDTR"], selector[r])
  /\ ~IsNull(selector["TR"]) /\ NamesSystem(Gdt, selector["TR"])
  /\ IsNull(selector["LDTR"]) \/ NamesSystem(Gdt, selector["LDTR"])
  /\ selector["CS"].index # 0 /\ selector["CS"].table_indicator = 0

(***************************************************************************)
(* The hidden parts go with the selectors, but for the base of FS and GS.  *)
(***************************************************************************)
HiddenInv ==
  /\ \A r \in SegmentRegisters : hidden[r].usable = ~IsNull(selector[r])
  /\ hidden["TR"].base = SystemBase(Gdt, selector["TR"].index)
  /\ hidden["LDTR"].base =
       IF IsNull(selector["LDTR"]) THEN Zero ELSE SystemBase(Gdt, selector["LDTR"].index)
  /\ hidden["GS"].base # Pcr => IsNull(selector["GS"])

(***************************************************************************)
(* The host's selectors are those start() has found, without RPL.          *)
(***************************************************************************)
HostInv ==
  mode = "guest" =>
    /\ \A r \in SegmentRegisters : /\ vmcs.host.selector[r].table_indicator = 0
                                   /\ vmcs.host.selector[r].index \in DOMAIN Memory[Gdt]
    /\ \A r \in {"CS", "SS", "TR"} : vmcs.host.selector[r].index = selector[r].index
    /\ IsNull(vmcs.host.selector["LDTR"])
    /\ vmcs.host.base["TR"] = SystemBase(Gdt, vmcs.host.selector["TR"].index)
    /\ hidden["GS"].base # Pcr => IsNull(vmcs.host.selector["GS"])
    /\ HostFindsItsPcr

SetupInv ==
  /\ TypeOK /\ ControlsInv /\ SelectorsInv /\ HiddenInv /\ HostInv /\ BreakpointsSurvive
-----------------------------------------------------------------------------
(***************************************************************************)
(* A word that went through the masks is one the processor allows, as far  *)
(* as the masks agree with each other, and only has what was asked for and *)
(* what is demanded.                                                       *)
(***************************************************************************)
LEMMA AdjustedAllowed ==
  ASSUME NEW cp \in Capabilities, NEW word \in Words,
         Demanded(cp, word).mask0 \subseteq Demanded(cp, word).mask1
  PROVE  /\ Demanded(cp, word).mask0 \subseteq Adjusted(cp, word)
         /\ Adjusted(cp, word) \subseteq Demanded(cp, word).mask1
BY DEF Demanded, Adjusted, MasksOf

LEMMA AdjustedBounded ==
  ASSUME NEW cp \in Capabilities, NEW word \in Words
  PROVE  /\ Adjusted(cp, word) \subseteq Wanted[word] \union Demanded(cp, word).mask0
         /\ Wanted[word] \intersect Demanded(cp, word).mask1 \subseteq Adjusted(cp, word)
BY DEF Demanded, Adjusted, MasksOf

LEMMA ControlWordsOf ==
  ASSUME NEW cp
  PROVE  /\ Controls(cp)["pin"] = Adjusted(cp, "pin")
         /\ Controls(cp)["primary"] = Adjusted(cp, "primary")
         /\ Controls(cp)["secondary"] =
              IF SecondaryOn(cp) THEN Adjusted(cp, "secondary") ELSE {}
         /\ Controls(cp)["exit"] = Adjusted(cp, "exit")
         /\ Controls(cp)["entry"] = Adjusted(cp, "entry")
BY DEF Controls, LocalSecondary

LEMMA WantedWords ==
  /\ Wanted["pin"] = {}
  /\ Wanted["primary"] = {"use_msr_bitmaps", "activate_secondary_controls"}
  /\ Wanted["secondary"] =
       {"enable_ept", "enable_rdtscp", "enable_invpcid", "conceal_vmx_from_pt",
        "enable_xsave_xrstors", "intel_pt_uses_guest_physical_addresses"}
  /\ Wanted["exit"] = {"save_debug_controls", "host_address_space_size",
                       "acknowledge_interrupt_on_exit"}
  /\ Wanted["entry"] = {"load_debug_controls", "ia32e_mode_guest"}
BY DEF Wanted

LEMMA AdjustedTyped ==
  ASSUME NEW cp \in Capabilities, NEW word \in Words
  PROVE  Adjusted(cp, word) \subseteq AllControls
<1>1. MasksOf(cp, word) \in Masks
  BY DEF MasksOf, Capabilities
<1> QED
  BY <1>1 DEF Adjusted, Masks

LEMMA ControlsTyped ==
  ASSUME NEW cp \in Capabilities
  PROVE  Controls(cp) \in ControlWords /\ PointersOf(cp) \in Pointers
<1>1. \A word \in Words : Adjusted(cp, word) \subseteq AllControls
  BY AdjustedTyped
<1>2. Adjusted(cp, "pin") \subseteq AllControls /\ Adjusted(cp, "primary") \subseteq AllControls
      /\ Adjusted(cp, "secondary") \subseteq AllControls
      /\ Adjusted(cp, "exit") \subseteq AllControls /\ Adjusted(cp, "entry") \subseteq AllControls
  BY <1>1 DEF Words
<1>3. Controls(cp) \in ControlWords
  BY <1>2 DEF Controls, LocalSecondary, ControlWords
<1>4. PointersOf(cp) \in Pointers
  BY DEF PointersOf, Pointers
<1> QED
  BY <1>3, <1>4
(***************************************************************************)
(* A processor that can run siren: every wanted control it is asked for is *)
(* on, but for the one of Intel PT, and the entry's checks are passed.     *)
(***************************************************************************)
LEMMA SufficientControls ==
  ASSUME NEW cp \in Capabilities, Sufficient(cp)
  PROVE  /\ {"activate_secondary_controls", "use_msr_bitmaps"} \subseteq Adjusted(cp, "primary")
         /\ "enable_ept" \in Adjusted(cp, "secondary")
         /\ {"host_address_space_size", "save_debug_controls"} \subseteq Adjusted(cp, "exit")
         /\ {"ia32e_mode_guest", "load_debug_controls"} \subseteq Adjusted(cp, "entry")
         /\ "intel_pt_uses_guest_physical_addresses" \notin Adjusted(cp, "secondary")
<1>1. \A word \in Words : Wanted[word] \intersect Demanded(cp, word).mask1 \subseteq Adjusted(cp, word)
  BY AdjustedBounded
<1>2. \A word \in Words : Adjusted(cp, word) \subseteq Demanded(cp, word).mask1
  BY AdjustedAllowed DEF Sufficient
<1>3. {"activate_secondary_controls", "use_msr_bitmaps"} \subseteq Adjusted(cp, "primary")
  BY <1>1, WantedWords DEF Words, Sufficient
<1>4. "enable_ept" \in Adjusted(cp, "secondary")
  BY <1>1, WantedWords DEF Words, Sufficient
<1>5. {"host_address_space_size", "save_debug_controls"} \subseteq Adjusted(cp, "exit")
  BY <1>1, WantedWords DEF Words, Sufficient
<1>6. {"ia32e_mode_guest", "load_debug_controls"} \subseteq Adjusted(cp, "entry")
  BY <1>1, WantedWords DEF Words, Sufficient
<1>7. "intel_pt_uses_guest_physical_addresses" \notin Adjusted(cp, "secondary")
  BY <1>2 DEF Words, Sufficient
<1> QED
  BY <1>3, <1>4, <1>5, <1>6, <1>7

LEMMA SufficientTables ==
  ASSUME NEW cp \in Capabilities, Sufficient(cp)
  PROVE  /\ {"activate_secondary_controls", "use_msr_bitmaps"} \subseteq Controls(cp)["primary"]
         /\ "enable_ept" \in Controls(cp)["secondary"]
         /\ PointersOf(cp).ept_pointer = "top level table"
         /\ PointersOf(cp).msr_bitmap_address = "msr bitmap"
         /\ "enable_vpid" \in Controls(cp)["secondary"] => PointersOf(cp).vpid # 0
<1>1. SecondaryOn(cp)
  BY SufficientControls DEF SecondaryOn
<1>2. "enable_vpid" \in Controls(cp)["secondary"] => PointersOf(cp).vpid # 0
  BY <1>1, ControlWordsOf DEF LocalSecondary, PointersOf
<1> QED
  BY <1>1, <1>2, SufficientControls, ControlWordsOf DEF LocalSecondary, PointersOf

LEMMA SufficientValid ==
  ASSUME NEW cp \in Capabilities, Sufficient(cp)
  PROVE  ControlsValid(cp, Controls(cp), PointersOf(cp))
<1> DEFINE controls == Controls(cp)
           pointers == PointersOf(cp)
<1>1. SecondaryOn(cp)
  BY SufficientControls DEF SecondaryOn
<1>2. \A word \in Words : /\ Demanded(cp, word).mask0 \subseteq Adjusted(cp, word)
                          /\ Adjusted(cp, word) \subseteq Demanded(cp, word).mask1
  BY AdjustedAllowed DEF Sufficient
<1>3. /\ Allowed(cp, "pin", controls) /\ Allowed(cp, "primary", controls)
      /\ Allowed(cp, "secondary", controls) /\ Allowed(cp, "exit", controls)
      /\ Allowed(cp, "entry", controls)
  BY <1>1, <1>2, ControlWordsOf DEF Allowed, Words
<1>4. \A word \in Words \ {"secondary"} : Allowed(cp, word, controls)
  BY <1>3 DEF Words
<1>5. /\ controls.exit = Adjusted(cp, "exit") /\ controls.entry = Adjusted(cp, "entry")
      /\ controls.primary = Adjusted(cp, "primary")
      /\ controls.secondary = Adjusted(cp, "secondary")
  BY <1>1, ControlWordsOf DEF Controls, LocalSecondary
<1>6. "enable_vpid" \in controls.secondary => pointers.vpid # 0
  BY <1>1, <1>5 DEF PointersOf, LocalSecondary
<1>7. pointers.ept_pointer # Unwritten /\ pointers.msr_bitmap_address # Unwritten
  BY SufficientTables DEF Unwritten
<1>8. cp.support_accessed_and_dirty_flags
  BY DEF Sufficient
<1>9. /\ "host_address_space_size" \in controls.exit /\ "ia32e_mode_guest" \in controls.entry
      /\ "intel_pt_uses_guest_physical_addresses" \notin controls.secondary
  BY <1>5, SufficientControls
<1> HIDE DEF controls, pointers
<1>10. ControlsValid(cp, controls, pointers)
  BY <1>3, <1>4, <1>6, <1>7, <1>8, <1>9 DEF ControlsValid
<1> QED
  BY <1>10 DEF controls, pointers
-----------------------------------------------------------------------------
(***************************************************************************)
(* What start() makes of the segment and control registers passes the      *)
(* checks of VMXON and of a VM entry.                                      *)
(***************************************************************************)
LEMMA FixedBitsSatisfied ==
  ASSUME NEW bits, NEW word, NEW fixed \in Fixed(bits), fixed.zero \subseteq fixed.one
  PROVE  Satisfies(WithFixedBits(word, fixed), fixed)
BY DEF Satisfies, WithFixedBits, Fixed

LEMMA HostSelectorOf ==
  ASSUME NEW s \in Selectors
  PROVE  /\ HostSelector(s) \in Selectors
         /\ HostSelector(s).index = s.index
         /\ HostSelector(s).table_indicator = 0 /\ HostSelector(s).rpl = 0
BY DEF HostSelector, Selectors

LEMMA SystemBaseTyped ==
  ASSUME NEW s, NamesSystem(Gdt, s)
  PROVE  SystemBase(Gdt, s.index) \in Addresses
BY GdtAssumption, MemoryAssumption DEF NamesSystem, SystemBase, Addresses

LEMMA SegmentBaseTyped ==
  ASSUME NEW ldtr, NEW s, s.index \in DOMAIN Memory[Gdt], s.table_indicator \in {0, 1},
         s.table_indicator = 1 => NamesSegment(Gdt, ldtr, s)
  PROVE  Base(TableOf(Gdt, ldtr, s), s.index) \in Addresses
<1>1. TableOf(Gdt, ldtr, s) \in Tables /\ s.index \in DOMAIN Memory[TableOf(Gdt, ldtr, s)]
  BY GdtAssumption DEF TableOf, NamesSegment
<1>2. Memory[TableOf(Gdt, ldtr, s)][s.index] \in Halves
  BY <1>1, MemoryAssumption
<1> QED
  BY <1>2, HalvesAssumption DEF Base, Addresses
-----------------------------------------------------------------------------
LEMMA InitSetupInv == Init => SetupInv
<1> SUFFICES ASSUME Init PROVE SetupInv
  OBVIOUS
<1>1. /\ \A r \in SegmentRegisters : /\ selector[r] \in Loadable[r] /\ selector[r] \in Selectors
                                     /\ selector[r].index \in DOMAIN Memory[Gdt]
                                     /\ selector[r].table_indicator = 0
      /\ selector \in [SegmentRegisters -> Selectors]
  BY LoadableAssumption, CapsAssumption DEF Init
<1>2. SelectorsInv
  <2>1. {"CS", "TR", "LDTR"} \subseteq SegmentRegisters
    BY DEF SegmentRegisters
  <2>2. /\ selector["TR"] \in Loadable["TR"] /\ selector["LDTR"] \in Loadable["LDTR"]
        /\ selector["CS"] \in Loadable["CS"]
    BY <1>1, <2>1
  <2> QED
    BY <1>1, <2>2, LoadableAssumption DEF SelectorsInv
<1>3. \A r \in SegmentRegisters :
        /\ KernelHidden(r, selector[r], selector["LDTR"]) \in Hidden
        /\ KernelHidden(r, selector[r], selector["LDTR"]).usable = ~IsNull(selector[r])
  <2> SUFFICES ASSUME NEW r \in SegmentRegisters
               PROVE  /\ KernelHidden(r, selector[r], selector["LDTR"]) \in Hidden
                      /\ KernelHidden(r, selector[r], selector["LDTR"]).usable = ~IsNull(selector[r])
    OBVIOUS
  <2>1. Base(TableOf(Gdt, selector["LDTR"], selector[r]), selector[r].index) \in Addresses
    BY <1>1, <1>2, SegmentBaseTyped DEF SelectorsInv
  <2>2. ~IsNull(selector[r]) /\ r \in {"LDTR", "TR"} => SystemBase(Gdt, selector[r].index) \in Addresses
    BY <1>2, SystemBaseTyped DEF SelectorsInv
  <2>3. Zero \in Addresses /\ Pcr \in Addresses
    BY HalvesAssumption, BasesAssumption DEF Zero, Addresses
  <2> QED
    BY <2>1, <2>2, <2>3 DEF KernelHidden, LoadedHidden, NoSegment, Hidden
<1>4. hidden \in [SegmentRegisters -> Hidden] /\ HiddenInv
  BY <1>3, <1>2 DEF Init, HiddenInv, SegmentRegisters, SelectorsInv, KernelHidden, LoadedHidden, NoSegment
<1>5. vmcs \in Vmcs
  <2>1. vmcs.host \in Host
    BY SystemAssumption, HalvesAssumption
    DEF Init, BlankHost, Host, NullSelector, Selectors, Zero, Addresses
  <2> QED
    BY <2>1 DEF Init, Vmcs, NoControls, ControlWords, Pointers, Unwritten
<1>6. TypeOK
  BY <1>1, <1>4, <1>5, CapsAssumption, CrAssumption, SystemAssumption DEF Init, TypeOK
<1> QED
  BY <1>2, <1>4, <1>6, SystemAssumption
  DEF Init, SetupInv, ControlsInv, HostInv, BreakpointsSurvive
-----------------------------------------------------------------------------
(***************************************************************************)
(* A segment register loaded by the operating system: none of CS, SS, TR,  *)
(* and no LDT is given up that a selector is of.                           *)
(***************************************************************************)
LEMMA LoadSegmentKeeps ==
  ASSUME SetupInv, NEW r \in SegmentRegisters, NEW s \in Loadable[r], LoadSegment(r, s)
  PROVE  SetupInv'
<1>1. s \in Selectors /\ s.index \in DOMAIN Memory[Gdt] /\ s.table_indicator \in {0, 1}
  BY LoadableAssumption DEF Selectors
<1>2. r \in {"DS", "FS", "GS", "LDTR"}
  BY DEF LoadSegment
<1>3. selector' = [selector EXCEPT ![r] = s] /\ selector \in [SegmentRegisters -> Selectors]
  BY DEF LoadSegment, SetupInv, TypeOK
<1>4. /\ \A q \in SegmentRegisters \ {r} : selector'[q] = selector[q]
      /\ selector'[r] = s /\ selector' \in [SegmentRegisters -> Selectors]
  BY <1>1, <1>3
<1>5. {"CS", "SS", "TR", "LDTR", "GS"} \subseteq SegmentRegisters
  BY DEF SegmentRegisters
<1>6. r = "LDTR" => IsNull(s) \/ NamesSystem(Gdt, s)
  BY LoadableAssumption
<1>7. r # "LDTR" => IsNull(s) \/ NamesSegment(Gdt, selector["LDTR"], s)
  BY DEF LoadSegment
<1>8. \A q \in SegmentRegisters :
        selector'[q].table_indicator = 1 => NamesSegment(Gdt, selector'["LDTR"], selector'[q])
  <2> SUFFICES ASSUME NEW q \in SegmentRegisters, selector'[q].table_indicator = 1
               PROVE  NamesSegment(Gdt, selector'["LDTR"], selector'[q])
    OBVIOUS
  <2>1. CASE r = "LDTR"
    <3>1. \A p \in SegmentRegisters : selector[p].table_indicator = 0
      BY <2>1 DEF LoadSegment
    <3>2. s.table_indicator = 0
      BY <1>6, <2>1 DEF IsNull, NamesSystem
    <3> QED
      BY <1>4, <3>1, <3>2
  <2>2. CASE r # "LDTR"
    <3>1. selector'["LDTR"] = selector["LDTR"]
      BY <1>4, <1>5, <2>2
    <3>2. CASE q = r
      BY <1>4, <1>7, <2>2, <3>1, <3>2 DEF IsNull
    <3>3. CASE q # r
      BY <1>4, <3>1, <3>3 DEF SetupInv, SelectorsInv
    <3> QED
      BY <3>2, <3>3
  <2> QED
    BY <2>1, <2>2
<1>9. /\ selector'["CS"] = selector["CS"] /\ selector'["SS"] = selector["SS"]
      /\ selector'["TR"] = selector["TR"]
      /\ selector'["LDTR"] = IF r = "LDTR" THEN s ELSE selector["LDTR"]
  BY <1>2, <1>4, <1>5
<1>10. SelectorsInv'
  <2>1. \A q \in SegmentRegisters : selector'[q].index \in DOMAIN Memory[Gdt]
    BY <1>1, <1>4 DEF SetupInv, SelectorsInv
  <2> QED
    BY <1>6, <1>8, <1>9, <2>1 DEF SetupInv, SelectorsInv
<1>11. /\ KernelHidden(r, s, selector["LDTR"]) \in Hidden
       /\ KernelHidden(r, s, selector["LDTR"]).usable = ~IsNull(s)
  <2>1. ~IsNull(s) /\ r # "LDTR" => Base(TableOf(Gdt, selector["LDTR"], s), s.index) \in Addresses
    BY <1>1, <1>7, SegmentBaseTyped
  <2>2. ~IsNull(s) /\ r = "LDTR" => SystemBase(Gdt, s.index) \in Addresses
    BY <1>6, SystemBaseTyped
  <2>3. Zero \in Addresses /\ Pcr \in Addresses
    BY HalvesAssumption, BasesAssumption DEF Zero, Addresses
  <2> QED
    BY <1>2, <2>1, <2>2, <2>3 DEF KernelHidden, LoadedHidden, NoSegment, Hidden
<1>12. /\ \A q \in SegmentRegisters \ {r} : hidden'[q] = hidden[q]
       /\ hidden'[r] = KernelHidden(r, s, selector["LDTR"])
       /\ hidden' \in [SegmentRegisters -> Hidden]
  BY <1>11 DEF LoadSegment, SetupInv, TypeOK
<1>13. r = "GS" => hidden'["GS"].base = Pcr
  BY <1>12 DEF KernelHidden, LoadedHidden, NoSegment
<1>14. HiddenInv'
  <2>1. \A q \in SegmentRegisters : hidden'[q].usable = ~IsNull(selector'[q])
    BY <1>4, <1>11, <1>12 DEF SetupInv, HiddenInv
  <2>2. hidden'["TR"] = hidden["TR"]
    BY <1>2, <1>5, <1>12
  <2>3. r = "LDTR" =>
          hidden'["LDTR"].base = IF IsNull(s) THEN Zero ELSE SystemBase(Gdt, s.index)
    BY <1>12 DEF KernelHidden, LoadedHidden, NoSegment
  <2>4. r # "LDTR" => hidden'["LDTR"] = hidden["LDTR"]
    BY <1>5, <1>12
  <2>5. r # "GS" => hidden'["GS"] = hidden["GS"] /\ selector'["GS"] = selector["GS"]
    BY <1>4, <1>5, <1>12
  <2> QED
    BY <1>9, <1>13, <2>1, <2>2, <2>3, <2>4, <2>5 DEF SetupInv, HiddenInv
<1>15. HostInv'
  <2>1. r # "GS" => hidden'["GS"] = hidden["GS"]
    BY <1>5, <1>12
  <2>2. UNCHANGED <<mode, vmcs>>
    BY DEF LoadSegment
  <2> QED
    BY <1>9, <1>13, <2>1, <2>2 DEF SetupInv, HostInv, HostFindsItsPcr
<1>16. TypeOK'
  BY <1>4, <1>12 DEF LoadSegment, SetupInv, TypeOK
<1> QED
  BY <1>10, <1>14, <1>15, <1>16
  DEF LoadSegment, SetupInv, ControlsInv, BreakpointsSurvive

(***************************************************************************)
(* The rest of what the operating system does.                             *)
(***************************************************************************)
LEMMA OsKeeps ==
  ASSUME SetupInv,
         \/ \E base \in FsBases : WriteFsBase(base)
         \/ WriteDebug
         \/ \E p \in Processes : SwitchProcess(p) \/ ProcessEnds(p)
  PROVE  SetupInv'
<1>1. CASE \E base \in FsBases : WriteFsBase(base)
  <2>1. PICK base \in FsBases : WriteFsBase(base)
    BY <1>1
  <2>2. base \in Addresses /\ "FS" \in SegmentRegisters
    BY BasesAssumption DEF SegmentRegisters
  <2>3. /\ hidden' \in [SegmentRegisters -> Hidden]
        /\ \A q \in SegmentRegisters : hidden'[q].usable = hidden[q].usable
        /\ \A q \in SegmentRegisters \ {"FS"} : hidden'[q] = hidden[q]
    BY <2>1, <2>2 DEF WriteFsBase, SetupInv, TypeOK, Hidden
  <2>4. hidden'["TR"] = hidden["TR"] /\ hidden'["LDTR"] = hidden["LDTR"] /\ hidden'["GS"] = hidden["GS"]
    BY <2>3 DEF SegmentRegisters
  <2>5. HiddenInv'
    BY <2>1, <2>3, <2>4 DEF WriteFsBase, SetupInv, HiddenInv
  <2>6. HostInv'
    BY <2>1, <2>4 DEF WriteFsBase, SetupInv, HostInv, HostFindsItsPcr
  <2>7. TypeOK'
    BY <2>1, <2>3 DEF WriteFsBase, SetupInv, TypeOK
  <2> QED
    BY <2>1, <2>5, <2>6, <2>7
    DEF WriteFsBase, SetupInv, ControlsInv, SelectorsInv, BreakpointsSurvive
<1>2. CASE WriteDebug
  <2>1. TypeOK'
    BY <1>2 DEF WriteDebug, SetupInv, TypeOK
  <2> QED
    BY <1>2, <2>1
    DEF WriteDebug, SetupInv, ControlsInv, SelectorsInv, HiddenInv, HostInv, HostFindsItsPcr, BreakpointsSurvive
<1>3. CASE \E p \in Processes : SwitchProcess(p) \/ ProcessEnds(p)
  <2>1. PICK p \in Processes : SwitchProcess(p) \/ ProcessEnds(p)
    BY <1>3
  <2>2. /\ UNCHANGED <<cap, mode, cr0, cr4, debug, breakpoints, selector, hidden, vmcs>>
        /\ cr3' \in alive' /\ alive' \in SUBSET Processes
    BY <2>1 DEF SwitchProcess, ProcessEnds, SetupInv, TypeOK
  <2> QED
    BY <2>2
    DEF SetupInv, TypeOK, ControlsInv, SelectorsInv, HiddenInv, HostInv, HostFindsItsPcr, BreakpointsSurvive
<1> QED
  BY <1>1, <1>2, <1>3

(***************************************************************************)
(* What start() writes and loads has its types and passes the checks.      *)
(***************************************************************************)
LEMMA SetupSegmentTyped ==
  ASSUME SetupInv, NEW r \in SegmentRegisters
  PROVE  SetupSegment(r) \in Hidden /\ SetupSegment(r).usable = ~IsNull(selector[r])
<1>1. /\ selector[r].index \in DOMAIN Memory[Gdt] /\ selector[r].table_indicator \in {0, 1}
      /\ selector[r].table_indicator = 1 => NamesSegment(Gdt, selector["LDTR"], selector[r])
  BY DEF SetupInv, SelectorsInv, TypeOK, Selectors
<1>2. Base(TableOf(Gdt, selector["LDTR"], selector[r]), selector[r].index) \in Addresses
  BY <1>1, SegmentBaseTyped
<1>3. ~IsNull(selector[r]) /\ r \in {"LDTR", "TR"} => SystemBase(Gdt, selector[r].index) \in Addresses
  BY SystemBaseTyped DEF SetupInv, SelectorsInv
<1>4. hidden[r].base \in Addresses /\ Zero \in Addresses
  BY HalvesAssumption DEF SetupInv, TypeOK, Hidden, Zero, Addresses
<1>5. ~IsNull(selector[r]) => SegmentBase(r) \in Addresses
  BY <1>2, <1>3, <1>4 DEF SegmentBase
<1> QED
  BY <1>4, <1>5 DEF SetupSegment, NoSegment, Hidden

LEMMA SetupHostValid ==
  ASSUME SetupInv
  PROVE  /\ SetupHost \in Host /\ HostValid(SetupHost)
         /\ \A r \in SegmentRegisters \ {"LDTR"} :
              SetupHost.selector[r].index = selector[r].index
         /\ \A r \in SegmentRegisters : SetupHost.selector[r].table_indicator = 0
         /\ SetupHost.selector["LDTR"] = NullSelector
         /\ SetupHost.base["TR"] = SystemBase(Gdt, selector["TR"].index)
         /\ SetupHost.base["GS"] = SetupSegment("GS").base
         /\ SetupHost.cr3 = cr3
<1>1. /\ Satisfies(WithFixedBits(cr0, Cr0Fixed), Cr0Fixed)
      /\ Satisfies(WithFixedBits(cr4, Cr4Fixed), Cr4Fixed)
  BY FixedBitsSatisfied, FixedAssumption
<1>2. WithFixedBits(cr0, Cr0Fixed) \in SUBSET Cr0Bits /\ WithFixedBits(cr4, Cr4Fixed) \in SUBSET Cr4Bits
  BY FixedAssumption DEF WithFixedBits, Fixed
<1>3. /\ {"CS", "TR", "GS", "FS"} \subseteq SegmentRegisters \ {"LDTR"} /\ "LDTR" \in SegmentRegisters
  BY DEF SegmentRegisters
<1>4. \A r \in SegmentRegisters :
        /\ SetupHost.selector[r] \in Selectors
        /\ SetupHost.selector[r].table_indicator = 0 /\ SetupHost.selector[r].rpl = 0
        /\ r # "LDTR" => SetupHost.selector[r].index = selector[r].index
        /\ r = "LDTR" => SetupHost.selector[r] = NullSelector
  <2> SUFFICES ASSUME NEW r \in SegmentRegisters
               PROVE  /\ SetupHost.selector[r] \in Selectors
                      /\ SetupHost.selector[r].table_indicator = 0 /\ SetupHost.selector[r].rpl = 0
                      /\ r # "LDTR" => SetupHost.selector[r].index = selector[r].index
                      /\ r = "LDTR" => SetupHost.selector[r] = NullSelector
    OBVIOUS
  <2>1. SetupHost.selector[r] = IF r = "LDTR" THEN NullSelector ELSE HostSelector(selector[r])
    BY DEF SetupHost
  <2>2. selector[r] \in Selectors
    BY DEF SetupInv, TypeOK
  <2>3. NullSelector \in Selectors /\ NullSelector.table_indicator = 0 /\ NullSelector.rpl = 0
    BY DEF NullSelector, Selectors
  <2> QED
    BY <2>1, <2>2, <2>3, HostSelectorOf
<1>5. SetupHost.selector \in [SegmentRegisters -> Selectors]
  <2>1. SetupHost.selector = [r \in SegmentRegisters |->
                                IF r = "LDTR" THEN NullSelector ELSE HostSelector(selector[r])]
    BY DEF SetupHost
  <2> QED
    BY <1>4, <2>1
<1>6. SetupHost.base = [r \in {"FS", "GS", "TR"} |-> SetupSegment(r).base]
  BY DEF SetupHost
<1>7. SetupHost.base \in [{"FS", "GS", "TR"} -> Addresses]
  BY <1>3, <1>6, SetupSegmentTyped DEF Hidden
<1>8. SetupHost.cr0 = WithFixedBits(cr0, Cr0Fixed) /\ SetupHost.cr4 = WithFixedBits(cr4, Cr4Fixed)
      /\ SetupHost.cr3 = cr3
  BY DEF SetupHost
<1>9. SetupHost \in Host
  <2>1. cr3 \in Processes
    BY DEF SetupInv, TypeOK
  <2>2. SetupHost = [cr0 |-> SetupHost.cr0, cr4 |-> SetupHost.cr4, cr3 |-> SetupHost.cr3,
                     selector |-> SetupHost.selector, base |-> SetupHost.base]
    BY DEF SetupHost
  <2> QED
    BY <1>2, <1>5, <1>7, <1>8, <2>1, <2>2 DEF Host
<1>10. SetupSegment("TR").base = SystemBase(Gdt, selector["TR"].index)
  BY DEF SetupSegment, SegmentBase, SetupInv, SelectorsInv
<1>11. ~IsNull(SetupHost.selector["CS"]) /\ ~IsNull(SetupHost.selector["TR"])
  BY <1>3, <1>4 DEF SetupInv, SelectorsInv, IsNull, NamesSystem
<1>12. HostValid(SetupHost)
  BY <1>1, <1>4, <1>8, <1>11 DEF HostValid
<1> QED
  BY <1>3, <1>4, <1>6, <1>8, <1>9, <1>10, <1>12

LEMMA StartKeeps ==
  ASSUME SetupInv, NEW initiates \in BOOLEAN, Start(initiates)
  PROVE  SetupInv'
<1> DEFINE segments == [r \in SegmentRegisters |-> SetupSegment(r)]
           valid == /\ ControlsValid(cap, Controls(cap), PointersOf(cap))
                    /\ GuestValid(segments, WithFixedBits(cr0, Cr0Fixed), WithFixedBits(cr4, Cr4Fixed))
                    /\ HostValid(SetupHost)
<1>1. /\ mode' = IF valid THEN "guest" ELSE "stopped"
      /\ hidden' = IF valid THEN segments ELSE hidden
      /\ vmcs' = [guest_debug |-> debug, host |-> SetupHost,
                  controls |-> Controls(cap), pointers |-> PointersOf(cap)]
      /\ cr0' = WithFixedBits(cr0, Cr0Fixed) /\ cr4' = WithFixedBits(cr4, Cr4Fixed)
      /\ UNCHANGED <<cap, cr3, alive, debug, breakpoints, selector>>
  BY DEF Start, AfterLaunch
<1>2. cap \in Capabilities
  BY CapsAssumption DEF SetupInv, TypeOK
<1>3. /\ vmcs'.host = SetupHost /\ vmcs'.controls = Controls(cap)
      /\ vmcs'.pointers = PointersOf(cap) /\ vmcs'.guest_debug = debug
  BY <1>1
<1>4. GuestValid(segments, WithFixedBits(cr0, Cr0Fixed), WithFixedBits(cr4, Cr4Fixed))
  <2>1. "CS" \in SegmentRegisters /\ "TR" \in SegmentRegisters
    BY DEF SegmentRegisters
  <2>2. segments["CS"].usable /\ segments["TR"].usable
    BY <2>1, SetupSegmentTyped DEF SetupInv, SelectorsInv, IsNull
  <2>3. /\ Satisfies(WithFixedBits(cr0, Cr0Fixed), Cr0Fixed)
        /\ Satisfies(WithFixedBits(cr4, Cr4Fixed), Cr4Fixed)
    BY FixedBitsSatisfied, FixedAssumption
  <2> QED
    BY <2>2, <2>3 DEF GuestValid
<1>5. valid <=> ControlsValid(cap, Controls(cap), PointersOf(cap))
  BY <1>4, SetupHostValid
<1>6. segments \in [SegmentRegisters -> Hidden]
  BY SetupSegmentTyped
<1> HIDE DEF segments, valid
<1>7. ControlsInv'
  BY <1>1, <1>2, <1>3, <1>5, SufficientValid DEF ControlsInv
<1>8. SelectorsInv'
  BY <1>1 DEF SetupInv, SelectorsInv
<1>9. {"TR", "LDTR", "GS", "CS", "SS"} \subseteq SegmentRegisters
  BY DEF SegmentRegisters
<1>10. /\ \A r \in SegmentRegisters : segments[r] = SetupSegment(r)
       /\ segments["TR"] = SetupSegment("TR") /\ segments["LDTR"] = SetupSegment("LDTR")
       /\ segments["GS"] = SetupSegment("GS")
  BY <1>9 DEF segments
<1>11. SetupSegment("GS").base # Pcr => IsNull(selector["GS"])
  BY DEF SetupSegment, SegmentBase, SetupInv, HiddenInv
<1>12. /\ SetupSegment("TR").base = SystemBase(Gdt, selector["TR"].index)
       /\ SetupSegment("LDTR").base =
            IF IsNull(selector["LDTR"]) THEN Zero ELSE SystemBase(Gdt, selector["LDTR"].index)
  BY DEF SetupSegment, SegmentBase, NoSegment, SetupInv, SelectorsInv
<1>13. HiddenInv'
  <2>1. CASE ~valid
    BY <1>1, <2>1 DEF SetupInv, HiddenInv
  <2>2. CASE valid
    <3>1. \A r \in SegmentRegisters : hidden'[r].usable = ~IsNull(selector'[r])
      BY <1>1, <1>10, <2>2, SetupSegmentTyped
    <3> QED
      BY <1>1, <1>10, <1>11, <1>12, <2>2, <3>1 DEF HiddenInv
  <2> QED
    BY <2>1, <2>2
<1>14. HostInv'
  <2> SUFFICES ASSUME mode' = "guest" PROVE HostInv'
    BY DEF HostInv
  <2>1. valid /\ hidden' = segments
    BY <1>1
  <2>2. \A r \in SegmentRegisters : /\ vmcs'.host.selector[r].table_indicator = 0
                                    /\ vmcs'.host.selector[r].index \in DOMAIN Memory[Gdt]
    <3>1. NullSelector.index \in DOMAIN Memory[Gdt]
      BY GdtAssumption DEF NullSelector
    <3> QED
      BY <1>3, <3>1, SetupHostValid DEF SetupInv, SelectorsInv
  <2>3. \A r \in {"CS", "SS", "TR"} : vmcs'.host.selector[r].index = selector'[r].index
    BY <1>1, <1>3, <1>9, SetupHostValid
  <2>4. IsNull(vmcs'.host.selector["LDTR"])
    BY <1>3, SetupHostValid DEF IsNull, NullSelector
  <2>5. vmcs'.host.base["TR"] = SystemBase(Gdt, vmcs'.host.selector["TR"].index)
    BY <1>3, <1>9, SetupHostValid
  <2>6. IsNull(selector["GS"]) => IsNull(vmcs'.host.selector["GS"])
    BY <1>3, <1>9, SetupHostValid DEF IsNull
  <2>7. hidden'["GS"].base # Pcr => IsNull(vmcs'.host.selector["GS"])
    BY <1>10, <1>11, <2>1, <2>6
  <2>8. HostFindsItsPcr'
    BY <1>3, <1>11, <2>6, SetupHostValid DEF HostFindsItsPcr
  <2> QED
    BY <2>2, <2>3, <2>4, <2>5, <2>7, <2>8 DEF HostInv
<1>16. vmcs' \in Vmcs
  BY <1>1, <1>2, ControlsTyped, SetupHostValid DEF Vmcs, SetupInv, TypeOK
<1>17. TypeOK'
  <2>1. cr0' \in SUBSET Cr0Bits /\ cr4' \in SUBSET Cr4Bits
    BY <1>1, FixedAssumption DEF WithFixedBits, Fixed
  <2>2. hidden' \in [SegmentRegisters -> Hidden]
    BY <1>1, <1>6 DEF SetupInv, TypeOK
  <2> QED
    BY <1>1, <1>16, <2>1, <2>2 DEF SetupInv, TypeOK
<1> QED
  BY <1>1, <1>7, <1>8, <1>13, <1>14, <1>17 DEF SetupInv, BreakpointsSurvive

(***************************************************************************)
(* A VM exit.  On a processor that can run siren what it saves is what the *)
(* entry loads.                                                            *)
(***************************************************************************)
LEMMA ExitKeeps ==
  ASSUME SetupInv, ExitAndResume \/ ExitWithoutHostSpace
  PROVE  SetupInv'
<1>1. CASE ExitAndResume
  <2>1. /\ mode = "guest"
        /\ UNCHANGED <<cap, mode, cr3, alive, cr0, cr4, breakpoints, selector, hidden>>
    BY <1>1 DEF ExitAndResume, HostSpace
  <2>2. cap \in Capabilities /\ vmcs.controls = Controls(cap)
    BY <2>1, CapsAssumption DEF SetupInv, TypeOK, ControlsInv
  <2>3. Sufficient(cap) => /\ "save_debug_controls" \in vmcs.controls["exit"]
                           /\ "load_debug_controls" \in vmcs.controls["entry"]
    BY <2>2, SufficientControls, ControlWordsOf
  <2> DEFINE saved == IF "save_debug_controls" \in vmcs.controls["exit"] THEN debug ELSE vmcs.guest_debug
  <2>4. /\ vmcs' = [vmcs EXCEPT !.guest_debug = saved]
        /\ debug' = ("load_debug_controls" \in vmcs.controls["entry"] /\ saved)
    BY <1>1 DEF ExitAndResume
  <2>5. saved \in BOOLEAN /\ vmcs \in Vmcs
    BY DEF SetupInv, TypeOK, Vmcs
  <2>6. Sufficient(cap) => debug' = debug
    <3>1. debug \in BOOLEAN
      BY DEF SetupInv, TypeOK
    <3> QED
      BY <2>3, <2>4, <3>1
  <2>7. /\ vmcs' \in Vmcs /\ vmcs'.host = vmcs.host /\ vmcs'.controls = vmcs.controls
        /\ vmcs'.pointers = vmcs.pointers
    BY <2>4, <2>5 DEF Vmcs
  <2>8. debug' \in BOOLEAN
    BY <2>4
  <2>9. TypeOK'
    BY <2>1, <2>7, <2>8 DEF SetupInv, TypeOK
  <2> QED
    BY <2>1, <2>6, <2>7, <2>9
    DEF SetupInv, ControlsInv, SelectorsInv, HiddenInv, HostInv, HostFindsItsPcr,
        BreakpointsSurvive
<1>2. CASE ExitWithoutHostSpace
  <2>1. /\ mode = "guest" /\ mode' = "lost" /\ vmcs.host.cr3 \notin alive
        /\ UNCHANGED <<cap, cr3, alive, cr0, cr4, debug, breakpoints, selector, hidden, vmcs>>
    BY <1>2 DEF ExitWithoutHostSpace, HostSpace
  <2> QED
    BY <2>1
    DEF SetupInv, TypeOK, ControlsInv, SelectorsInv, HiddenInv, HostInv,
        BreakpointsSurvive
<1> QED
  BY <1>1, <1>2

(***************************************************************************)
(* turn_off_vm(): the processor keeps the host's selectors, all of the GDT.*)
(***************************************************************************)
LEMMA TurnedOffHidden ==
  ASSUME NEW r \in SegmentRegisters
  PROVE  /\ TurnedOff[r].usable = ~IsNull(vmcs.host.selector[r])
         /\ TurnedOff[r].base = IF r \in {"FS", "GS"} THEN hidden[r].base
                               ELSE IF r = "TR" THEN vmcs.host.base[r] ELSE Zero
BY DEF TurnedOff, HostHidden

LEMMA TurnOffKeeps ==
  ASSUME SetupInv, TurnOff
  PROVE  SetupInv'
<1>1. /\ mode = "guest" /\ mode' = "native"
      /\ cr0' = vmcs.host.cr0 /\ cr4' = vmcs.host.cr4 \ {"vmx_enable"}
      /\ selector' = vmcs.host.selector /\ hidden' = TurnedOff
      /\ debug' = FALSE /\ breakpoints' = FALSE
      /\ UNCHANGED <<cap, cr3, alive, vmcs>>
  BY DEF TurnOff, HostSpace
<1>2. {"TR", "LDTR", "GS", "CS", "SS"} \subseteq SegmentRegisters
  BY DEF SegmentRegisters
<1>3. vmcs.host \in Host
  BY DEF SetupInv, TypeOK, Vmcs
<1>4. selector' \in [SegmentRegisters -> Selectors]
      /\ vmcs.host.base \in [{"FS", "GS", "TR"} -> Addresses]
  BY <1>1, <1>3 DEF Host
<1>5. /\ \A r \in SegmentRegisters : /\ selector'[r].table_indicator = 0
                                      /\ selector'[r].index \in DOMAIN Memory[Gdt]
      /\ selector'["CS"].index = selector["CS"].index
      /\ selector'["TR"].index = selector["TR"].index
      /\ IsNull(selector'["LDTR"])
      /\ vmcs.host.base["TR"] = SystemBase(Gdt, selector'["TR"].index)
      /\ hidden["GS"].base # Pcr => IsNull(selector'["GS"])
  BY <1>1 DEF SetupInv, HostInv
<1>6. SelectorsInv'
  <2>1. selector["TR"].table_indicator = 0
    BY DEF SetupInv, SelectorsInv, NamesSystem
  <2> QED
    BY <1>2, <1>5, <2>1 DEF SetupInv, SelectorsInv, NamesSystem, IsNull
<1>7. /\ hidden'["TR"].base = vmcs.host.base["TR"] /\ hidden'["LDTR"].base = Zero
      /\ hidden'["GS"].base = hidden["GS"].base
  BY <1>1, <1>2, TurnedOffHidden
<1>8. HiddenInv'
  <2>1. \A r \in SegmentRegisters : hidden'[r].usable = ~IsNull(selector'[r])
    BY <1>1, TurnedOffHidden
  <2> QED
    BY <1>5, <1>7, <2>1 DEF HiddenInv
<1>9. hidden' \in [SegmentRegisters -> Hidden]
  <2>1. \A r \in SegmentRegisters : TurnedOff[r] \in Hidden
    <3> SUFFICES ASSUME NEW r \in SegmentRegisters PROVE TurnedOff[r] \in Hidden
      OBVIOUS
    <3>1. HostHidden(r) \in Hidden
      BY <1>4, HalvesAssumption DEF HostHidden, Hidden, Zero, Addresses
    <3>2. hidden[r].base \in Addresses
      BY DEF SetupInv, TypeOK, Hidden
    <3> QED
      BY <3>1, <3>2 DEF TurnedOff, Hidden
  <2>2. TurnedOff = [r \in SegmentRegisters |-> TurnedOff[r]]
    BY DEF TurnedOff
  <2> QED
    BY <1>1, <2>1, <2>2
<1>10. TypeOK'
  <2>1. cr0' \in SUBSET Cr0Bits /\ cr4' \in SUBSET Cr4Bits
    BY <1>1, <1>3 DEF Host
  <2> QED
    BY <1>1, <1>4, <1>9, <2>1 DEF SetupInv, TypeOK
<1> QED
  BY <1>1, <1>6, <1>8, <1>10
  DEF SetupInv, ControlsInv, HostInv, BreakpointsSurvive

THEOREM SetupInvariant == Spec => []SetupInv
<1>1. Init => SetupInv
  BY InitSetupInv
<1>2. SetupInv /\ [Next]_vars => SetupInv'
  <2> SUFFICES ASSUME SetupInv, [Next]_vars PROVE SetupInv'
    OBVIOUS
  <2>1. CASE \E r \in SegmentRegisters : \E s \in Loadable[r] : LoadSegment(r, s)
    BY <2>1, LoadSegmentKeeps
  <2>2. CASE \/ \E base \in FsBases : WriteFsBase(base)
             \/ WriteDebug
             \/ \E p \in Processes : SwitchProcess(p) \/ ProcessEnds(p)
    BY <2>2, OsKeeps
  <2>3. CASE \E initiates \in BOOLEAN : Start(initiates)
    BY <2>3, StartKeeps
  <2>4. CASE ExitAndResume \/ ExitWithoutHostSpace
    BY <2>4, ExitKeeps
  <2>5. CASE TurnOff
    BY <2>5, TurnOffKeeps
  <2>6. CASE Halted \/ UNCHANGED vars
    <3>1. UNCHANGED vars
      BY <2>6 DEF Halted
    <3> QED
      BY <3>1
      DEF vars, SetupInv, TypeOK, ControlsInv, SelectorsInv, HiddenInv, HostInv,
          HostFindsItsPcr, BreakpointsSurvive
  <2> QED
    BY <2>1, <2>2, <2>3, <2>4, <2>5, <2>6 DEF Next
<1> QED
  BY <1>1, <1>2, PTL DEF Spec
-----------------------------------------------------------------------------
(***************************************************************************)
(* The processor, its segment registers and its VMCS keep their types.     *)
(***************************************************************************)
THEOREM TypeCorrect == Spec => []TypeOK
<1>1. SetupInv => TypeOK
  BY DEF SetupInv
<1> QED
  BY <1>1, SetupInvariant, PTL

(***************************************************************************)
(* launch() succeeds on every processor that can run siren, for all        *)
(* capability MSRs, descriptor tables, selectors and fixed bits.           *)
(***************************************************************************)
THEOREM LaunchAlwaysSucceeds == Spec => []LaunchSucceeds
<1>1. SetupInv => LaunchSucceeds
  BY DEF SetupInv, ControlsInv, LaunchSucceeds
<1> QED
  BY <1>1, SetupInvariant, PTL

(***************************************************************************)
(* Such a processor runs the guest on siren's tables and MSR bitmap.       *)
(***************************************************************************)
THEOREM AlwaysOnSirensTables == Spec => []RunsOnSirensTables
<1>1. SetupInv => RunsOnSirensTables
  <2> SUFFICES ASSUME SetupInv, mode = "guest", Sufficient(cap)
               PROVE  /\ {"activate_secondary_controls", "use_msr_bitmaps"} \subseteq vmcs.controls["primary"]
                      /\ "enable_ept" \in vmcs.controls["secondary"]
                      /\ vmcs.pointers.ept_pointer = "top level table"
                      /\ vmcs.pointers.msr_bitmap_address = "msr bitmap"
                      /\ "enable_vpid" \in vmcs.controls["secondary"] => vmcs.pointers.vpid # 0
    BY DEF RunsOnSirensTables
  <2>1. cap \in Capabilities
    BY CapsAssumption DEF SetupInv, TypeOK
  <2> QED
    BY <2>1, SufficientTables DEF SetupInv, ControlsInv
<1> QED
  BY <1>1, SetupInvariant, PTL

(***************************************************************************)
(* The handlers find the kernel's data in GS, under every selector but a   *)
(* null one, also after siren was turned off and started again.            *)
(***************************************************************************)
THEOREM HostAlwaysFindsItsPcr == Spec => []HostFindsItsPcr
<1>1. SetupInv => HostFindsItsPcr
  BY DEF SetupInv, HostInv, HostFindsItsPcr
<1> QED
  BY <1>1, SetupInvariant, PTL

(***************************************************************************)
(* No sequence of VM exits disarms a breakpoint of the guest.              *)
(***************************************************************************)
THEOREM BreakpointsAlwaysSurvive == Spec => []BreakpointsSurvive
<1>1. SetupInv => BreakpointsSurvive
  BY DEF SetupInv
<1> QED
  BY <1>1, SetupInvariant, PTL

(***************************************************************************)
(* start() is not felt in the segment registers by the code that called    *)
(* it.                                                                     *)
(***************************************************************************)
THEOREM StartAlwaysKeepsSegments == Spec => StartKeepsSegments
<1> DEFINE Kept == mode = "native" /\ mode' = "guest" /\ PlainNulls =>
                     \A r \in SegmentRegisters :
                       /\ hidden'[r].usable = hidden[r].usable
                       /\ r \in HasBase => hidden'[r].base = hidden[r].base
<1>1. SetupInv /\ [Next]_vars => [Kept]_vars
  <2> SUFFICES ASSUME SetupInv, Next, mode = "native", mode' = "guest", PlainNulls,
                      NEW r \in SegmentRegisters
               PROVE  /\ hidden'[r].usable = hidden[r].usable
                      /\ r \in HasBase => hidden'[r].base = hidden[r].base
    BY DEF vars
  <2>1. PICK initiates \in BOOLEAN : Start(initiates)
    BY DEF Next, LoadSegment, WriteFsBase, WriteDebug, SwitchProcess, ProcessEnds,
           ExitAndResume, ExitWithoutHostSpace, TurnOff, HostSpace, Halted, vars
  <2>2. hidden' = [q \in SegmentRegisters |-> SetupSegment(q)]
    BY <2>1 DEF Start, AfterLaunch
  <2>3. hidden'[r] = SetupSegment(r)
    BY <2>2
  <2>4. hidden'[r].usable = hidden[r].usable
    BY <2>3, SetupSegmentTyped DEF SetupInv, HiddenInv
  <2>5. r \in {"FS", "GS"} => SetupSegment(r).base = hidden[r].base
    BY DEF SetupSegment, SegmentBase, NoSegment, PlainNulls
  <2>6. r = "TR" => SetupSegment(r).base = hidden[r].base
    BY DEF SetupSegment, SegmentBase, SetupInv, HiddenInv, SelectorsInv
  <2>7. r = "LDTR" => SetupSegment(r).base = hidden[r].base
    BY DEF SetupSegment, SegmentBase, NoSegment, SetupInv, HiddenInv
  <2> QED
    BY <2>3, <2>4, <2>5, <2>6, <2>7 DEF HasBase
<1> QED
  BY <1>1, SetupInvariant, PTL DEF Spec, StartKeepsSegments

(***************************************************************************)
(* turn_off_vm() is not felt in the stack, code and task segments and the  *)
(* bases of FS and GS.                                                     *)
(***************************************************************************)
THEOREM TurnOffAlwaysKeepsSegments == Spec => TurnOffKeepsSegments
<1> DEFINE Kept == mode = "guest" /\ mode' = "native" =>
                     /\ \A r \in {"CS", "SS", "TR"} : selector'[r].index = selector[r].index
                     /\ hidden'["TR"] = hidden["TR"]
                     /\ \A r \in {"FS", "GS"} : hidden'[r].base = hidden[r].base
<1>1. SetupInv /\ [Next]_vars => [Kept]_vars
  <2> SUFFICES ASSUME SetupInv, Next, mode = "guest", mode' = "native"
               PROVE  Kept
    BY DEF vars
  <2>1. TurnOff
    BY DEF Next, LoadSegment, WriteFsBase, WriteDebug, SwitchProcess, ProcessEnds, Start,
           ExitAndResume, ExitWithoutHostSpace, HostSpace, Halted, vars
  <2>2. selector' = vmcs.host.selector /\ hidden' = TurnedOff
    BY <2>1 DEF TurnOff
  <2>3. \A r \in {"CS", "SS", "TR"} : selector'[r].index = selector[r].index
    BY <2>2 DEF SetupInv, HostInv
  <2>4. "TR" \in SegmentRegisters /\ "FS" \in SegmentRegisters /\ "GS" \in SegmentRegisters
    BY DEF SegmentRegisters
  <2>5. \A r \in {"FS", "GS"} : hidden'[r].base = hidden[r].base
    BY <2>2, <2>4, TurnedOffHidden
  <2>6. hidden'["TR"].base = hidden["TR"].base /\ hidden'["TR"].usable = hidden["TR"].usable
    <3>1. hidden'["TR"].base = vmcs.host.base["TR"]
      BY <2>2, <2>4, TurnedOffHidden
    <3>2. hidden["TR"].base = SystemBase(Gdt, vmcs.host.selector["TR"].index)
      BY <2>2, <2>3 DEF SetupInv, HiddenInv
    <3>3. SetupInv'
      BY <2>1, TurnOffKeeps
    <3>4. ~IsNull(selector["TR"]) /\ ~IsNull(selector'["TR"])
      BY <3>3 DEF SetupInv, SelectorsInv
    <3>5. hidden'["TR"].usable /\ hidden["TR"].usable
      BY <2>4, <3>3, <3>4 DEF SetupInv, HiddenInv
    <3>6. hidden'["TR"].usable \in BOOLEAN /\ hidden["TR"].usable \in BOOLEAN
      BY <2>4, <3>3 DEF SetupInv, TypeOK, Hidden
    <3> QED
      BY <3>1, <3>2, <3>5, <3>6 DEF SetupInv, HostInv
  <2>7. hidden'["TR"] \in Hidden /\ hidden["TR"] \in Hidden
    <3>1. SetupInv'
      BY <2>1, TurnOffKeeps
    <3> QED
      BY <2>4, <3>1 DEF SetupInv, TypeOK
  <2>8. hidden'["TR"] = hidden["TR"]
    BY <2>6, <2>7 DEF Hidden
  <2> QED
    BY <2>3, <2>5, <2>8
<1> QED
  BY <1>1, SetupInvariant, PTL DEF Spec, TurnOffKeepsSegments
=============================================================================
