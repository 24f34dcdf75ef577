---------------------------- MODULE MCVmcsSetup ----------------------------
(***************************************************************************)
(* A GDT of seven entries: code, data, a TSS and an LDT of two entries     *)
(* each, and an LDT of two.  The bases need both halves.  Six kinds of     *)
(* processors.                                                             *)
(***************************************************************************)
EXTENDS VmcsSetup, TLC

MCMemory ==
  (<<1, 0>> :> (0 :> 0 @@ 1 :> 0 @@ 2 :> 0 @@ 3 :> 2 @@ 4 :> 1 @@ 5 :> 1 @@ 6 :> 1))
  @@ (<<1, 1>> :> (0 :> 0 @@ 1 :> 2))

Selector(index, table, rpl) == [index |-> index, table_indicator |-> table, rpl |-> rpl]

MCLoadable ==
  [r \in SegmentRegisters |->
     CASE r = "CS"   -> {Selector(1, 0, 0)}
       [] r = "SS"   -> {Selector(2, 0, 0)}
       [] r = "DS"   -> {Selector(2, 0, 3), Selector(1, 1, 3)}
       [] r = "ES"   -> {Selector(2, 0, 3)}
       [] r = "LDTR" -> {NullSelector, Selector(5, 0, 0)}
       [] r = "TR"   -> {Selector(3, 0, 0)}
       [] OTHER      -> {Selector(0, 0, 3), Selector(2, 0, 3)}]

MCBoot ==
  [r \in SegmentRegisters |->
     CHOOSE s \in MCLoadable[r] : s.table_indicator = 0 /\ (r # "LDTR" => s.index # 0)]

AllOf ==
  [pin |-> PinControls, primary |-> PrimaryControls, secondary |-> SecondaryControls,
   exit |-> ExitControls, entry |-> EntryControls]

IntelPt == {"intel_pt_uses_guest_physical_addresses"}

AllowAll == [w \in Words |-> [mask0 |-> {}, mask1 |-> AllOf[w]]]
Usual == [AllowAll EXCEPT !["secondary"].mask1 = @ \ IntelPt]
Default1 ==
  [Usual EXCEPT !["primary"].mask0 = {"cr3_load_exiting", "cr3_store_exiting"},
                !["exit"].mask0 = {"save_debug_controls"},
                !["entry"].mask0 = {"load_debug_controls"}]

Processor(true) ==
  [default1_controls_can_be_zero |-> TRUE, plain |-> Default1, true |-> true,
   support_accessed_and_dirty_flags |-> TRUE]

MCCaps ==
  {Processor(Usual), Processor(AllowAll),
   Processor([Usual EXCEPT !["primary"].mask0 = {"hlt_exiting"},
                           !["secondary"].mask0 = {"enable_vpid"}]),
   Processor([Usual EXCEPT !["primary"].mask1 = @ \ {"activate_secondary_controls"}]),
   [Processor(Usual) EXCEPT !.default1_controls_can_be_zero = FALSE],
   [Processor(Usual) EXCEPT !.support_accessed_and_dirty_flags = FALSE]}

MCCr0Fixed == [zero |-> {"pg", "ne"}, one |-> {"pg", "ne", "wp"}]
MCCr4Fixed == [zero |-> {"vmx_enable"}, one |-> {"vmx_enable", "pge"}]
MCCr0s == {{"pg", "wp"}}
MCCr4s == {{"pge"}}
MCPcr == <<2, 1>>
MCFsBases == {<<1, 2>>}
MCGdt == <<1, 0>>
=============================================================================
