SPECIFICATION Spec
CONSTANTS
  Halves = {0, 1, 2}
  Memory <- MCMemory
  Caps <- MCCaps
  Cr0Bits = {"pg", "ne", "wp"}
  Cr4Bits = {"vmx_enable", "pge"}
  Cr0s <- MCCr0s
  Cr4s <- MCCr4s
  Cr0Fixed <- MCCr0Fixed
  Cr4Fixed <- MCCr4Fixed
  Processes = {"system", "a"}
  System = "system"
  Pcr <- MCPcr
  FsBases <- MCFsBases
  Gdt <- MCGdt
  Loadable <- MCLoadable
  Boot <- MCBoot
INVARIANTS HostSpaceOutlives
