SPECIFICATION Spec
CONSTANTS
  MaxProcessors = 3
  AtBoot = 2
  MayFail = {"device", "link"}
INVARIANTS ImageOutlivesGuests
