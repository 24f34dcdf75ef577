SPECIFICATION FairSpec
CONSTANTS
  MaxProcessors = 5
  AtBoot = 3
  MayFail = {"identity_map", "assist_page", "vmx_on", "device", "link"}
INVARIANTS MemoryOutlivesGuests NothingLeftBehind RunningAgrees AllOrNone
PROPERTIES StopsOnlyInBroadcasts UnloadEnds
