\* One stream of four sequences with conflicting, repeated and lost deliveries,
\* restarts, failing repairs and one compaction.
CONSTANTS
  Events <- MCEvents
  Pages <- MCPages
  Bursts <- MCBursts
  Capabilities <- MCCapabilities
  MaxCompactions = 1
SPECIFICATION Spec
INVARIANT TrustedStreamHasNoHoles
INVARIANT CoalescingIsTransparent
INVARIANT PersistedPageRepairs
