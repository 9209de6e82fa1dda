\* DecodeTrackerResponse on bodies with every key absent, well typed or not,
\* on peer lists and on every compact string of up to MaxCompact bytes;
\* CreateRequest on valid and invalid requests and every transport outcome.
CONSTANTS
  Nil = Nil
  ValidIPs <- MCValidIPs
  ExportedInputs = {}
  InternalInputs = {}
  Bodies <- MCResponseBodies
  Announces <- MCAnnounces
SPECIFICATION Spec
INVARIANT DecodeMatchesSpec
INVARIANT AnnounceOutcome
