\* Both versions of the request parameters, validated and encoded.
CONSTANTS
  Nil = Nil
  ValidIPs <- MCValidIPs
  ExportedInputs <- MCExportedValidateInputs
  InternalInputs <- MCInternalInputs
  Bodies = {}
  Announces = {}
SPECIFICATION Spec
INVARIANT TypeOK
INVARIANT InternalValidateIsSpec
INVARIANT InternalQueryConforms
INVARIANT ExportedValidateIsSpec
