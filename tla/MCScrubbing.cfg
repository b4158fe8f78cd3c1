CONSTANTS
  Kems = {"X25519", "X448", "NIST", "XWing", "MlKem"}
  Apis = {"generate", "derive_key_pair", "sk_from_bytes", "sk_to_bytes",
          "encap", "decap", "setup", "seal_or_open", "export"}
SPECIFICATION Spec
INVARIANT NothingElseIsLeftBehind
INVARIANT OnlyTheResultSurvives
CHECK_DEADLOCK FALSE
