CONSTANTS
  Kems = {"MlKem"}
  Apis = {"generate", "derive_key_pair", "sk_from_bytes", "sk_to_bytes",
          "encap", "decap", "setup", "seal_or_open", "export"}
SPECIFICATION Spec
INVARIANT NothingIsLeftBehind
CHECK_DEADLOCK FALSE
