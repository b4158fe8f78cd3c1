-------------------------------- MODULE Psk --------------------------------
(***************************************************************************)
(* Pre-shared keys (src/src/psk.rs).  A byte string is a record of a name  *)
(* and a length, which is all that validation looks at.                    *)
(***************************************************************************)
EXTENDS Kdf

MIN_PSK_LEN == 32

Bytes(name, len) == [name |-> name, len |-> len]
EmptyBytes == Bytes("", 0)

\* Mutant: the identifier is not compared with the secret.
PskNewNoIdCheck(secret, id) ==
    IF secret.len = 0 THEN Err("MissingPsk")
    ELSE IF secret.len < MIN_PSK_LEN THEN Err("InsecurePsk")
    ELSE Ok([secret |-> secret, id |-> id])

\* Psk::new, the only way to a Psk.
PskNew(secret, id) ==
    IF (secret.len = 0) # (id.len = 0) THEN Err("InconsistentPsk")
    ELSE IF secret.len = 0 THEN Err("MissingPsk")
    ELSE IF secret.len < MIN_PSK_LEN THEN Err("InsecurePsk")
    ELSE Ok([secret |-> secret, id |-> id])
============================================================================
