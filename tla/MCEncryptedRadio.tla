--------------------------- MODULE MCEncryptedRadio ---------------------------
(* Two peers, so that refreshes queue and completions of either peer mix.   *)
EXTENDS EncryptedRadio
=============================================================================
