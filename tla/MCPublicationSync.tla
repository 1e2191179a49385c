-------------------------- MODULE MCPublicationSync --------------------------
(* Two files, of which one is normalised, and contents that tell apart a     *)
(* plain edit, one with CRLF line endings and one with a secret in it.       *)
EXTENDS PublicationSync

TwoFiles == <<"emu", "doc">>
Contents == {"v0", "v0crlf", "v1", "secret"}
ToLF == [b \in Contents |-> IF b = "v0crlf" THEN "v0" ELSE b]
Docs == {"doc"}
Secrets == {"secret"}
=============================================================================
