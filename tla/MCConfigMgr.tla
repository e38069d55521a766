----------------------------- MODULE MCConfigMgr -----------------------------
(* One set name, two domains, the key "a" in two cases and "b", two values. *)
EXTENDS ConfigMgr

MCLower(k) == IF k = "A" THEN "a" ELSE k

=============================================================================
