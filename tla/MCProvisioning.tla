--------------------------- MODULE MCProvisioning ---------------------------
(* Small instances of the provisioning protocol; the constants are set by    *)
(* the configurations alone.                                                 *)
EXTENDS Provisioning
=============================================================================
