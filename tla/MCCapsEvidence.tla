--------------------------- MODULE MCCapsEvidence ---------------------------
(* Small instances of CapsEvidence: everything recorded, and each source    *)
(* next to one that is denied or allowed.                                   *)
EXTENDS CapsEvidence

Profile(c, r) == [clocks |-> c, random |-> r]
MCProfiles == {Profile("record", "record"), Profile("allow", "deny")}
=============================================================================
