--------------------------- MODULE MCFirmLifecycle --------------------------
(***************************************************************************)
(* One firm, a trial of two days, a day of grace, a day before deletion,   *)
(* and two API requests at a time.                                         *)
(***************************************************************************)
EXTENDS FirmLifecycle

CONSTANTS r1, r2

MCRequests == {r1, r2}
OneRequest == {r1}
MCEditions == {"LOCAL_FIRM_ONLINE", "ENTERPRISE"}
MCExpiries == {3, 9}

=============================================================================
