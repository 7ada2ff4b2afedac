--------------------------- MODULE MCElusivClient ---------------------------
(* Instances of ElusivClient for TLC.                                        *)
EXTENDS ElusivClient

AllFailures == {"node", "warden", "fetch failed", "timeout", "crash"}
=============================================================================
