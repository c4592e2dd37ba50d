------------------------------- MODULE MCStartup -------------------------------
(* Values for the constants of Startup. *)
EXTENDS Startup

\* User ids around the size of their array, as are the serial numbers.
MCStored == [ef_user : {19, 20}, ef_mac : {6}, ef_serial : {16, 17}, lookup_table : {LUT_SIZE}]
==============================================================================
