---------------------------- MODULE MCPortControl ----------------------------
(* Values for the constants of PortControl. *)
EXTENDS PortControl

Form(src, set, id, fields) ==
    [src |-> src, cmd_set |-> set, cmd_id |-> id, fields |-> fields]

FullMppt  == Form("MPPT", HB_SET, HEARTBEAT, {"AC", "DC"})
Pd        == Form("PD", HB_SET, HEARTBEAT, {"soc"})
ShortPd   == Form("PD", HB_SET, HEARTBEAT, {})
ForeignPd == Form("PD", 1, HEARTBEAT, {"soc"})

BatteryForms == {Pd, ShortPd, ForeignPd}
OneForm      == {FullMppt}

Bits   == {0, 1}
OneSoc == {50}
Socs   == {0, 200}     \* 200 decodes to a negative level
==============================================================================
