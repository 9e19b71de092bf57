------------------------------ MODULE MCRouting ------------------------------
(***************************************************************************)
(* An instance of Routing for TLC: one device or more of each range of ids *)
(* and of each case of the conversions.                                    *)
(***************************************************************************)
EXTENDS Routing, TLC

Gatewayed1 ==
    {[source |-> "gateway", id |-> 1234567, data |-> {"U7318", "C7318", "Env", "Bat"}],
     [source |-> "gateway", id |-> 7654321, data |-> {"EC7128"}],
     [source |-> "gateway", id |-> 50001, data |-> {"Opc"}],
     [source |-> "gateway", id |-> 10002, data |-> {"W78017", "Pms"}]}

Note(file, product, body) ==
    [source |-> "note", id |-> 7, product |-> product, file |-> file, body |-> body]
Plain(model, has) == [model |-> model, has |-> has]

Noted1 ==
    {Note("_air.qo", TRUE, Plain("lnd7317", {"Bat"})),
     Note("_air.qo", TRUE, Plain("none", {"Env", "Bat"})),
     Note("_air.qo", FALSE, Plain("lnd712", {})),
     Note("_track.qo", TRUE, Plain("none", {"Count"})),
     Note("_session.qo", TRUE, Plain("none", {})),
     Note("_session.qo", TRUE, NoBody),
     Note("other", TRUE, Plain("none", {}))}

V1(id, unit) == [source |-> "v1", id |-> id, valid |-> TRUE, zero |-> FALSE,
                 test |-> FALSE, unit |-> unit]

Posted1 ==
    {V1(48, "cpm"), V1(1001, "cpm"), V1(1012, "status"), V1(100011, "cpm"),
     V1(100012, "cpm"), V1(100019, "cpm"), V1(201051, "cpm"), V1(50001, "pm2.5"),
     V1(60001, "tempc"), V1(70001, "cpm"), V1(0, "cpm"), V1(63, "other"),
     [V1(63, "other") EXCEPT !.test = TRUE],
     [V1(1001, "cpm") EXCEPT !.zero = TRUE],
     [V1(63, "cpm") EXCEPT !.valid = FALSE]}

Measurements == Gatewayed1 \cup Noted1 \cup Posted1

\* The sheet knows Solarcasts, one of them without a serial number, and lists
\* devices under the numbers they give themselves too.
Serials == 1234567 :> 33 @@ 7654321 :> 0 @@ 100012 :> 10 @@ 10002 :> 11
=============================================================================
