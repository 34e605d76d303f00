---------------------------- MODULE MCPhyTuning ----------------------------
(***************************************************************************)
(* Two interfaces and two ports, a record of two tuned fields and one of   *)
(* the tool's, and a speed and medium there is no tuning for.              *)
(***************************************************************************)
EXTENDS PhyTuning

MCTuned == <<"main", "pre">>

MCTuningData ==
    [d \in {<<"10G", "fiber">>, <<"10G", "copper">>, <<"25G", "fiber">>} |->
        CASE d = <<"10G", "fiber">>  -> <<0, 1>>
          [] d = <<"10G", "copper">> -> <<1, 0>>
          [] d = <<"25G", "fiber">>  -> <<1, 1>>]
\* A patched pair; a pair with a port nobody is fed by, and a medium to be identified.
MCStarts ==
    LET two(f, a, b) == [i \in Intfs |-> IF i = f THEN a ELSE b]
        i1 == CHOOSE i \in Intfs : TRUE
        p1 == CHOOSE p \in Ports : TRUE
        p2 == CHOOSE p \in Ports : p # p1
    IN {[speed  |-> two(i1, "10G", "25G"),
         medium |-> two(i1, "copper", "fiber"),
         source |-> two(i1, p1, p2)],
        [speed  |-> two(i1, "10G", "10G"),
         medium |-> two(i1, "unknown", "copper"),
         source |-> two(i1, p2, NoPort)]}
=============================================================================
