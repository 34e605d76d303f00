--------------------------- MODULE ImageContract ---------------------------
(***************************************************************************)
(* What Fpga.load_image and Fpga.unload_image (resources/libapp/device.py) *)
(* promise the daemon that calls them, without the profile helper, the     *)
(* clock generator or the polling loop.                                    *)
(*                                                                         *)
(* slot[a] is the fate of application a's image in MakoProfile; verdict[a] *)
(* is what the last finished blocking load_image told a.  A good verdict   *)
(* is given, and stays, only while the image runs; a bad verdict only when *)
(* nothing of a's is asked for any more.                                   *)
(***************************************************************************)
CONSTANT Apps

VARIABLES slot, verdict

cvars == <<slot, verdict>>

Init ==
    /\ slot = [a \in Apps |-> "free"]
    /\ verdict = [a \in Apps |-> "none"]

\* load_image asks MakoProfile for the image.
Ask(a) ==
    /\ verdict[a] = "none"
    /\ slot[a] = "free"
    /\ slot' = [slot EXCEPT ![a] = "asked"]
    /\ UNCHANGED verdict

\* MakoProfile has configured the FPGA.
Run(a) ==
    /\ slot[a] = "asked"
    /\ slot' = [slot EXCEPT ![a] = "running"]
    /\ UNCHANGED verdict

\* unload_image withdraws the image.
Drop(a) ==
    /\ verdict[a] = "none"
    /\ slot' = [slot EXCEPT ![a] = "free"]
    /\ UNCHANGED verdict

\* load_image returns.
Good(a) ==
    /\ slot[a] = "running"
    /\ verdict' = [verdict EXCEPT ![a] = "good"]
    /\ UNCHANGED slot

\* load_image raises because programming failed or took too long.
Bad(a) ==
    /\ slot[a] = "free"
    /\ verdict' = [verdict EXCEPT ![a] = "bad"]
    /\ UNCHANGED slot

\* The next call begins, or the process that was told is gone.
Forget(a) ==
    /\ verdict' = [verdict EXCEPT ![a] = "none"]
    /\ UNCHANGED slot

Next == \E a \in Apps :
    Ask(a) \/ Run(a) \/ Drop(a) \/ Good(a) \/ Bad(a) \/ Forget(a)

Spec == Init /\ [][Next]_cvars
=============================================================================
