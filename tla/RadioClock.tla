---------------------------- MODULE RadioClock -----------------------------
(***************************************************************************)
(* What the radio interface promises to the UEs: subframes go on air one   *)
(* after the other, none twice and none left out, numbered by a TTI that   *)
(* wraps after Period subframes and a hyper frame number that counts the   *)
(* wraps.  The first subframe on air is number 0 of hyper frame 0 ("Set    *)
(* TTI so that first TX is at tti=0", phy/txrx.cc).                        *)
(***************************************************************************)
EXTENDS Naturals

CONSTANTS Period, Hyper

VARIABLES hfn, tti     \* the last subframe that was on air

Init == hfn = Hyper - 1 /\ tti = Period - 1

Tick ==
  IF tti = Period - 1
    THEN tti' = 0 /\ hfn' = IF hfn = Hyper - 1 THEN 0 ELSE hfn + 1
    ELSE tti' = tti + 1 /\ hfn' = hfn

Spec == Init /\ [][Tick]_<<hfn, tti>>

=============================================================================
