----------------------------- MODULE MCMetronome -----------------------------
(* Settings for the runs.  Of the sets of MCSets one is to a signature with   *)
(* a shorter pattern and two are refused.  AllSignatures mix to signatures   *)
(* that are supported and to some that are not.                              *)
EXTENDS Metronome

Setting(b, t, m) == [bpm |-> b, top |-> t, btm |-> m]

MCIntMax == 1000
MCStarts == {Setting(120, 3, 4)}
MCSets   == {Setting(120, 3, 4), Setting(200, 2, 4), Setting(120, 5, 8),
             Setting(0, 3, 4)}

AllSignatures == {Setting(120, 2, 4), Setting(120, 3, 4), Setting(100, 4, 4),
                  Setting(100, 5, 4), Setting(120, 3, 8), Setting(120, 6, 8),
                  Setting(90, 9, 8), Setting(90, 12, 8)}

AllSets == AllSignatures \cup {Setting(120, 5, 8)}

(* The last sets of acceptance_test.sh: 200 5/4, then 120 2/4.              *)
LongThenShort == {Setting(120, 2, 4)}
FiveFour      == {Setting(200, 5, 4)}
=============================================================================
