--------------------------- MODULE MCStreamSetup ---------------------------
EXTENDS StreamSetup
MCLEOrder == <<"Ia", "Va">>
MCPoolOrder == <<"Va", "Ia">>
MCPreset == <<[id |-> "h3", tuned |-> TRUE]>>
MCMax == [std \in {"9-2LE", "9-2", "61869"} |->
            CASE std = "9-2LE" -> 2 [] std = "9-2" -> 3 [] std = "61869" -> 4]
MCCustom == {"X", "h3"}
MCTyped == {{50}, {Otherwise, 60}}
MCFiles == {[spc |-> 96],
            [std |-> "61869", freq |-> 50, spc |-> 96,
             equations |-> <<[id |-> "Ia", hz |-> {60}], [id |-> "X", hz |-> {}]>>,
             selected |-> <<"Va", "X", "Ia">>],
            [std |-> "9-2LE", freq |-> 60, spc |-> 256, selected |-> <<"Va">>]}
=============================================================================
