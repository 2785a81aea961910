---------------------------- MODULE MCPageLayout ----------------------------
EXTENDS PageLayout
MCRoom == [push \in {"none", "frame", "fault"} |->
             CASE push = "none" -> 12 [] push = "frame" -> 8 [] push = "fault" -> 5]
MCMoves == {-9, 3}
=============================================================================
