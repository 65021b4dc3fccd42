------------------------------- MODULE MCLink -------------------------------
(***************************************************************************)
(* Payloads for model-checking Link.                                       *)
(***************************************************************************)
EXTENDS Link

Game == <<"game">>
SplitGame == <<"game", "game">>

OneFrameEach3 == <<Game, Game, Game>>
ThreePingGoodbye == <<Game, Game, Game, <<"ping">>, <<"disconnect">>>>
SplitFirst == <<SplitGame, Game>>
PingInSplit == <<<<"game", "ping">>, SplitGame, Game>>
=============================================================================
