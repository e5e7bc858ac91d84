------------------------------- MODULE MCReply -------------------------------
(* Reply with the real sizes, and lengths on both sides of each boundary.   *)
EXTENDS Reply
MCBufLen    == EdnsMax
MCQuestions == {5, 21, 66, 130, 249, 259}
MCOffers    == {NoEdns, 0, 300, 512, 513, 700, 1232, 4096}
MCZones     == {1, 11, 62, 63, 126, 245}
MCTargets   == {1, 225, 255}
=============================================================================
