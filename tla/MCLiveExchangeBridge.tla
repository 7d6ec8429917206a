------------------------ MODULE MCLiveExchangeBridge ------------------------
(* Small instances of LiveExchangeBridge: an account of a few units; whole,  *)
(* half, flat and short targets.                                             *)
EXTENDS LiveExchangeBridge

WholeHalfShort == {100, 50, -50}
Unreliable == ExchangeFaults
=============================================================================
