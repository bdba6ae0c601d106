----------------------------- MODULE MCKakaoTokens -----------------------------
(***************************************************************************)
(* Instances of KakaoTokens for TLC: the daily job of the worker and a     *)
(* dispatch of the API.                                                    *)
(***************************************************************************)
EXTENDS KakaoTokens

CONSTANTS a1

OneSender == {a1}
JustDaily == {Daily}

=============================================================================
