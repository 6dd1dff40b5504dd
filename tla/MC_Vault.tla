------------------------------ MODULE MC_Vault ------------------------------
(* Instances of Vault for TLC: with nothing to import, and with two v0     *)
(* files of one id, one of which names a voice note.                       *)
EXTENDS Vault, TLC

CONSTANTS a, b, v1

NoLegacy == {}
TwoLegacy == {<<1, a>>, <<2, a>>}
NoLegacyVoice == << >>
OneLegacyVoice == <<1, a>> :> v1 @@ <<2, a>> :> NoVoice
=============================================================================
