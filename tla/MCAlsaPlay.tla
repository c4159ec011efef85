----------------------------- MODULE MCAlsaPlay -----------------------------
(* Instances of AlsaPlay: every channel count that is treated on its own,  *)
(* hardware of any abilities.  Page is the least that holds a padded frame *)
(* of every instance, so that chunks take several pages.                   *)
EXTENDS AlsaPlay

AllBits == {8, 12, 16, 24, 32}
AllChannels == {1, 2, 4, 6, 8}
=============================================================================
