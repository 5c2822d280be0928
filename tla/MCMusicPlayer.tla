---------------------------- MODULE MCMusicPlayer ----------------------------
(* Model checking of MusicPlayer with up to two songs. *)
EXTENDS MusicPlayer
=============================================================================
