-------------------------- MODULE MCListenerManager --------------------------
(* Two ports, one group and no sources: what the additional listeners need. *)
EXTENDS ListenerManager

NoUrls == << >>
NoCovers == << >>
NoPreset == << >>
=============================================================================
