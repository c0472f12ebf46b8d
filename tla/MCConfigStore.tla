---------------------------- MODULE MCConfigStore ----------------------------
(* Two built-ins (one that catalog 1 adds, one it retires), two sources of  *)
(* the operator, one of them a copy of the added built-in under another     *)
(* spelling of its URL, and one upload; the limit of three is met.          *)
EXTENDS ConfigStore

MCUrl == [s \in {"new", "stale", "copy", "own"} |-> s]
MCUrlKey == [MCUrl EXCEPT !["copy"] = "new"]
MCCovers == [r \in {"r1", "lan", "gfw"} |->
                CASE r = "r1" -> {"h1", "h2"} [] r = "lan" -> {"h2"} [] r = "gfw" -> {"h1"}]
MCPreset == << [id |-> "lan", group |-> "DIRECT"], [id |-> "gfw", group |-> "ANY"] >>
=============================================================================
