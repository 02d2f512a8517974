---------------------------- MODULE EffectsChain ----------------------------
(* The effects of one device or group: the chain of `effects/mod.rs`, the   *)
(* presets of `effects/presets.rs`, the effects commands of                 *)
(* `manager/state.rs`, and how a chain is saved and restored.               *)
(*                                                                          *)
(* Band gains are a curve: "zero", the curve of a preset, or one a user has *)
(* drawn.  A compressor is the preset it is tuned for, "off" if there is    *)
(* none.  Left out: what the filters do to the samples.                     *)
EXTENDS Naturals, Sequences

Named == {"flat", "music", "movie", "game", "voice", "podcast"}
Preset == Named \cup {"custom"}

Bands(preset) == IF preset \in {"flat", "custom"} THEN "zero" ELSE preset
Compressor(preset) ==
  CASE preset \in {"flat", "custom"} -> "off"
    [] preset \in {"voice", "podcast"} -> "voice"
    [] OTHER -> preset

New == [enabled |-> FALSE, preset |-> "flat", bands |-> "zero", compressor |-> "off", width |-> 1]

ApplyPreset(chain, preset) ==
  [chain EXCEPT !.preset = preset, !.bands = Bands(preset), !.compressor = Compressor(preset)]
SetBands(chain, bands) == [chain EXCEPT !.preset = "custom", !.bands = bands]

(* effects_snapshot() and what GetEffects reports.                          *)
Snapshot(chain) ==
  [enabled |-> chain.enabled, preset |-> chain.preset, bands |-> chain.bands, width |-> chain.width]

(* restore_effects() into the chain of a new run: a named preset is applied *)
(* again, anything else takes the bands that were saved.                    *)
AlwaysNamed(saved) == TRUE                                   \* mutant
IsNamed(saved) == saved.preset \in Named
RestoreEffects(saved) ==
  LET on == [New EXCEPT !.enabled = saved.enabled]
      tuned == IF IsNamed(saved) THEN ApplyPreset(on, saved.preset) ELSE SetBands(on, saved.bands)
  IN [tuned EXCEPT !.width = saved.width]

(* The commands SetEffectsEnabled, SetEffectsPreset and SetEqualizerBands,  *)
(* and a restart between a save and the next command.                       *)
ChainCommand ==
  [do : {"enabled"}, to : {"on", "off"}] \cup [do : {"preset"}, to : Preset]
  \cup [do : {"bands"}, to : {"zero", "drawn"}] \cup [do : {"restart"}, to : {"daemon"}]
Obey(chain, c) ==
  CASE c.do = "enabled" -> [chain EXCEPT !.enabled = c.to = "on"]
    [] c.do = "preset" -> ApplyPreset(chain, c.to)
    [] c.do = "bands" -> SetBands(chain, c.to)
    [] c.do = "restart" -> RestoreEffects(Snapshot(chain))
Obeyed(commands) ==
  LET after[n \in 0 .. Len(commands)] ==
        IF n = 0 THEN New ELSE Obey(after[n - 1], commands[n])
  IN after[Len(commands)]

-----------------------------------------------------------------------------
(* A restart changes no setting GetEffects reports, after whatever commands *)
(* and earlier restarts.  What is heard does not change either, unless the  *)
(* bands have been edited after a preset with a compressor: the compressor  *)
(* stays on, and is lost by the restart.                                    *)
EditedPreset(chain) == chain.preset = "custom" /\ chain.compressor # "off"
EveryChainRestored ==
  \A commands \in UNION {[1 .. n -> ChainCommand] : n \in 0 .. 3} :
    LET chain == Obeyed(commands)
        again == RestoreEffects(Snapshot(chain))
    IN /\ Snapshot(again) = Snapshot(chain)
       /\ again = IF EditedPreset(chain) THEN [chain EXCEPT !.compressor = "off"] ELSE chain
=============================================================================
