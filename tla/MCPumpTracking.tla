--------------------------- MODULE MCPumpTracking ---------------------------
(* Model checking of PumpTracking: two nozzles, TX#s 0..2. *)
EXTENDS PumpTracking

TwoPrices == <<2, 1>>

\* One sale at the first nozzle, without presets, of two intervals at most.
OneSale(p) ==
  /\ p.sales <= 1 /\ p.selected_nozzle # 2 /\ p.volume <= 2
  /\ p.prices = TwoPrices /\ p.preset_volume = None /\ p.preset_amount = None

=============================================================================
