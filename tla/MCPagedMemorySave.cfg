\* What a save state holds of bank 1 of the language card.
CONSTANTS
  Value = {0, 1}
  Blank = 0
  Factory = 1
  Pages = {"d0"}
  Switches = {"ALTZP"}
\* A load restores the power-on setting, or one with every switch of the instance on.
  LoadModes = {{"HRAM_BANK2", "HRAM_WRITE", "SLOTCXROM"},
               {"HRAM_BANK2", "HRAM_WRITE", "SLOTCXROM", "ALTZP", "HIGHRAM"}}
SPECIFICATION Spec
INVARIANT SaveStateHoldsEveryPage
