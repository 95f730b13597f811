\* The switched range of the language card, main and auxiliary, and the slot 3 ROM.
CONSTANTS
  Value = {0, 1}
  Blank = 0
  Factory = 1
  Pages = {"d0", "c3"}
  Switches = {"ALTZP", "SLOTCXROM", "SLOTC3ROM"}
\* A load restores the power-on setting, or one with every switch of the instance on.
  LoadModes = {{"HRAM_BANK2", "HRAM_WRITE", "SLOTCXROM"},
               {"HRAM_BANK2", "HRAM_WRITE", "SLOTCXROM", "ALTZP", "SLOTC3ROM", "HIGHRAM"}}
SPECIFICATION Spec
INVARIANTS
  PagesAgree
