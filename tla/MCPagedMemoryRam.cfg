\* Page zero and the hi-res page under every //e RAM switch.
CONSTANTS
  Value = {0, 1}
  Blank = 0
  Factory = 1
  Pages = {"zp", "hgr"}
  Switches = {"80STORE", "AUXREAD", "AUXWRITE", "ALTZP", "PAGE2", "HIRES"}
\* A load restores the power-on setting, or one with every switch of the instance on.
  LoadModes = {{"HRAM_BANK2", "HRAM_WRITE", "SLOTCXROM"},
               {"HRAM_BANK2", "HRAM_WRITE", "SLOTCXROM", "80STORE", "AUXREAD", "AUXWRITE", "ALTZP", "PAGE2", "HIRES", "HIGHRAM"}}
SPECIFICATION Spec
INVARIANT SwitchesSettle
PROPERTY KeepsBankedMemory
