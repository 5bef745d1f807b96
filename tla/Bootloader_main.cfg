CONSTANTS
  Firmwares <- Uploads
  Lengths = {1, 2, 4, 5, 6}
  UPDATE_BOOTLOADER = TRUE
SPECIFICATION Spec
INVARIANTS SeedStaysWithItsFirmware BootableIsConfirmed StorageSurvives
CHECK_DEADLOCK FALSE
