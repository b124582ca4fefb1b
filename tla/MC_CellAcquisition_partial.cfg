CONSTANTS
  Transmitters <- MCTransmitters
  Sfns <- MCSfns
  SetCellCanFail = TRUE
  NoResult = NoResult

SPECIFICATION Spec

PROPERTY AcquisitionRefinesSpec
