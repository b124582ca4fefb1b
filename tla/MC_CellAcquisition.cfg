CONSTANTS
  Transmitters <- MCTransmitters
  Sfns <- MCSfns
  SetCellCanFail = FALSE
  NoResult = NoResult

SPECIFICATION Spec

INVARIANT TypeOK
PROPERTY AcquisitionRefinesSpec
