SPECIFICATION Spec
CONSTANTS
  Sector = 3
  Line = 1
  Blob = 4
  MinHeader = 2
  MaxChunk = 2
  Space = 12
  Sizes = {1, 2, 3, 10, 14}
INVARIANTS TypeOK BytesAccounted MixtureNotBootable OkMeansActivated
PROPERTIES RejectedKeepsFirmware UploadsEnd ImplementsFirmware
