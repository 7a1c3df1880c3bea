SPECIFICATION Spec
CONSTANTS
  Images = {"mixed", "marks"}
  Data <- MCData
  Lengths <- MCLengths
INVARIANTS TypeOK TrackReadable SectorsDecode
