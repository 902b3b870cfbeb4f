SPECIFICATION Spec
CONSTANTS
  TotalFrames = 13
  Roots = {1, 2}
  Entries = 2
  VirtualPages <- NearPages
  Mappings <- DeviceAndData
INVARIANTS
  TablesFormTrees
  NoStaleTranslation
PROPERTY RefinesAddressSpace
