SPECIFICATION Spec
CONSTANTS
  MAX_OPEN_FILES = 5
  Program = "/EXAMPLE.ELF"
  OnDisk = {"/EXAMPLE.ELF", "/B"} Missing = {"/C"}
  Images <- SomeImages
  Word = 64 MaxPhdrs = 2 FileLimit = 4 PageSize = 4 SizeClasses = {1, 2, 4, 8}
  Rooms = {3, 5, 9} MaxCalls = 4
INVARIANTS OwnFile LoadedExact 
CHECK_DEADLOCK FALSE
