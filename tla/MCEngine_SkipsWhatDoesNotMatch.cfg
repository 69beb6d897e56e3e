CONSTANTS
  Types = {"box"}
  Empty = "empty"
  Masses = {0, 1}
  Attrs = {"linear_damping", "gravity"}
  AttrValues = {1, 2}
  DefaultGravity = 1
  Scales = {1, 2}
  Offsets = {0, 1}
  Places = {0, 1}
  Flags = {"kinematic", "trigger", "ccd"}
  MaxBodies = 2
  MaxShapes = 2
  Entities = {e1, e2}
  Slots = {0, 1}
  MaxLibs = 2
  FnNames = {n1}
  Fns = {f1}
  NoFn = NoFn
  Values = {u8, u16}
  NullPtr = NullPtr
  Size <- MCSize
  ArgsMax = 2
  RetMax = 2
  RetBuffer = 4
  MaxStack = 3
  MaxPosition = 4
  MaxCalls = 2
  Capacity = 4
  MaxSizes = {0, 2, 4, 6}
  MaxChunk = 3
  MaxBody = 8
  u8 = u8
  u16 = u16
  old = old
  mid = mid
  new = new
  u32 = u32
  u64 = u64
  str = str
  Entries <- MCEntries
  Contents <- MCContents
  ClassTable <- MCClasses
  Sources = {"game.c"}
  Builtins = {"float", "char", "vqs"}
  Mapped <- MCMapped
  RunNames <- MCRuns
  Args <- MCArgs
  Number <- MCNumber
  Root = "obj"
  CoreSlots = {"ctor"}
  ClassVersions <- MCVersions
  Scalars <- MCScalars
  ComponentClasses = {c1, c2}
  Ids = {1, 2, 3}
  Data = {v1, v2}
  Zero = zero
  Garbage = garbage
  NoPath = NoPath
SPECIFICATION EngineSpec
CHECK_DEADLOCK FALSE
INVARIANT
  SkipsWhatDoesNotMatch
