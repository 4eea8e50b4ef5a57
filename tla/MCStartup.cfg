\* Two goroutines, two candidate paths and up to two libraries opened; a
\* linker, a registration and a virtual buffer.
CONSTANTS
  Goroutines = {g1, g2}
  Nobody = Nobody
  Paths = 2
  Exports <- MCExports
  MaxOpens = 2
  MaxLeaks = 1
  Linkers = {l1}
  Registrations = {r1}
  Virtuals = {v1}
SPECIFICATION Spec
SYMMETRY Symmetric
INVARIANTS UsableDriver NothingLeaks LentMemoryPinned Disposable
