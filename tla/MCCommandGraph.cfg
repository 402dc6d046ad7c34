\* Every kind of request, with one or two chunks and up to two drafts, and
\* programs of up to five calls: a graph with two attentions and a read.
\* A request that has returned takes no step.
CONSTANTS
  Buffers <- GpuBuffers
  Programs <- MCPrograms
  Requests <- MCRequests
  MaxCalls = 5
SPECIFICATION Spec
CHECK_DEADLOCK FALSE
INVARIANTS
  TypeOK
  NothingStale
  GraphIsClosed
  RequestsAreAccepted
PROPERTY
  ImplementsEagerDevice
