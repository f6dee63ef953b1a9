SPECIFICATION Spec
CONSTANTS
  Requests = {r1, r2, st}
  Streams = {st}
  MaxEvents = 1
  NoRequest = NoRequest
  NoProcess = NoProcess
INVARIANTS
  OneWorker
