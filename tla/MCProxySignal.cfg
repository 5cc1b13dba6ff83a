SPECIFICATION MCSpec
CONSTANTS
  Requests = {r1, r2}
  Startup = startup
  Nobody = nobody
  Handlers = {h1, h2}
  MaxSignals = 2
PROPERTY SignalShutsDown
