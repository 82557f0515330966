SPECIFICATION Conversing
CONSTANTS
  Kinds <- AllKinds
  Inputs <- NoText
  Width = 8
  SizeMax = 1000
  Zero = "nul"
  Trees <- SomeTrees
  Sinks <- SomeSinks
  Chunks <- SomeChunks
  Healthy = FALSE
INVARIANTS LengthSizesTheArray NoHoles CutIsNoticed WhatIsWrittenReadsBack ControlsAreNoticed
\* everything was read
CHECK_DEADLOCK FALSE
