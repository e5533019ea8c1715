SPECIFICATION PartsSpec
CONSTANTS
  None = None
  g1 = g1
  g2 = g2
  m1 = m1
  w1 = w1
  w2 = w2
  r1 = r1
  Template <- MCTemplates
  Channel <- MCChannels
  Variable <- MCVariables
  Writer <- MCWriters
  Renderer <- MCRenderers
  maxSize = 1
  MaxVersions = 2
  
PROPERTIES SavesKeep
CHECK_DEADLOCK FALSE
