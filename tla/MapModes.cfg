\* Three loops: one on screen, one in each of its waits.
SPECIFICATION Spec
CONSTANTS
  MaxLoops = 3
  MaxForced = 2
INVARIANTS
  TypeOK
  FreeMapAddsPoints
  OneEffectPerClick
  ModesStayVisible
  ZonesNeedTheMode
  
