SPECIFICATION FairSpec
CONSTANTS
  Cards = {c1, c2, c3}
  Fitting = {c1, c2}
  Template = Template
  NoCard = NoCard
  AppIndex <- MCAppIndex
  MaxQueue = 3
INVARIANTS
  TypeOK
  SessionOnlyOnScreen
  ReadCardIsOneCard
  OneVerdict
PROPERTIES
  OverdueNeedsTwoPresses
  ReadEnds
