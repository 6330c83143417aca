SPECIFICATION Spec
CONSTANTS
  Stretches <- SomeStretches
  Healths <- SomeHealths
  Snapshots = 20
  Needs <- SmallNeeds
  Limits <- DefaultLimits
  ShadowMin <- DefaultShadowMin
  Line <- MiddleLine
  Noted <- SomeNotes
  MaxDay = 1
  MaxStretches = 2
  MaxRuns = 2
  MaxAttempts = 1
INVARIANTS
  TypeOK
  GateMatchesKpis
  ScoresSeparate
  ReviewedRoutesAdmitted
PROPERTIES
  ReadyOutlivesGoodNews
  PhaseOnlyFallsFromReview
