SPECIFICATION FairSpec
CONSTANTS
  Tasks = {t1, t2}
  NULL = NULL
  REPORTS = 3
INVARIANTS TypeOK WaiterIsSender TrueMeansAnswered 
PROPERTIES AnsweredOnceInside SendEnds
