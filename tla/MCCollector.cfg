SPECIFICATION FairSpec
CONSTANTS
  Env = {e1}
  Arr = {a1}
  Fun = {f1}
  NoObj = NoObj
INVARIANTS TypeOK NoDangling MarksLiveOnly
PROPERTIES FullCollectionReclaims ImplementsReclaim ImplementsCollection CollectionEnds
