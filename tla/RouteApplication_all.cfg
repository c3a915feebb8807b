SPECIFICATION FairSpec
CONSTANTS V1 = V1 V2 = V2 V3 = V3 Absent = Absent Broken = Broken
  Route = Route Config = Config Package = Package
  Version <- Versions Source <- Sources Project <- Owned Input <- Listed MaxWrites = 1
PROPERTIES NothingForgotten RefreshIsAtomic CommitsWhatWasJudged RefreshRecovers
