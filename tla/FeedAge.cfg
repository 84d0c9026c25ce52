SPECIFICATION FairSpec
CONSTANT MaxStaleAge = 1
INVARIANTS TypeOK ExportedIffKnown ReportSettles
PROPERTY FlagFollows
