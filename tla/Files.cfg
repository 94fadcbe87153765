SPECIFICATION MCSpec
CONSTANTS
  Null = Null
  Nil = Nil
  NoAttr = NoAttr
  Base = 4
  Byte = 12
  UintSize = 4
  MinLinear = 8
  FileIds <- MCIds
  IdSize = 3
  RecordsOf <- MCRecordsOf
  Owner = "O"
  Attrs <- MCAttrs
  AttrIdx <- MCAttrIdx
  Implied <- MCImplied
  ImpliedRead <- MCImpliedRead
  Values <- MCValues
  Texts <- MCTexts
  Locales = {"en", "ru"}
  Clause <- ClauseOf
  ClauseBreaks <- ClauseCrashes
  ClauseReads <- ReadsClause
  SubjView <- SynodeView
CHECK_DEADLOCK FALSE
INVARIANTS
  RecordsKept
  ValueRoundTrip
  ShownAsGiven
  TidyTextsServed
  TextRoundTrip
  LoadFollowsSchema
  SchemaExact
