\* Requests of two actions on three boards, with an edit of a person before,
\* between and after; entities beside the routes that upload what they refer to.
SPECIFICATION Spec
CONSTANTS
  a = a
  b = b
  c = c
  d = d
  e = e
  short = short
  long = long
  t1 = t1
  e1 = e1
  e2 = e2
  ShapeIds = {a, b, c, d, e}
  RankOf <- MCRankOf
  Page = Page
  Nobody = Nobody
  Gap = 4
  Texts = {short, long, NoText}
  NoText = NoText
  Drawn <- MCDrawn
  Estimate <- MCEstimate
  NoteSize = 8
  MaxSlides = 4
  EntityIds = {e1, e2}
  MaxEntities = 2
  MaxRelations = 2
  Callers = {r1, r2}
  Boards = {here, there}
  NoBoard = NoBoard
  UploadNames = {u1}
  TableNames = {t1, t2}
  MaxTables = 1
  StartBoards <- MCStartBoards
  StartEntities <- MCStartEntities
  Here = here
  Lists <- MCLists
  Spots = {0, 8}
  BoxSizes <- MCBoxSizes
  Columns = {2}
  Gaps = {2}
  BlockOptions <- MCBlockOptions
  Fields <- MCFields
  MaxSteps = 2
SYMMETRY AlikeCallers
INVARIANTS
  BindingsResolve
  PlacedClear
  VerifiedIsClear
  RelationsResolve
  TablesAreOfThisBoard
  AssetsAreTheirBoards
PROPERTIES
  ArrowsFollow
CHECK_DEADLOCK FALSE
