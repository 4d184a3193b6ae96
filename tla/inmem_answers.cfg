SPECIFICATION Spec
CONSTANTS
  Owner = {"ann@a", "bob@b", "cy@c"}
  Name = {"ann", "bob", "cy", "d", "f"}
  User = {"ann", "bob", "cy"}
  UserOf <- MCUserOf
  Path <- MCPaths
  Hash = {"h1", "h2", "h3"}
  Content <- MCContent
  None = None
  Reader = {r1}
  MaxRefs = 2
INVARIANTS TypeOK CountsExact RefsCover NothingLost AnswersExact
