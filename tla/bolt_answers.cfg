SPECIFICATION FairSpec
CONSTANTS
  Owner = {"ann@a", "bob@b"}
  Name = {"ann", "bob", "d", "e", "f"}
  User = {"ann", "bob"}
  UserOf <- MCUserOf
  Path <- MCPaths
  Hash = {"h1", "h2", "h3", "h4"}
  Content <- MCContent
  None = None
  Handler = {c1, c2}
  MaxList = 2
INVARIANTS TypeOK DirsExact IndexExact HashListed
PROPERTIES CleanUpEnds
