SPECIFICATION SqliteSpec
CONSTANTS
  Owner = {"ann@a", "ann@c", "bob@b"}
  Name = {"ann", "bob", "d", "e", "f"}
  User = {"ann", "bob"}
  UserOf <- MCUserOf
  Path <- MCPaths
  Hash = {"h1"}
  Content <- MCContent
  None = None
INVARIANTS NoGhosts TwiceAtMost
