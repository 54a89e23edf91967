SPECIFICATION NodeSpec
CONSTANTS
  Url = {"ws1"}
  BadUrl = {"http"}
  Name = {"laptop"}
  Hostname = "laptop"
  Person = {}
  Token = {"t1", "t2"}
  Env <- NoEnv
  Declared <- SomeDeclared
  Forms <- UnnamedForm
  Entries = {"writable", "overlay", "none"}
  Request = {q1, q2}
SYMMETRY Symmetry
  
PROPERTIES SecretKept
CHECK_DEADLOCK FALSE
