\* install, and install --force over what it wrote; nothing goes wrong.
SPECIFICATION Spec
CONSTANTS
  None = None
  Sqlite = sqlite
  Typed = typed
  u1 = u1
  Uris = {u1}
  Shells <- ShellEnvironments
  MaxGenerations = 2
  MaxMishaps = 0
INVARIANT InstallSeesTheFileItWrote
