\* copy-dll with the plugins directory given as the directory the library
\* is built into.
CONSTANTS
    Names = {"jingle"}
    PluginDirs <- MCPluginDirs
    Prefixes = {"lib"}
    None = None

SPECIFICATION Spec

INVARIANT DllSurvives

\* The process exits once pc = "done".
CHECK_DEADLOCK FALSE
