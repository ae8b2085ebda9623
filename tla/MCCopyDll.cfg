\* One run of copy-dll over every target OS, build mode, --parents and
\* --prefix, into the Linux release directory itself or a plugins
\* directory, over every file system the run can meet there.
CONSTANTS
    Names = {"jingle"}
    PluginDirs <- MCPluginDirs
    Prefixes = {"lib"}
    None = None

SPECIFICATION Spec

INVARIANT ErrorExitLeavesFsUnchanged
INVARIANT OnlyPluginWritten

\* The process exits once pc = "done".
CHECK_DEADLOCK FALSE
