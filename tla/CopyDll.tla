------------------------------- MODULE CopyDll -------------------------------
(***************************************************************************)
(* copy-dll/src/main.rs: one run of the command that copies the built      *)
(* native library from ./target/<triple>/<release|debug>/ into a Unity     *)
(* plugins directory.  The command line is parsed into a Dll; the source   *)
(* path s and the plugin path t are computed from it; then s, t's parent   *)
(* and t are checked in turn, the parent is created if asked, and          *)
(* std::fs::copy(s, t) is called.                                          *)
(*                                                                         *)
(* The file system is reduced to the three paths the run looks at (s, the  *)
(* parent tp of t, and t; some of them may be the same path), each with   *)
(* the kind of entry found there and, for files, what it holds.  The      *)
(* command runs on a Unix host, whose std::fs::copy opens the source,     *)
(* then opens the destination with truncation, then copies the bytes and   *)
(* the source's permissions.                                               *)
(***************************************************************************)
EXTENDS Naturals, Sequences

CONSTANTS
    Names,          \* artifact names given on the command line
    PluginDirs,     \* plugins directories, as sequences of path components
    Prefixes,       \* values of --prefix
    None            \* no --prefix

\* enum Os (the clap value enum).
Oses == {"Linux", "Windows", "WindowsMsvc", "Osx", "OsxM1"}

Prefix(os) == IF os \in {"Windows", "WindowsMsvc"} THEN "" ELSE "lib"

Suffix(os) ==
    CASE os = "Linux"                       -> ".so"
      [] os \in {"Windows", "WindowsMsvc"}  -> ".dll"
      [] os \in {"Osx", "OsxM1"}            -> ".dylib"

NameToDllName(os, name) == Prefix(os) \o name \o Suffix(os)

NameToPluginName(os, name, prefix) ==
    (IF prefix = None THEN "" ELSE prefix) \o "lib" \o name \o Suffix(os)

TargetTriple(os) ==
    CASE os = "Linux"       -> "x86_64-unknown-linux-gnu"
      [] os = "Windows"     -> "x86_64-pc-windows-gnu"
      [] os = "WindowsMsvc" -> "x86_64-pc-windows-msvc"
      [] os = "Osx"         -> "x86_64-apple-darwin"
      [] os = "OsxM1"       -> "aarch64-apple-darwin"

ReleaseOrDebug(isRelease) == IF isRelease THEN "release" ELSE "debug"

\* "./target" is the directory target of the working directory.
TargetPath(os, isRelease) == <<"target", TargetTriple(os), ReleaseOrDebug(isRelease)>>

\* Dll::dll_path and Os::dll_path: s.
DllPath(dll) == Append(TargetPath(dll.os, dll.isRelease), NameToDllName(dll.os, dll.name))

\* Dll::plugin_path and Os::plugin_path: t.
PluginPath(dll) ==
    Append(dll.pluginPath, NameToPluginName(dll.os, dll.name, dll.prefix))

\* struct Dll: the parsed command line.
Dlls ==
    [name : Names, os : Oses, isRelease : BOOLEAN, pluginPath : PluginDirs,
     parents : BOOLEAN, prefix : Prefixes \cup {None}]

Parent(p) == SubSeq(p, 1, Len(p) - 1)

(***************************************************************************)
(* Kinds of entry.  "broken": a symbolic link to nothing; "special": a     *)
(* FIFO, socket or device; "denied": a path whose metadata cannot be read  *)
(* (try_exists returns Err); "rofile"/"rodir": not writable; "blocked": an *)
(* absent directory that create_dir_all cannot create.                     *)
(***************************************************************************)
FileKinds == {"none", "broken", "file", "rofile", "dir", "denied"}
TargetKinds == FileKinds \cup {"special"}
DirKinds == {"dir", "rodir", "none", "blocked", "file", "denied"}

\* try_exists() = Ok(true), Ok(false), or Err.
Exists(kind) == kind \in {"file", "rofile", "dir", "rodir", "special"}
Missing(kind) == kind \in {"none", "broken", "blocked"}

IsFile(kind) == kind \in {"file", "rofile"}

VARIABLES
    dll,            \* the parsed command line
    fs,             \* path -> kind of entry, for s, tp and t
    data,           \* path -> what a file holds: "dll", "old" or "empty"
    fs0, data0,     \* the file system when the command started
    pc,             \* "source" | "parent" | "target" | "copy" | "done"
    status          \* "running" | "error" | "panic" | "copied"

vars == <<dll, fs, data, fs0, data0, pc, status>>

s  == DllPath(dll)
t  == PluginPath(dll)
tp == Parent(t)

\* A file system the run can meet: what lies under a directory that is
\* not there, or cannot be read, is not there or cannot be read.
Consistent(f) ==
    /\ f[s] \in FileKinds
    /\ f[t] \in TargetKinds
    /\ f[tp] \in DirKinds
    /\ ~(f[tp] \in {"dir", "rodir"}) =>
          f[t] = IF Missing(f[tp]) THEN "none" ELSE "denied"
    /\ Parent(s) = tp /\ ~(f[tp] \in {"dir", "rodir"}) => f[s] = f[t]

Init ==
    /\ dll \in Dlls
    /\ fs \in {f \in [{s, tp, t} -> TargetKinds \cup DirKinds] : Consistent(f)}
    /\ data = [p \in {s, tp, t} |-> IF p = s THEN "dll" ELSE "old"]
    /\ fs0 = fs
    /\ data0 = data
    /\ pc = "source"
    /\ status = "running"

\* error!: a message on stderr and exit code 1.
ErrorExit ==
    /\ pc' = "done"
    /\ status' = "error"
    /\ UNCHANGED <<dll, fs, data, fs0, data0>>

\* An unwrap() on an Err.
Panic ==
    /\ pc' = "done"
    /\ status' = "panic"
    /\ UNCHANGED <<dll, fs, data, fs0, data0>>

Goto(next) ==
    /\ pc' = next
    /\ UNCHANGED <<dll, fs, data, fs0, data0, status>>

\* match s.try_exists(): only Ok(true) goes on.
CheckSource ==
    /\ pc = "source"
    /\ IF Exists(fs[s]) THEN Goto("parent") ELSE ErrorExit

\* Variant of CheckParent that creates a missing parent before looking at
\* --parents (a mutant checked against ErrorExitLeavesFsUnchanged).
CheckParentCreatesFirst ==
    /\ pc = "parent"
    /\ \/ Exists(fs[tp]) /\ Goto("target")
       \/ /\ Missing(fs[tp])
          /\ IF fs[tp] = "blocked" THEN Panic
             ELSE /\ fs' = [fs EXCEPT ![tp] = "dir"]
                  /\ pc' = IF dll.parents THEN "target" ELSE "done"
                  /\ status' = IF dll.parents THEN status ELSE "error"
                  /\ UNCHANGED <<dll, data, fs0, data0>>
       \/ fs[tp] = "denied" /\ ErrorExit

\* t.parent() is never None: t is a directory joined with a file name.
\* A missing parent is created with --parents; create_dir_all is unwrapped.
CheckParent ==
    /\ pc = "parent"
    /\ \/ Exists(fs[tp]) /\ Goto("target")
       \/ /\ Missing(fs[tp]) /\ dll.parents
          /\ IF fs[tp] = "blocked" THEN Panic
             ELSE /\ fs' = [fs EXCEPT ![tp] = "dir"]
                  /\ pc' = "target"
                  /\ UNCHANGED <<dll, data, fs0, data0, status>>
       \/ Missing(fs[tp]) /\ ~dll.parents /\ ErrorExit
       \/ fs[tp] = "denied" /\ ErrorExit

\* An existing t must be a regular file, which is overwritten; an Err from
\* try_exists counts as absent.
CheckTarget ==
    /\ pc = "target"
    /\ IF Exists(fs[t]) /\ ~IsFile(fs[t]) THEN ErrorExit ELSE Goto("copy")

(***************************************************************************)
(* copy(s, t).unwrap().  The source must open as a regular file; the      *)
(* destination is opened for writing, created or truncated, which needs a *)
(* writable file or, for a new one, a writable directory.  If s and t are *)
(* the same file, the truncation empties the source before its bytes are *)
(* read, and zero bytes are copied.  t takes the source's permissions.    *)
(* Copying the bytes can fail once t is open (a full disk, an I/O error): *)
(* t is left created or truncated, holding part of the library, and the  *)
(* unwrap panics.                                                         *)
(***************************************************************************)
\* Variant of Copy with its arguments swapped, copy(t, s) (a mutant checked
\* against OnlyPluginWritten).
CopySwapped ==
    /\ pc = "copy"
    /\ IF IsFile(fs[t]) /\ fs[s] = "file"
           THEN /\ fs' = [fs EXCEPT ![s] = fs[t]]
                /\ data' = [data EXCEPT ![s] = IF s = t THEN "empty" ELSE data[t]]
                /\ pc' = "done"
                /\ status' = "copied"
                /\ UNCHANGED <<dll, fs0, data0>>
           ELSE Panic

Copy ==
    /\ pc = "copy"
    /\ LET writable == \/ fs[t] = "file"
                       \/ fs[t] \in {"none", "broken"} /\ fs[tp] = "dir"
       IN  \/ /\ IsFile(fs[s]) /\ writable
              /\ fs' = [fs EXCEPT ![t] = fs[s]]
              /\ data' = [data EXCEPT ![t] = IF s = t THEN "empty" ELSE data[s]]
              /\ pc' = "done"
              /\ status' = "copied"
              /\ UNCHANGED <<dll, fs0, data0>>
           \/ /\ IsFile(fs[s]) /\ writable
              /\ fs' = [fs EXCEPT ![t] = "file"]
              /\ data' = [data EXCEPT ![t] = "empty"]
              /\ pc' = "done"
              /\ status' = "panic"
              /\ UNCHANGED <<dll, fs0, data0>>
           \/ ~(IsFile(fs[s]) /\ writable) /\ Panic

Next ==
    \/ CheckSource
    \/ CheckParent
    \/ CheckTarget
    \/ Copy

Spec == Init /\ [][Next]_vars

-----------------------------------------------------------------------------
(* Properties *)

(***************************************************************************)
(* A run that ends in error! has changed nothing: every check that can    *)
(* fail with a message comes before the first write (create_dir_all).     *)
(***************************************************************************)
ErrorExitLeavesFsUnchanged ==
    status = "error" => fs = fs0 /\ data = data0

(***************************************************************************)
(* Whatever the outcome, the only entries the run has changed are the     *)
(* plugin, written over nothing or over a writable regular file, and its  *)
(* directory, created only with --parents where there was none.           *)
(***************************************************************************)
OnlyPluginWritten ==
    \A p \in DOMAIN fs :
        fs[p] # fs0[p] \/ data[p] # data0[p] =>
            \/ p = t /\ fs0[t] \in {"none", "broken", "file"}
            \/ p = tp /\ fs0[tp] = "none" /\ dll.parents

(***************************************************************************)
(* The built library is never lost: when the run ends, its bytes are      *)
(* still at the source path or have been copied to the plugin path.       *)
(***************************************************************************)
DllSurvives ==
    pc = "done" /\ IsFile(fs0[s]) => data[s] = "dll" \/ data[t] = "dll"

=============================================================================
