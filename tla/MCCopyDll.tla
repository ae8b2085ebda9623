------------------------------ MODULE MCCopyDll ------------------------------
EXTENDS CopyDll

\* The release directory of the Linux build, and a Unity plugins directory.
MCPluginDirs == {<<"target", "x86_64-unknown-linux-gnu", "release">>, <<"Assets", "Plugins">>}

=============================================================================
