---------------------------- MODULE MCFileSystem ----------------------------
(* An instance of FileSystem for TLC.  A file has room for a name of three     *)
(* letters; one of the two files has a shorter name than the other.            *)
EXTENDS FileSystem

CONSTANTS x, y

Name(base, ext) == [base |-> base, ext |-> ext]
File == Name(<<"f", "g">>, <<"t">>)
ShellName == Name(<<"s">>, <<"r">>)
Directory == Name(<<"d">>, <<>>)

MCFiles == {File, ShellName}
MCDirectories == {Directory}
MCPaths == {<<>>, <<Directory>>, <<Directory, Directory>>}
MCContents == {<<x>>, <<y, x, y, x>>}
MCShellImage == <<y>>
=============================================================================
