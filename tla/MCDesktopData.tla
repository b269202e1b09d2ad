--------------------------- MODULE MCDesktopData ----------------------------
(* Two instances: the schema and the archives over two releases, without    *)
(* documents, and one document with its file within one release.            *)
EXTENDS DesktopData
CONSTANTS d1
NoDocs == {}
OneDoc == {d1}
OneRetention == {1}
TwoRetentions == {1, 2}
=============================================================================
