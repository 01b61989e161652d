--------------------------- MODULE MCStorageHttp ---------------------------
(* Two connections, which may be open at once, over two file names.        *)
EXTENDS StorageHttp

CONSTANTS c1, c2, f1, f2

TwoConns == {c1, c2}
OneFile == {f1}
TwoFiles == {f1, f2}
AllBehaviors == {"UPLOAD", "DELETE", "DOWNLOAD"}
Changes == {"UPLOAD", "DELETE"}
Both == {"public", "private"}
PublicOnly == {"public"}
=============================================================================
