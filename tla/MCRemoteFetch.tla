--------------------------- MODULE MCRemoteFetch ---------------------------
(***************************************************************************)
(* RemoteFetch for TLC: two images on one base layer, whose top layers are *)
(* different layers of the same blob.                                      *)
(***************************************************************************)
EXTENDS RemoteFetch, TLC

CONSTANTS baseLayer, app, tool, baseBlob, topBlob

MCImages == {<<baseLayer, app>>, <<baseLayer, tool>>}

MCBlobOf == [x \in Layers |-> IF x = baseLayer THEN baseBlob ELSE topBlob]
MCParentOf == [x \in Layers |-> IF x = baseLayer THEN NoLayer ELSE baseLayer]

\* Blobs of 2 and 1 bytes; those of the base layer and of tool are compressed.
MCBytes == [x \in Layers |-> IF x = baseLayer THEN 2 ELSE 1]
MCInflated == [x \in Layers |-> IF x = baseLayer THEN 4 ELSE IF x = app THEN 1 ELSE 3]

\* The manifests declare the packed sizes, and none for tool.
MCDeclared == [x \in Layers |-> IF x = tool THEN 0 ELSE MCBytes[x]]
=============================================================================
