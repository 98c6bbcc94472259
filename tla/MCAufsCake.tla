----------------------------- MODULE MCAufsCake -----------------------------
(***************************************************************************)
(* AufsCake for TLC: two images, and copies of them.                       *)
(***************************************************************************)
EXTENDS AufsCake, TLC

CONSTANTS image1, image2, copy1, copy2, copy3

\* One copy of each image: one uid mapping.
OneCopyEach == (copy1 :> image1) @@ (copy2 :> image2)

\* A second copy of the first image: the uid mapping was changed.
TwoCopies == (copy1 :> image1) @@ (copy2 :> image2) @@ (copy3 :> image1)

\* A setuid file of root with two names, a link, and a file of somebody else;
\* root is mapped to the highest id, as in Wire's mappings.
MCTree ==
    <<[uid |-> 0, gid |-> 0, setuid |-> TRUE, symlink |-> FALSE],
      [uid |-> 0, gid |-> 1, setuid |-> FALSE, symlink |-> TRUE],
      [uid |-> 1, gid |-> 0, setuid |-> FALSE, symlink |-> FALSE]>>
MCNames == <<1, 2, 3, 1>>
MCIdMap == 0 :> 9
=============================================================================
