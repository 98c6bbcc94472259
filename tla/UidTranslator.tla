--------------------------- MODULE UidTranslator ---------------------------
(***************************************************************************)
(* UidNamespacer and UidTranslator: the walk over the copy of an image     *)
(* that gives every file to the uid and gid its owner is mapped to.        *)
(*                                                                         *)
(* The walk goes by names, ownership and mode belong to inodes: a file     *)
(* with two names is visited twice.  lchown clears the setuid bit, which   *)
(* is why chown.Chown sets the mode again.                                 *)
(***************************************************************************)
EXTENDS Naturals, Sequences

CONSTANTS
    Names,      \* the inode of each name, in the order of filepath.Walk
    Tree,       \* the inodes of the image: owner, group, setuid bit, symlink or not
    UidMap,     \* idmapper.MappingList.Map for uids: the ids that change
    GidMap      \* and for gids

Map(mapping, id) == IF id \in DOMAIN mapping THEN mapping[id] ELSE id

ASSUME TreeAssumption ==
    /\ Tree \in [DOMAIN Tree -> [uid : Nat, gid : Nat, setuid : BOOLEAN, symlink : BOOLEAN]]
    /\ Names \in Seq(DOMAIN Tree)
    /\ {Names[n] : n \in DOMAIN Names} = DOMAIN Tree

\* Translating twice is translating once, for the files that have two names.
ASSUME StableAssumption ==
    \A m, n \in DOMAIN Names : m # n /\ Names[m] = Names[n] =>
        LET i == Tree[Names[n]]
        IN  /\ Map(UidMap, Map(UidMap, i.uid)) = Map(UidMap, i.uid)
            /\ Map(GidMap, Map(GidMap, i.gid)) = Map(GidMap, i.gid)

\* What becomes of a call of chown.Chown, whose error nobody looks at: it goes
\* through, or lchown fails, or only chmod does.
Outcomes == {"done", "failed", "bare"}

\* Mutant: the mode is not set again.
Lchown(i, uid, gid, outcome) ==
    IF outcome = "failed" THEN i ELSE [i EXCEPT !.uid = uid, !.gid = gid, !.setuid = FALSE]

Chown(i, uid, gid, outcome) ==
    IF outcome = "failed" THEN i
    ELSE [i EXCEPT !.uid = uid, !.gid = gid,
                   !.setuid = @ /\ (i.symlink \/ outcome = "done")]

\* Nothing is done to an inode whose ids do not change.
Translate(i, outcome) ==
    LET touid == Map(UidMap, i.uid)
        togid == Map(GidMap, i.gid)
    IN  IF touid # i.uid \/ togid # i.gid THEN Chown(i, touid, togid, outcome) ELSE i

\* filepath.Walk: the tree after all the names have been visited.
Namespace(outcomes) ==
    LET after[n \in 0..Len(Names)] ==
            IF n = 0 THEN Tree
            ELSE [after[n - 1] EXCEPT ![Names[n]] = Translate(@, outcomes[n])]
    IN  after[Len(Names)]

\* What the walk is for: every inode mapped once, modes as they were.
IsTranslated(tree) ==
    \A i \in DOMAIN Tree :
        tree[i] = [Tree[i] EXCEPT !.uid = Map(UidMap, @), !.gid = Map(GidMap, Tree[i].gid)]
=============================================================================
